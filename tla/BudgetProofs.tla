----------------------------- MODULE BudgetProofs -----------------------------
(***************************************************************************)
(* What the budget keeps, for any categories, months and amounts, and any   *)
(* number of commands at once.                                              *)
(*                                                                          *)
(* A move conserves what is assigned.  That needs only that the rows, and   *)
(* what a command has read of them, are rows: the inductive invariant        *)
(* BudgetInv.                                                               *)
(*                                                                          *)
(* The engine's figures lose no cent, and a balance is what its months say. *)
(* Both are facts about any tables of whole amounts, proved by induction    *)
(* over the months from the first that counts; the sums over categories and *)
(* months, which the library takes in an order that CHOOSE picks, do not    *)
(* depend on that order.                                                    *)
(***************************************************************************)
EXTENDS MoneyBudget, FiniteSetTheorems, NaturalsInduction, WellFoundedInduction, TLAPS

Rows    == [amount : Int, carryover : BOOLEAN]
OptRows == Rows \union {NoRow}

Moves    == {q \in [do : {"move"}, month : Months, from : Expense, to : Expense, amount : Nat,
                    fromRow : OptRows, toRow : OptRows] : q.from # q.to}
Copies   == [do : {"copy"}, month : Months, prevBudgets : [Categories -> OptRows]]
Zeros    == [do : {"zero"}, month : Months, todo : SUBSET Categories]
GoalRuns == [do : {"goals"}, month : Months, todo : SUBSET Categories]
Averages == [do : {"average"}, month : Months, span : Nat \ {0}, todo : SUBSET Categories,
             cat : Categories \union {NoRow}, next : Nat \ {0}, sum : Int, count : Nat]

Commands == Moves \union Copies \union Zeros \union GoalRuns \union Averages

TablesOK == budgets \in [Months -> [Categories -> OptRows]]

\* A command that writes an average has read, so that it has a category.
CommandsOK ==
    /\ reqs \in [Requests -> Commands \union {Idle}]
    /\ \A r \in Requests :
          Doing(r, "average") => reqs[r].next = 1 \/ reqs[r].cat \in Categories

BudgetInv == TablesOK /\ CommandsOK

-------------------------------------------------------------------------------
(* Rows *)

LEMMA Constants ==
    /\ \A a \in Cents : a \in Nat /\ -a \in Int
    /\ GoalAmount \in Int
    /\ \A n \in Spans : n \in Nat \ {0}
    /\ NoRow \notin Rows
    /\ Rows \subseteq OptRows /\ NoRow \in OptRows
<1>1. Cents \subseteq Nat /\ GoalAmount \in Nat /\ Spans \subseteq Nat \ {0}
  BY AmountsFit
<1>2. NoRow \notin Rows
  BY AmountsFit DEF Rows
<1>. QED  BY <1>1, <1>2 DEF OptRows

LEMMA AmountTyped == ASSUME NEW row \in OptRows PROVE AmountIn(row) \in Int
BY DEF AmountIn, OptRows, Rows

LEMMA UpsertedTyped ==
    ASSUME NEW row \in OptRows, NEW amount \in Int
    PROVE  Upserted(row, amount) \in Rows
BY DEF Upserted, OptRows, Rows, Row

\* What a move writes into one row.
LEMMA MovedTyped ==
    ASSUME NEW row \in OptRows, NEW read \in OptRows, NEW delta \in Int
    PROVE  MovedRow(row, read, delta) \in Rows
BY DEF MovedRow, OptRows, Rows, Row

LEMMA MovedAmount ==
    ASSUME NEW row \in OptRows, NEW read \in OptRows, NEW delta \in Int,
           read # NoRow => row # NoRow
    PROVE  AmountIn(MovedRow(row, read, delta)) = AmountIn(row) + delta
<1>1. MovedRow(row, read, delta) # NoRow
  BY MovedTyped, Constants
<1>2. CASE row = NoRow
  BY <1>1, <1>2 DEF MovedRow, AmountIn, Row
<1>3. CASE row # NoRow
  BY <1>1, <1>3 DEF MovedRow, AmountIn, OptRows, Rows
<1>. QED  BY <1>2, <1>3

\* A batch over some categories of a month, and the writing of one row.
LEMMA BatchTyped ==
    ASSUME TablesOK, NEW m \in Months, NEW change, DOMAIN change \subseteq Categories,
           \A c \in DOMAIN change : change[c] \in OptRows,
           PutAll(m, change)
    PROVE  TablesOK'
BY DEF TablesOK, PutAll

LEMMA PutTyped ==
    ASSUME TablesOK, NEW m \in Months, NEW c \in Categories, NEW row \in OptRows,
           Put(m, c, row)
    PROVE  TablesOK'
BY DEF TablesOK, Put

\* Requests: one begins, one goes on, one ends.
LEMMA RequestTyped ==
    ASSUME CommandsOK, NEW r \in Requests, NEW q \in Commands \union {Idle},
           q # Idle /\ q.do = "average" => q.next = 1 \/ q.cat \in Categories,
           reqs' = [reqs EXCEPT ![r] = q]
    PROVE  CommandsOK'
BY DEF CommandsOK, Doing

LEMMA FinishTyped ==
    ASSUME CommandsOK, NEW r \in Requests, Finish(r)
    PROVE  CommandsOK'
BY DEF CommandsOK, Doing, Finish

\* set_zero and the targets go from category to category.
LEMMA DoneTyped ==
    ASSUME CommandsOK, NEW r \in Requests, NEW c, Doing(r, "zero") \/ Doing(r, "goals"),
           Done(r, c)
    PROVE  CommandsOK'
<1>1. CASE Finish(r)
  BY <1>1, FinishTyped
<1>2. CASE reqs' = [reqs EXCEPT ![r].todo = @ \ {c}]
  <2> DEFINE q == [reqs[r] EXCEPT !.todo = @ \ {c}]
  <2>1. reqs[r] \in Zeros \union GoalRuns
    BY DEF CommandsOK, Doing, Commands, Moves, Copies, Zeros, GoalRuns, Averages
  <2>2. q \in Zeros \union GoalRuns /\ q.do # "average"
    BY <2>1 DEF Zeros, GoalRuns
  <2>3. reqs' = [reqs EXCEPT ![r] = q]
    BY <1>2
  <2>. QED  BY <2>2, <2>3, RequestTyped DEF Commands
<1>. QED  BY <1>1, <1>2 DEF Done

-------------------------------------------------------------------------------
(* Steps *)

LEMMA SingleStep ==
    ASSUME BudgetInv, SetAmount \/ SetPlan \/ Allocate \/ SetCarryover
    PROVE  BudgetInv'
<1>1. CommandsOK'
  BY DEF BudgetInv, SetAmount, SetPlan, Allocate, SetCarryover, CommandsOK, Doing
<1>2. TablesOK
  BY DEF BudgetInv
<1>3. CASE SetAmount
  <2>1. PICK m \in Months, c \in Categories, a \in Cents :
            Put(m, c, Upserted(budgets[m][c], a))
    BY <1>3 DEF SetAmount
  <2>2. Upserted(budgets[m][c], a) \in OptRows
    BY <1>2, UpsertedTyped, Constants DEF TablesOK
  <2>. QED  BY <1>1, <1>2, <2>1, <2>2, PutTyped DEF BudgetInv
<1>4. CASE SetPlan
  <2>0. PICK m \in Months, S \in Planned : \E plan \in [S -> Cents] :
            PutAll(m, [c \in S |-> Upserted(budgets[m][c], plan[c])])
    BY <1>4 DEF SetPlan
  <2>1. PICK plan \in [S -> Cents] : PutAll(m, [c \in S |-> Upserted(budgets[m][c], plan[c])])
    BY <2>0
  <2>2. S \subseteq Categories
    BY DEF Planned, Categories
  <2>3. \A c \in S : Upserted(budgets[m][c], plan[c]) \in OptRows
    BY <1>2, <2>2, UpsertedTyped, Constants DEF TablesOK
  <2>. QED  BY <1>1, <1>2, <2>1, <2>2, <2>3, BatchTyped DEF BudgetInv
<1>5. CASE Allocate
  <2>0. PICK m \in Months, S \in Planned : \E plan \in [S -> Signed(Cents) \ {0}] :
            PutAll(m, [c \in S |-> Upserted(budgets[m][c], Amount(m, c) + plan[c])])
    BY <1>5 DEF Allocate
  <2>1. PICK plan \in [S -> Signed(Cents) \ {0}] :
            PutAll(m, [c \in S |-> Upserted(budgets[m][c], Amount(m, c) + plan[c])])
    BY <2>0
  <2>2. S \subseteq Categories
    BY DEF Planned, Categories
  <2>3. \A c \in S : plan[c] \in Int
    BY Constants DEF Signed
  <2>4. \A c \in S : Amount(m, c) \in Int
    BY <1>2, <2>2, AmountTyped DEF TablesOK, Amount
  <2>5. \A c \in S : Upserted(budgets[m][c], Amount(m, c) + plan[c]) \in OptRows
    BY <1>2, <2>2, <2>3, <2>4, UpsertedTyped, Constants DEF TablesOK
  <2>. QED  BY <1>1, <1>2, <2>1, <2>2, <2>5, BatchTyped DEF BudgetInv
<1>6. CASE SetCarryover
  <2>1. PICK m \in Months, c \in Categories, carryover \in BOOLEAN :
            /\ budgets[m][c] # NoRow
            /\ Put(m, c, [budgets[m][c] EXCEPT !.carryover = carryover])
    BY <1>6 DEF SetCarryover
  <2>2. budgets[m][c] \in Rows
    BY <1>2, <2>1 DEF TablesOK, OptRows
  <2>3. [budgets[m][c] EXCEPT !.carryover = carryover] \in OptRows
    BY <2>2 DEF Rows, OptRows
  <2>. QED  BY <1>1, <1>2, <2>1, <2>3, PutTyped DEF BudgetInv
<1>. QED  BY <1>3, <1>4, <1>5, <1>6

\* A command starts with rows that are rows.
LEMMA BeginTyped ==
    ASSUME CommandsOK, NEW r \in Requests, NEW q \in Commands,
           q.do = "average" => q.next = 1, Begin(r, q)
    PROVE  CommandsOK'
BY RequestTyped DEF Begin

LEMMA BeginStep ==
    ASSUME BudgetInv, NEW r \in Requests,
           BeginMove(r) \/ BeginCopy(r) \/ BeginZero(r) \/ BeginGoals(r) \/ BeginAverage(r)
    PROVE  BudgetInv'
<1>1. TablesOK /\ CommandsOK
  BY DEF BudgetInv
<1>2. CASE BeginMove(r)
  <2>1. PICK m \in Months, from \in Expense \intersect Visible,
             to \in Expense \intersect Visible, a \in Cents :
          /\ from # to /\ a > 0
          /\ Begin(r, [do |-> "move", month |-> m, from |-> from, to |-> to, amount |-> a,
                       fromRow |-> budgets[m][from], toRow |-> budgets[m][to]])
    BY <1>2 DEF BeginMove
  <2> DEFINE q == [do |-> "move", month |-> m, from |-> from, to |-> to, amount |-> a,
                   fromRow |-> budgets[m][from], toRow |-> budgets[m][to]]
  <2>2. budgets[m][from] \in OptRows /\ budgets[m][to] \in OptRows
    BY <1>1 DEF TablesOK, Categories
  <2>3. q \in Commands
    BY <2>1, <2>2, Constants DEF Commands, Moves
  <2>4. CommandsOK'
    BY <1>1, <2>1, <2>3, BeginTyped
  <2>. QED  BY <1>1, <1>2, <2>4 DEF BeginMove, BudgetInv, TablesOK
<1>3. CASE BeginCopy(r)
  <2>1. PICK k \in Months, m \in Months :
          Begin(r, [do |-> "copy", month |-> m, prevBudgets |-> budgets[k]])
    BY <1>3 DEF BeginCopy
  <2>2. [do |-> "copy", month |-> m, prevBudgets |-> budgets[k]] \in Commands
    BY <1>1 DEF TablesOK, Commands, Copies
  <2>3. CommandsOK'
    BY <1>1, <2>1, <2>2, BeginTyped
  <2>. QED  BY <1>1, <1>3, <2>3 DEF BeginCopy, BudgetInv, TablesOK
<1>4. CASE BeginZero(r)
  <2>1. PICK m \in Months :
          /\ Begin(r, [do |-> "zero", month |-> m, todo |-> Visible])
          /\ PutAll(m, [c \in Categories |-> NoRow])
    BY <1>4 DEF BeginZero
  <2>2. [do |-> "zero", month |-> m, todo |-> Visible] \in Commands
    BY DEF Commands, Zeros, Visible
  <2>3. CommandsOK'
    BY <1>1, <2>1, <2>2, BeginTyped
  <2>4. TablesOK'
    BY <1>1, <2>1, BatchTyped DEF OptRows
  <2>. QED  BY <2>3, <2>4 DEF BudgetInv
<1>5. CASE BeginGoals(r)
  <2>1. PICK m \in Months :
          Begin(r, [do |-> "goals", month |-> m, todo |-> Goals \intersect Visible])
    BY <1>5 DEF BeginGoals
  <2>2. [do |-> "goals", month |-> m, todo |-> Goals \intersect Visible] \in Commands
    BY DEF Commands, GoalRuns, Visible
  <2>3. CommandsOK'
    BY <1>1, <2>1, <2>2, BeginTyped
  <2>. QED  BY <1>1, <1>5, <2>3 DEF BeginGoals, BudgetInv, TablesOK
<1>6. CASE BeginAverage(r)
  <2>1. PICK m \in Months, n \in Spans : Begin(r, Average(m, n, Visible))
    BY <1>6 DEF BeginAverage
  <2>2. Average(m, n, Visible) \in Commands /\ Average(m, n, Visible).next = 1
    BY Constants DEF Average, Commands, Averages, Visible
  <2>3. CommandsOK'
    BY <1>1, <2>1, <2>2, BeginTyped
  <2>. QED  BY <1>1, <1>6, <2>3 DEF BeginAverage, BudgetInv, TablesOK
<1>. QED  BY <1>2, <1>3, <1>4, <1>5, <1>6

\* Which record a request holds.
LEMMA CommandOf ==
    ASSUME CommandsOK, NEW r \in Requests
    PROVE  /\ Doing(r, "move")    => reqs[r] \in Moves
           /\ Doing(r, "copy")    => reqs[r] \in Copies
           /\ Doing(r, "zero")    => reqs[r] \in Zeros
           /\ Doing(r, "goals")   => reqs[r] \in GoalRuns
           /\ Doing(r, "average") => reqs[r] \in Averages
BY DEF CommandsOK, Doing, Commands, Moves, Copies, Zeros, GoalRuns, Averages

\* What a batch leaves in each row of the month.
LEMMA MoveRows ==
    ASSUME BudgetInv, NEW r \in Requests, Move(r)
    PROVE  LET q    == reqs[r]
               rows == budgets[q.month]
           IN  /\ q \in Moves
               /\ \A m \in Months, c \in Categories :
                    budgets'[m][c] =
                       IF m = q.month /\ c = q.from
                         THEN MovedRow(rows[c], q.fromRow, -q.amount)
                       ELSE IF m = q.month /\ c = q.to
                         THEN MovedRow(rows[c], q.toRow, q.amount)
                       ELSE budgets[m][c]
<1>1. reqs[r] \in Moves
  BY CommandOf DEF BudgetInv, Move
<1>2. budgets \in [Months -> [Categories -> OptRows]]
  BY DEF BudgetInv, TablesOK
<1>. QED  BY <1>1, <1>2 DEF Move, PutAll, Moves

LEMMA MoveStep == ASSUME BudgetInv, NEW r \in Requests, Move(r) PROVE BudgetInv'
<1> DEFINE q == reqs[r]
           rows == budgets[q.month]
           change == [c \in {q.from, q.to} |->
               IF c = q.from THEN MovedRow(rows[c], q.fromRow, -q.amount)
                             ELSE MovedRow(rows[c], q.toRow, q.amount)]
<1>1. TablesOK /\ CommandsOK
  BY DEF BudgetInv
<1>2. q \in Moves
  BY MoveRows
<1>3. /\ q.from \in Categories /\ q.to \in Categories /\ q.month \in Months
      /\ q.fromRow \in OptRows /\ q.toRow \in OptRows
      /\ q.amount \in Int /\ -q.amount \in Int
  BY <1>2 DEF Moves, Categories
<1>4. rows[q.from] \in OptRows /\ rows[q.to] \in OptRows
  BY <1>1, <1>3 DEF TablesOK
<1>5. \A c \in {q.from, q.to} : change[c] \in OptRows
  BY <1>3, <1>4, MovedTyped, Constants
<1>6. PutAll(q.month, change)
  BY DEF Move
<1>7. DOMAIN change \subseteq Categories
  BY <1>3
<1>8. TablesOK'
  <2> HIDE DEF change
  <2>1. DOMAIN change = {q.from, q.to}
    BY DEF change
  <2>. QED  BY <1>1, <1>3, <1>5, <1>6, <1>7, <2>1, BatchTyped
<1>9. CommandsOK'
  BY <1>1, FinishTyped DEF Move
<1>. QED  BY <1>8, <1>9 DEF BudgetInv

LEMMA CopyStep == ASSUME BudgetInv, NEW r \in Requests, Copy(r) PROVE BudgetInv'
<1> DEFINE q == reqs[r]
           rows == budgets[q.month]
           change == [c \in Categories |-> IF rows[c] = NoRow THEN q.prevBudgets[c] ELSE rows[c]]
<1>1. TablesOK /\ CommandsOK
  BY DEF BudgetInv
<1>2. q \in Copies
  BY <1>1, CommandOf DEF Copy
<1>3. q.month \in Months /\ \A c \in Categories : change[c] \in OptRows
  BY <1>1, <1>2 DEF TablesOK, Copies
<1>4. PutAll(q.month, change)
  BY DEF Copy
<1>5. TablesOK'
  BY <1>1, <1>3, <1>4, BatchTyped
<1>6. CommandsOK'
  BY <1>1, FinishTyped DEF Copy
<1>. QED  BY <1>5, <1>6 DEF BudgetInv

LEMMA ZeroStep == ASSUME BudgetInv, NEW r \in Requests, Zero(r) PROVE BudgetInv'
<1>1. TablesOK /\ CommandsOK /\ Doing(r, "zero")
  BY DEF BudgetInv, Zero
<1>2. reqs[r].month \in Months /\ reqs[r].todo \subseteq Categories
  BY <1>1, CommandOf DEF Zeros
<1>3. PICK c \in reqs[r].todo :
          IF budgets[reqs[r].month][c] = NoRow
            THEN Put(reqs[r].month, c, Row(0, FALSE)) /\ Done(r, c)
            ELSE Finish(r) /\ UNCHANGED budgets
  BY DEF Zero
<1>4. Row(0, FALSE) \in OptRows
  BY DEF Row, OptRows, Rows
<1>5. CASE budgets[reqs[r].month][c] = NoRow
  BY <1>1, <1>2, <1>3, <1>4, <1>5, PutTyped, DoneTyped DEF BudgetInv
<1>6. CASE budgets[reqs[r].month][c] # NoRow
  BY <1>1, <1>3, <1>6, FinishTyped DEF BudgetInv, TablesOK
<1>. QED  BY <1>5, <1>6

LEMMA GoalStep == ASSUME BudgetInv, NEW r \in Requests, ApplyGoal(r) PROVE BudgetInv'
<1>1. TablesOK /\ CommandsOK /\ Doing(r, "goals")
  BY DEF BudgetInv, ApplyGoal
<1>2. reqs[r].month \in Months /\ reqs[r].todo \subseteq Categories
  BY <1>1, CommandOf DEF GoalRuns
<1>3. PICK c \in reqs[r].todo :
          /\ Put(reqs[r].month, c, Upserted(budgets[reqs[r].month][c], GoalAmount))
          /\ Done(r, c)
  BY DEF ApplyGoal
<1>4. Upserted(budgets[reqs[r].month][c], GoalAmount) \in OptRows
  BY <1>1, <1>2, UpsertedTyped, Constants DEF TablesOK
<1>5. TablesOK'
  BY <1>1, <1>2, <1>3, <1>4, PutTyped
<1>. QED  BY <1>1, <1>3, <1>5, DoneTyped DEF BudgetInv

LEMMA ReadStep == ASSUME BudgetInv, NEW r \in Requests, ReadAmount(r) PROVE BudgetInv'
<1> DEFINE q == reqs[r]
           before == Back(q.month, q.next)
           read(c) == IF before \in Months THEN budgets[before][c] ELSE NoRow
           more(c) == [q EXCEPT !.cat = c, !.next = @ + 1, !.sum = @ + AmountIn(read(c)),
                                !.count = IF read(c) = NoRow THEN @ ELSE @ + 1]
<1>1. TablesOK /\ CommandsOK /\ Doing(r, "average")
  BY DEF BudgetInv, ReadAmount
<1>2. q \in Averages
  BY <1>1, CommandOf
<1>3. PICK c \in (IF q.cat = NoRow THEN q.todo ELSE {q.cat}) : reqs' = [reqs EXCEPT ![r] = more(c)]
  BY DEF ReadAmount
<1>4. c \in Categories
  BY <1>2, <1>3 DEF Averages
<1>5. AmountIn(read(c)) \in Int
  BY <1>1, <1>4, AmountTyped, Constants DEF TablesOK
<1>6. more(c) \in Averages /\ more(c).cat = c
  <2> DEFINE sum   == q.sum + AmountIn(read(c))
             count == IF read(c) = NoRow THEN q.count ELSE q.count + 1
  <2>1. sum \in Int /\ count \in Nat /\ q.next + 1 \in Nat \ {0}
    BY <1>2, <1>5 DEF Averages
  <2>2. more(c) = [q EXCEPT !.cat = c, !.next = q.next + 1, !.sum = sum, !.count = count]
    OBVIOUS
  <2> HIDE DEF more, sum, count, read, before, q
  <2>. QED  BY <1>2, <1>4, <2>1, <2>2 DEF Averages
<1>7. CommandsOK'
  <2> DEFINE new == more(c)
  <2>1. reqs' = [reqs EXCEPT ![r] = new] /\ new \in Averages /\ new.cat \in Categories
    BY <1>3, <1>4, <1>6
  <2> HIDE DEF new
  <2>. QED  BY <1>1, <2>1, RequestTyped DEF Commands
<1>. QED  BY <1>1, <1>7 DEF ReadAmount, BudgetInv, TablesOK

\* Math.round of a mean is whole.
LEMMA RoundedTyped == ASSUME NEW sum \in Int, NEW n \in Nat \ {0} PROVE Rounded(sum, n) \in Int
<1>1. 2 * sum + n \in Int /\ 2 * n \in Nat \ {0}
  OBVIOUS
<1>2. \A a \in Int, b \in Nat \ {0} : a \div b \in Int
  OBVIOUS
<1>. QED  BY <1>1, <1>2 DEF Rounded

LEMMA WriteStep == ASSUME BudgetInv, NEW r \in Requests, WriteAverage(r) PROVE BudgetInv'
<1> DEFINE q == reqs[r]
           next == Average(q.month, q.span, q.todo \ {q.cat})
<1>1. TablesOK /\ CommandsOK /\ Doing(r, "average")
  BY DEF BudgetInv, WriteAverage
<1>2. q \in Averages
  BY <1>1, CommandOf
<1>3. CASE q.cat \in Categories
  <2>1. TablesOK'
    <3>1. CASE q.count = 0
      BY <1>1, <3>1 DEF WriteAverage, TablesOK
    <3>2. CASE q.count # 0
      <4>1. Rounded(q.sum, q.count) \in Int
        BY <1>2, <3>2, RoundedTyped DEF Averages
      <4>2. Upserted(budgets[q.month][q.cat], Rounded(q.sum, q.count)) \in OptRows
        BY <1>1, <1>2, <1>3, <4>1, UpsertedTyped, Constants DEF TablesOK, Averages
      <4>. QED  BY <1>1, <1>2, <1>3, <3>2, <4>2, PutTyped DEF WriteAverage, Averages
    <3>. QED  BY <3>1, <3>2
  <2>2. CommandsOK'
    <3>1. next \in Commands /\ next.next = 1
      BY <1>2 DEF Averages, Average, Commands
    <3>2. CASE Finish(r)
      BY <1>1, <3>2, FinishTyped
    <3>3. CASE reqs' = [reqs EXCEPT ![r] = next]
      <4> HIDE DEF next
      <4>. QED  BY <1>1, <3>1, <3>3, RequestTyped
    <3>. QED  BY <3>2, <3>3 DEF WriteAverage
  <2>. QED  BY <2>1, <2>2 DEF BudgetInv
<1>4. q.next # 1
  BY <1>2 DEF Averages, WriteAverage
<1>. QED  BY <1>1, <1>3, <1>4 DEF CommandsOK

-------------------------------------------------------------------------------
(* The theorems *)

LEMMA BudgetInit == Init => BudgetInv
<1> SUFFICES ASSUME Init PROVE BudgetInv
  OBVIOUS
<1>1. TablesOK
  BY Constants DEF Init, TablesOK
<1>2. CommandsOK
  BY DEF Init, CommandsOK, Doing
<1>. QED  BY <1>1, <1>2 DEF BudgetInv

LEMMA BudgetStep == BudgetInv /\ [Next]_vars => BudgetInv'
<1> SUFFICES ASSUME BudgetInv, [Next]_vars PROVE BudgetInv'
  OBVIOUS
<1>1. CASE UNCHANGED vars \/ Record \/ AddAccount \/ SetBuffer
  BY <1>1 DEF vars, Record, AddAccount, SetBuffer, BudgetInv, TablesOK, CommandsOK, Doing
<1>2. CASE SetAmount \/ SetPlan \/ Allocate \/ SetCarryover
  BY <1>2, SingleStep
<1>3. ASSUME NEW r \in Requests,
             BeginMove(r) \/ BeginCopy(r) \/ BeginZero(r) \/ BeginGoals(r) \/ BeginAverage(r)
      PROVE  BudgetInv'
  BY <1>3, BeginStep
<1>4. ASSUME NEW r \in Requests,
             \/ Move(r) \/ Copy(r) \/ Zero(r) \/ ApplyGoal(r) \/ ReadAmount(r) \/ WriteAverage(r)
      PROVE  BudgetInv'
  BY <1>4, MoveStep, CopyStep, ZeroStep, GoalStep, ReadStep, WriteStep
<1>5. ASSUME NEW r \in Requests, Fail(r) PROVE BudgetInv'
  BY <1>5, FinishTyped DEF Fail, BudgetInv, TablesOK
<1>. QED  BY <1>1, <1>2, <1>3, <1>4, <1>5 DEF Next

\* The tables and what the commands have read of them stay well formed, in whatever order
\* the statements of the commands reach D1 and wherever a command ends (budget.ts).
THEOREM BudgetAgrees == Spec => []BudgetInv
BY BudgetInit, BudgetStep, PTL DEF Spec

\* transfer_budget and cover_overspending conserve what the two categories have together,
\* and touch nothing else, whatever was assigned to them between the reads and the batch
\* (budget.ts:431-476).
THEOREM MovesKeepTheSum == Spec => MovesConserve
<1>1. ASSUME BudgetInv, NEW r \in Requests, Move(r),
             reqs[r].fromRow # NoRow => budgets[reqs[r].month][reqs[r].from] # NoRow,
             reqs[r].toRow # NoRow => budgets[reqs[r].month][reqs[r].to] # NoRow
      PROVE  LET q    == reqs[r]
                 rows == budgets[q.month]
             IN  /\ AmountIn(budgets'[q.month][q.from]) + AmountIn(budgets'[q.month][q.to])
                      = AmountIn(rows[q.from]) + AmountIn(rows[q.to])
                 /\ \A m \in Months, c \in Categories :
                       budgets'[m][c] = budgets[m][c]
                         \/ (m = q.month /\ c \in {q.from, q.to})
  <2> DEFINE q == reqs[r]
             rows == budgets[q.month]
  <2>1. q \in Moves
    BY <1>1, MoveRows
  <2>2. /\ q.from \in Categories /\ q.to \in Categories /\ q.from # q.to
        /\ q.month \in Months /\ q.fromRow \in OptRows /\ q.toRow \in OptRows
        /\ q.amount \in Int /\ -q.amount \in Int
    BY <2>1 DEF Moves, Categories
  <2>3. rows[q.from] \in OptRows /\ rows[q.to] \in OptRows
    BY <1>1, <2>2 DEF BudgetInv, TablesOK
  <2>4. /\ budgets'[q.month][q.from] = MovedRow(rows[q.from], q.fromRow, -q.amount)
        /\ budgets'[q.month][q.to] = MovedRow(rows[q.to], q.toRow, q.amount)
    BY <1>1, <2>2, MoveRows
  <2>5. AmountIn(budgets'[q.month][q.from]) = AmountIn(rows[q.from]) + (-q.amount)
    BY <1>1, <2>2, <2>3, <2>4, MovedAmount
  <2>6. AmountIn(budgets'[q.month][q.to]) = AmountIn(rows[q.to]) + q.amount
    BY <1>1, <2>2, <2>3, <2>4, MovedAmount
  <2>7. AmountIn(rows[q.from]) \in Int /\ AmountIn(rows[q.to]) \in Int
    BY <2>3, AmountTyped
  <2>8. AmountIn(budgets'[q.month][q.from]) + AmountIn(budgets'[q.month][q.to])
          = AmountIn(rows[q.from]) + AmountIn(rows[q.to])
    <3> HIDE DEF q, rows
    <3>. QED  BY <2>2, <2>5, <2>6, <2>7
  <2>9. \A m \in Months, c \in Categories :
           budgets'[m][c] = budgets[m][c] \/ (m = q.month /\ c \in {q.from, q.to})
    BY <1>1, MoveRows
  <2>. QED  BY <2>8, <2>9
<1>2. BudgetInv /\ [Next]_vars =>
        [\A r \in Requests :
            LET q    == reqs[r]
                rows == budgets[q.month]
            IN  /\ Move(r)
                /\ q.fromRow # NoRow => rows[q.from] # NoRow
                /\ q.toRow # NoRow => rows[q.to] # NoRow
                => /\ AmountIn(budgets'[q.month][q.from]) + AmountIn(budgets'[q.month][q.to])
                        = AmountIn(rows[q.from]) + AmountIn(rows[q.to])
                   /\ \A m \in Months, c \in Categories :
                         budgets'[m][c] = budgets[m][c]
                           \/ (m = q.month /\ c \in {q.from, q.to})]_vars
  BY <1>1
<1>. QED  BY <1>2, BudgetAgrees, PTL DEF Spec, MovesConserve

-------------------------------------------------------------------------------
(* Induction *)

\* A set of naturals has a least element.
LEMMA LeastNatural == ASSUME NEW T, T \subseteq Nat, T # {} PROVE \E x \in T : \A y \in T : x <= y
<1> DEFINE R == {ss \in Nat \X Nat : ss[1] < ss[2]}
<1>1. IsWellFoundedOn(R, Nat)
  BY NatLessThanWellFounded DEF OpToRel
<1> HIDE DEF R
<1>2. PICK x \in T : \A y \in T : ~ (<<y, x>> \in R)
  BY <1>1, WFMin
<1>3. \A y \in T : ~(y < x)
  BY <1>2 DEF R
<1>. QED BY <1>3

\* Induction: what holds of 0, and of a successor if of its predecessor, holds of all.
LEMMA SetInduction ==
    ASSUME NEW S, 0 \in S, \A n \in Nat : n \in S => n+1 \in S
    PROVE  Nat \subseteq S
<1> SUFFICES ASSUME Nat \ S # {} PROVE FALSE
  OBVIOUS
<1> DEFINE T == Nat \ S
<1>1. T \subseteq Nat /\ T # {}
  OBVIOUS
<1> HIDE DEF T
<1>2. PICK x \in T : \A y \in T : x <= y
  BY <1>1, LeastNatural
<1>3. x \in Nat /\ x \notin S
  BY <1>1 DEF T
<1>4. x # 0 /\ x - 1 \in Nat /\ x = (x-1)+1 /\ x-1 \notin T
  BY <1>1, <1>2, <1>3
<1>5. x - 1 \in S
  BY <1>3, <1>4 DEF T
<1>. QED BY <1>3, <1>4, <1>5

-------------------------------------------------------------------------------
(* Sums. A sum takes the elements in the order of CHOOSE; that the order does *)
(* not matter is SumAdds.                                                      *)

\* The element that a sum takes first.
First(s) == CHOOSE x \in s : TRUE

\* g has the sums of f over the sets of T.
Sums(g, f, T) ==
    g = [s \in T |-> IF s = {} THEN 0 ELSE f[First(s)] + g[s \ {First(s)}]]

TheSums(f, S) == CHOOSE g : Sums(g, f, SUBSET S)

\* The first element is one.
LEMMA FirstIn == ASSUME NEW s, s # {} PROVE First(s) \in s
BY DEF First

\* A set without its first element has one element less.
LEMMA SmallerSet ==
    ASSUME NEW s, IsFiniteSet(s), s # {}
    PROVE  /\ IsFiniteSet(s \ {First(s)})
           /\ Cardinality(s) \in Nat /\ Cardinality(s) # 0
           /\ Cardinality(s \ {First(s)}) = Cardinality(s) - 1
BY FirstIn, FS_RemoveElement, FS_CardinalityType, FS_EmptySet

\* The recursive function in the sum exists.
LEMMA SumsExist == ASSUME NEW S, IsFiniteSet(S), NEW f PROVE Sums(TheSums(f, S), f, SUBSET S)
<1> DEFINE Small(n) == {s \in SUBSET S : Cardinality(s) <= n}
           E == {n \in Nat : \E g : Sums(g, f, Small(n))}
<1>0. \A s \in SUBSET S : IsFiniteSet(s) /\ Cardinality(s) \in Nat
  BY FS_Subset, FS_CardinalityType
<1>1. 0 \in E
  <2> DEFINE g == [s \in Small(0) |-> 0]
  <2>1. \A s \in Small(0) : s = {}
    BY <1>0, FS_EmptySet
  <2>2. Sums(g, f, Small(0))
    BY <2>1 DEF Sums
  <2>. QED BY <2>2
<1>2. ASSUME NEW n \in Nat, n \in E PROVE n + 1 \in E
  <2>1. PICK g : Sums(g, f, Small(n))
    BY <1>2
  <2> DEFINE h == [s \in Small(n + 1) |-> IF s = {} THEN 0 ELSE f[First(s)] + g[s \ {First(s)}]]
  <2>2. \A s \in Small(n) : s \in Small(n + 1) /\ h[s] = g[s]
    <3> SUFFICES ASSUME NEW s \in Small(n) PROVE s \in Small(n + 1) /\ h[s] = g[s]
      OBVIOUS
    <3>1. s \in Small(n + 1)
      BY <1>0
    <3>2. g[s] = IF s = {} THEN 0 ELSE f[First(s)] + g[s \ {First(s)}]
      BY <2>1 DEF Sums
    <3>. QED BY <3>1, <3>2
  <2>3. \A s \in Small(n + 1) : s # {} => s \ {First(s)} \in Small(n)
    BY <1>0, SmallerSet
  <2>4. Sums(h, f, Small(n + 1))
    <3>1. \A s \in Small(n + 1) : s # {} => h[s \ {First(s)}] = g[s \ {First(s)}]
      BY <2>2, <2>3
    <3>2. \A s \in Small(n + 1) :
             (IF s = {} THEN 0 ELSE f[First(s)] + g[s \ {First(s)}])
              = (IF s = {} THEN 0 ELSE f[First(s)] + h[s \ {First(s)}])
      BY <3>1
    <3> HIDE DEF Small
    <3>. QED BY <3>2 DEF Sums
  <2>. QED BY <2>4
<1>3. Cardinality(S) \in E
  <2> HIDE DEF E
  <2>. QED BY <1>0, <1>1, <1>2, SetInduction
<1>4. Small(Cardinality(S)) = SUBSET S
  BY FS_Subset
<1>5. \E g : Sums(g, f, SUBSET S)
  BY <1>3, <1>4
<1>. QED BY <1>5, Zenon DEF TheSums

\* Two such functions agree where both are defined.
LEMMA SumsAgree ==
    ASSUME NEW S, NEW T, NEW f, NEW g, NEW h, NEW V, IsFiniteSet(V), V \subseteq S, V \subseteq T,
           Sums(g, f, SUBSET S), Sums(h, f, SUBSET T)
    PROVE  g[V] = h[V]
<1> DEFINE E == {n \in Nat : \A s \in SUBSET V : Cardinality(s) = n => g[s] = h[s]}
<1>0. \A s \in SUBSET V : IsFiniteSet(s) /\ Cardinality(s) \in Nat
  BY FS_Subset, FS_CardinalityType
<1>1. \A s \in SUBSET V :
         /\ g[s] = IF s = {} THEN 0 ELSE f[First(s)] + g[s \ {First(s)}]
         /\ h[s] = IF s = {} THEN 0 ELSE f[First(s)] + h[s \ {First(s)}]
  <2> SUFFICES ASSUME NEW s \in SUBSET V
      PROVE  /\ g[s] = IF s = {} THEN 0 ELSE f[First(s)] + g[s \ {First(s)}]
             /\ h[s] = IF s = {} THEN 0 ELSE f[First(s)] + h[s \ {First(s)}]
    OBVIOUS
  <2>1. s \in SUBSET S /\ s \in SUBSET T
    OBVIOUS
  <2>. QED BY <2>1 DEF Sums
<1>2. 0 \in E
  BY <1>0, <1>1, FS_EmptySet
<1>3. ASSUME NEW n \in Nat, n \in E PROVE n + 1 \in E
  <2> SUFFICES ASSUME NEW s \in SUBSET V, Cardinality(s) = n + 1 PROVE g[s] = h[s]
    OBVIOUS
  <2>1. s # {}
    BY FS_EmptySet
  <2>2. s \ {First(s)} \in SUBSET V /\ Cardinality(s \ {First(s)}) = n
    BY <1>0, <2>1, SmallerSet
  <2>3. g[s \ {First(s)}] = h[s \ {First(s)}]
    BY <1>3, <2>2
  <2>. QED BY <1>1, <2>1, <2>3
<1>4. Cardinality(V) \in E
  <2> HIDE DEF E
  <2>. QED BY <1>0, <1>2, <1>3, SetInduction
<1>. QED BY <1>4

\* The library's sum is that recursive function's value.
LEMMA SumIsTheSum == ASSUME NEW f, NEW S PROVE SumFunctionOnSet(f, S) = TheSums(f, S)[S]
BY DEF SumFunctionOnSet, FoldFunctionOnSet, MapThenFoldSet, TheSums, Sums, First

\* The sum of nothing, and of a set by its first element.
LEMMA SumUnfolds ==
    ASSUME NEW S, IsFiniteSet(S), NEW f
    PROVE  SumFunctionOnSet(f, S) =
              IF S = {} THEN 0 ELSE f[First(S)] + SumFunctionOnSet(f, S \ {First(S)})
<1>1. Sums(TheSums(f, S), f, SUBSET S)
  BY SumsExist
<1>2. TheSums(f, S)[S] = IF S = {} THEN 0 ELSE f[First(S)] + TheSums(f, S)[S \ {First(S)}]
  <2> DEFINE g == TheSums(f, S)
  <2> HIDE DEF g
  <2>1. Sums(g, f, SUBSET S) /\ S \in SUBSET S
    BY <1>1 DEF g
  <2>2. g[S] = IF S = {} THEN 0 ELSE f[First(S)] + g[S \ {First(S)}]
    BY <2>1 DEF Sums
  <2>. QED BY <2>2 DEF g
<1>3. ASSUME S # {} PROVE TheSums(f, S)[S \ {First(S)}] = TheSums(f, S \ {First(S)})[S \ {First(S)}]
  <2>1. IsFiniteSet(S \ {First(S)})
    BY <1>3, SmallerSet
  <2>2. Sums(TheSums(f, S \ {First(S)}), f, SUBSET (S \ {First(S)}))
    BY <2>1, SumsExist
  <2> DEFINE V == S \ {First(S)}
             g == TheSums(f, S)
             h == TheSums(f, V)
  <2>3. IsFiniteSet(V) /\ V \subseteq S /\ Sums(g, f, SUBSET S) /\ Sums(h, f, SUBSET V)
    BY <1>1, <2>1, <2>2
  <2>4. g[V] = h[V]
    <3> HIDE DEF V, g, h
    <3>1. V \subseteq V
      OBVIOUS
    <3>. QED BY <2>3, <3>1, SumsAgree, SMTT(30)
  <2>. QED BY <2>4
<1>. QED BY <1>2, <1>3, SumIsTheSum

\* A sum of integers is one.
LEMMA SumTyped ==
    ASSUME NEW S, IsFiniteSet(S), NEW f, \A x \in S : f[x] \in Int
    PROVE  SumFunctionOnSet(f, S) \in Int
<1> DEFINE E == {n \in Nat :
                    \A T \in SUBSET S : Cardinality(T) = n => SumFunctionOnSet(f, T) \in Int}
<1>0. \A T \in SUBSET S : IsFiniteSet(T) /\ Cardinality(T) \in Nat
  BY FS_Subset, FS_CardinalityType
<1>1. 0 \in E
  BY <1>0, SumUnfolds, FS_EmptySet
<1>2. ASSUME NEW n \in Nat, n \in E PROVE n + 1 \in E
  <2> SUFFICES ASSUME NEW T \in SUBSET S, Cardinality(T) = n + 1
      PROVE  SumFunctionOnSet(f, T) \in Int
    OBVIOUS
  <2>1. T # {} /\ First(T) \in T
    BY FS_EmptySet, FirstIn
  <2>2. T \ {First(T)} \in SUBSET S /\ Cardinality(T \ {First(T)}) = n
    BY <1>0, <2>1, SmallerSet
  <2>3. SumFunctionOnSet(f, T \ {First(T)}) \in Int
    BY <1>2, <2>2
  <2>4. f[First(T)] \in Int
    BY <2>1
  <2>5. SumFunctionOnSet(f, T) = f[First(T)] + SumFunctionOnSet(f, T \ {First(T)})
    BY <1>0, <2>1, SumUnfolds
  <2>. QED BY <2>3, <2>4, <2>5
<1>3. Cardinality(S) \in E
  <2> HIDE DEF E
  <2>. QED BY <1>0, <1>1, <1>2, SetInduction
<1>. QED BY <1>3

\* The order does not matter: any element can be taken out of a sum first.
LEMMA SumAdds ==
    ASSUME NEW S, IsFiniteSet(S), NEW f, \A x \in S : f[x] \in Int, NEW x \in S
    PROVE  SumFunctionOnSet(f, S) = f[x] + SumFunctionOnSet(f, S \ {x})
<1> DEFINE Sm(T) == SumFunctionOnSet(f, T)
           E == {n \in Nat : \A T \in SUBSET S : Cardinality(T) = n =>
                    \A z \in T : Sm(T) = f[z] + Sm(T \ {z})}
<1>0. \A T \in SUBSET S : IsFiniteSet(T) /\ Cardinality(T) \in Nat
  BY FS_Subset, FS_CardinalityType
<1>1. \A T \in SUBSET S : T # {} => Sm(T) = f[First(T)] + Sm(T \ {First(T)})
  BY <1>0, SumUnfolds
<1>2. \A T \in SUBSET S : Sm(T) \in Int
  BY <1>0, SumTyped
<1> HIDE DEF Sm
<1>3. 0 \in E
  BY <1>0, FS_EmptySet
<1>4. ASSUME NEW n \in Nat, n \in E PROVE n + 1 \in E
  <2> SUFFICES ASSUME NEW T \in SUBSET S, Cardinality(T) = n + 1, NEW z \in T
      PROVE  Sm(T) = f[z] + Sm(T \ {z})
    OBVIOUS
  <2> DEFINE y == First(T)
             U == T \ {y}
             W == T \ {z}
  <2>1. T # {} /\ y \in T
    BY FirstIn
  <2>2. U \in SUBSET S /\ Cardinality(U) = n
    BY <1>0, <2>1, SmallerSet
  <2>3. Sm(T) = f[y] + Sm(U)
    BY <1>1, <2>1
  <2>4. CASE z = y
    BY <2>3, <2>4
  <2>5. CASE z # y
    <3>1. IsFiniteSet(T)
      BY <1>0
    <3>2. Cardinality(W) = n
      <4>1. Cardinality(T \ {z}) = Cardinality(T) - 1
        BY <3>1, FS_RemoveElement
      <4>. QED BY <4>1
    <3>3. W \in SUBSET S /\ y \in W /\ z \in U /\ W \ {y} = U \ {z}
      BY <2>1, <2>5
    <3>4. Sm(W) = f[y] + Sm(W \ {y})
      BY <1>4, <3>2, <3>3
    <3>5. Sm(U) = f[z] + Sm(U \ {z})
      BY <1>4, <2>2, <3>3
    <3>6. f[z] \in Int /\ f[y] \in Int /\ Sm(U \ {z}) \in Int
      BY <1>2, <2>1, <2>2
    <3> DEFINE a == Sm(U \ {z})
    <3>7. Sm(W) = f[y] + a /\ Sm(U) = f[z] + a
      BY <3>3, <3>4, <3>5
    <3>8. a \in Int
      BY <3>6
    <3> HIDE DEF a, y, U, W
    <3>9. Sm(T) = f[z] + Sm(W)
      BY <2>3, <3>6, <3>7, <3>8
    <3>. QED BY <3>9 DEF W
  <2>. QED BY <2>4, <2>5
<1>5. Cardinality(S) \in E
  <2> HIDE DEF E
  <2>. QED BY <1>0, <1>3, <1>4, SetInduction
<1>. QED BY <1>5 DEF Sm

\* The sum of nothing.
LEMMA EmptySum == ASSUME NEW f PROVE SumFunctionOnSet(f, {}) = 0
BY SumUnfolds, FS_EmptySet

\* A sum of sums.
LEMMA SumPlus ==
    ASSUME NEW S, IsFiniteSet(S), NEW f, NEW g, NEW k,
           \A x \in S : f[x] \in Int /\ g[x] \in Int /\ k[x] = f[x] + g[x]
    PROVE  SumFunctionOnSet(k, S) = SumFunctionOnSet(f, S) + SumFunctionOnSet(g, S)
<1> DEFINE E == {n \in Nat : \A T \in SUBSET S : Cardinality(T) = n =>
                   SumFunctionOnSet(k, T) = SumFunctionOnSet(f, T) + SumFunctionOnSet(g, T)}
<1>0. \A T \in SUBSET S : IsFiniteSet(T) /\ Cardinality(T) \in Nat
  BY FS_Subset, FS_CardinalityType
<1>1. 0 \in E
  BY <1>0, EmptySum, FS_EmptySet
<1>2. ASSUME NEW n \in Nat, n \in E PROVE n + 1 \in E
  <2> SUFFICES ASSUME NEW T \in SUBSET S, Cardinality(T) = n + 1
      PROVE  SumFunctionOnSet(k, T) = SumFunctionOnSet(f, T) + SumFunctionOnSet(g, T)
    OBVIOUS
  <2> DEFINE y == First(T)
             U == T \ {y}
  <2>1. T # {} /\ y \in T /\ IsFiniteSet(T)
    BY <1>0, FS_EmptySet, FirstIn
  <2>2. U \in SUBSET S /\ Cardinality(U) = n /\ IsFiniteSet(U)
    <3>1. Cardinality(T \ {First(T)}) = Cardinality(T) - 1 /\ IsFiniteSet(T \ {First(T)})
      BY <2>1, SmallerSet
    <3>. QED BY <3>1
  <2>3. SumFunctionOnSet(k, U) = SumFunctionOnSet(f, U) + SumFunctionOnSet(g, U)
    BY <1>2, <2>2
  <2>4. f[y] \in Int /\ g[y] \in Int /\ k[y] = f[y] + g[y]
    BY <2>1
  <2>5. SumFunctionOnSet(f, U) \in Int /\ SumFunctionOnSet(g, U) \in Int
    <3>1. \A x \in U : f[x] \in Int /\ g[x] \in Int
      OBVIOUS
    <3> HIDE DEF U
    <3>. QED BY <2>2, <3>1, SumTyped
  <2>6. /\ SumFunctionOnSet(f, T) = f[y] + SumFunctionOnSet(f, U)
        /\ SumFunctionOnSet(g, T) = g[y] + SumFunctionOnSet(g, U)
        /\ SumFunctionOnSet(k, T) = k[y] + SumFunctionOnSet(k, U)
    BY <2>1, SumUnfolds
  <2> HIDE DEF y, U
  <2>. QED BY <2>3, <2>4, <2>5, <2>6
<1>3. Cardinality(S) \in E
  <2> HIDE DEF E
  <2>. QED BY <1>0, <1>1, <1>2, SetInduction
<1>. QED BY <1>3

\* The sum of zeros.
LEMMA SumZero ==
    ASSUME NEW S, IsFiniteSet(S), NEW f, \A x \in S : f[x] = 0
    PROVE  SumFunctionOnSet(f, S) = 0
<1>1. SumFunctionOnSet(f, S) = SumFunctionOnSet(f, S) + SumFunctionOnSet(f, S)
  BY SumPlus
<1>2. SumFunctionOnSet(f, S) \in Int
  BY SumTyped
<1> DEFINE a == SumFunctionOnSet(f, S)
<1>3. a \in Int /\ a = a + a
  BY <1>1, <1>2
<1> HIDE DEF a
<1>4. a = 0
  BY <1>3
<1>. QED BY <1>4 DEF a

\* The sum depends on the values alone.
LEMMA SumSame ==
    ASSUME NEW S, IsFiniteSet(S), NEW f, NEW g, \A x \in S : f[x] \in Int /\ g[x] = f[x]
    PROVE  SumFunctionOnSet(g, S) = SumFunctionOnSet(f, S)
<1> DEFINE z == [x \in S |-> 0]
<1>1. \A x \in S : f[x] \in Int /\ z[x] \in Int /\ g[x] = f[x] + z[x] /\ z[x] = 0
  OBVIOUS
<1> HIDE DEF z
<1>2. SumFunctionOnSet(g, S) = SumFunctionOnSet(f, S) + SumFunctionOnSet(z, S)
  BY <1>1, SumPlus
<1>3. SumFunctionOnSet(z, S) = 0 /\ SumFunctionOnSet(f, S) \in Int
  BY <1>1, SumZero, SumTyped
<1>. QED BY <1>2, <1>3

\* A sum over two sets.
LEMMA SumSplits ==
    ASSUME NEW S, NEW T, IsFiniteSet(S), IsFiniteSet(T), S \intersect T = {}, NEW f,
           \A x \in S \union T : f[x] \in Int
    PROVE  SumFunctionOnSet(f, S \union T) = SumFunctionOnSet(f, S) + SumFunctionOnSet(f, T)
<1> DEFINE E == {n \in Nat : \A U \in SUBSET T : Cardinality(U) = n =>
              SumFunctionOnSet(f, S \union U) = SumFunctionOnSet(f, S) + SumFunctionOnSet(f, U)}
<1>0. \A U \in SUBSET T : IsFiniteSet(U) /\ Cardinality(U) \in Nat /\ IsFiniteSet(S \union U)
  BY FS_Subset, FS_CardinalityType, FS_Union
<1>t. SumFunctionOnSet(f, S) \in Int
  BY SumTyped
<1>1. 0 \in E
  <2> SUFFICES ASSUME NEW U \in SUBSET T, Cardinality(U) = 0
      PROVE  SumFunctionOnSet(f, S \union U) = SumFunctionOnSet(f, S) + SumFunctionOnSet(f, U)
    OBVIOUS
  <2>1. U = {} /\ S \union U = S
    BY <1>0, FS_EmptySet
  <2>. QED BY <1>t, <2>1, EmptySum
<1>2. ASSUME NEW n \in Nat, n \in E PROVE n + 1 \in E
  <2> SUFFICES ASSUME NEW U \in SUBSET T, Cardinality(U) = n + 1
      PROVE  SumFunctionOnSet(f, S \union U) = SumFunctionOnSet(f, S) + SumFunctionOnSet(f, U)
    OBVIOUS
  <2> DEFINE y == First(U)
             V == U \ {y}
  <2>1. U # {} /\ y \in U /\ IsFiniteSet(U) /\ IsFiniteSet(S \union U)
    BY <1>0, FS_EmptySet, FirstIn
  <2>2. V \in SUBSET T /\ Cardinality(V) = n /\ IsFiniteSet(V)
    BY <1>0, <2>1, SmallerSet
  <2>3. SumFunctionOnSet(f, S \union V) = SumFunctionOnSet(f, S) + SumFunctionOnSet(f, V)
    BY <1>2, <2>2
  <2>4. f[y] \in Int
    BY <2>1
  <2>5. SumFunctionOnSet(f, V) \in Int
    <3>1. \A x \in V : f[x] \in Int
      OBVIOUS
    <3> HIDE DEF V
    <3>. QED BY <2>2, <3>1, SumTyped
  <2>6. SumFunctionOnSet(f, U) = f[y] + SumFunctionOnSet(f, V)
    BY <2>1, SumUnfolds
  <2>7. SumFunctionOnSet(f, S \union U) = f[y] + SumFunctionOnSet(f, S \union V)
    <3> DEFINE W == S \union U
    <3>1. IsFiniteSet(W) /\ y \in W /\ \A x \in W : f[x] \in Int
      BY <2>1
    <3>2. SumFunctionOnSet(f, W) = f[y] + SumFunctionOnSet(f, W \ {y})
      <4> HIDE DEF W, y
      <4>. QED BY <3>1, SumAdds
    <3>3. W \ {y} = S \union V
      BY <2>1
    <3>. QED BY <3>2, <3>3
  <2> HIDE DEF y, V
  <2>. QED BY <1>t, <2>3, <2>4, <2>5, <2>6, <2>7
<1>3. Cardinality(T) \in E
  <2> HIDE DEF E
  <2>. QED BY <1>0, <1>1, <1>2, SetInduction
<1>. QED BY <1>3

\* What is zero can be left out of a sum.
LEMMA SumRest ==
    ASSUME NEW S, NEW T, IsFiniteSet(S), T \subseteq S, NEW f,
           \A x \in T : f[x] \in Int, \A x \in S \ T : f[x] = 0
    PROVE  SumFunctionOnSet(f, S) = SumFunctionOnSet(f, T)
<1> DEFINE R == S \ T
<1>1. IsFiniteSet(T) /\ IsFiniteSet(R) /\ T \intersect R = {} /\ T \union R = S
  BY FS_Subset
<1>2. \A x \in R : f[x] = 0
  OBVIOUS
<1> HIDE DEF R
<1>3. SumFunctionOnSet(f, R) = 0 /\ SumFunctionOnSet(f, T) \in Int
  BY <1>1, <1>2, SumZero, SumTyped
<1>4. \A x \in T \union R : f[x] \in Int
  BY <1>2
<1>5. SumFunctionOnSet(f, T \union R) = SumFunctionOnSet(f, T) + SumFunctionOnSet(f, R)
  BY <1>1, <1>4, SumSplits
<1> DEFINE a == SumFunctionOnSet(f, T)
<1>6. a \in Int /\ SumFunctionOnSet(f, S) = a + 0
  BY <1>1, <1>3, <1>5
<1> HIDE DEF a
<1>7. SumFunctionOnSet(f, S) = a
  BY <1>6
<1>. QED BY <1>7 DEF a

-------------------------------------------------------------------------------
(* What the engine reads *)

\* What the sums are of: whole amounts of every month and category.
SumsOK ==
    /\ buffers \in [Months -> Int] /\ openings \in [Months -> Int]
    /\ activity \in [Months -> [Categories -> Int]]

-------------------------------------------------------------------------------
(* Months *)

\* The month after a month is the next one that there can be.
LEMMA NextIsNext ==
    ASSUME NEW a \in Nat, NEW b \in Nat, a % 100 \in 1..12, b % 100 \in 1..12, a < b
    PROVE  a < NextMonth(a) /\ NextMonth(a) <= b /\ NextMonth(a) \in Nat
<1>1. \A x, y \in Nat :
         x % 100 \in 1..12 /\ x % 100 # 12 /\ y % 100 \in 1..12 /\ x < y => x + 1 <= y
  OBVIOUS
<1>2. \A x, y \in Nat : x % 100 = 12 /\ y % 100 \in 1..12 /\ x < y => x + 89 <= y
  OBVIOUS
<1>. QED BY <1>1, <1>2 DEF NextMonth

\* Months are finitely many naturals.
LEMMA MonthsTyped == IsFiniteSet(Months) /\ \A m \in Months : m \in Nat
BY MonthsFollow

\* Of two months the later has one before it, and that is the last of the earlier ones.
LEMMA MonthBeforeIs ==
    ASSUME NEW m \in Months, NEW k \in Months, k < m
    PROVE  /\ MonthBefore(m) \in Months /\ MonthBefore(m) < m
           /\ \A j \in Months : j < m => j <= MonthBefore(m)
<1> DEFINE T == {m - j : j \in {x \in Months : x < m}}
<1>1. T \subseteq Nat /\ T # {}
  <2>1. \A j \in {x \in Months : x < m} : m - j \in Nat
    BY MonthsTyped
  <2>2. m - k \in T
    OBVIOUS
  <2>. QED BY <2>1, <2>2
<1>2. PICK t \in T : \A y \in T : t <= y
  <2> HIDE DEF T
  <2>. QED BY <1>1, LeastNatural
<1>3. PICK p \in Months : p < m /\ t = m - p
  OBVIOUS
<1>4. \A j \in Months : j < m => j <= p
  <2> SUFFICES ASSUME NEW j \in Months, j < m PROVE j <= p
    OBVIOUS
  <2>1. m - j \in T
    OBVIOUS
  <2>2. t <= m - j
    BY <1>2, <2>1
  <2>. QED BY <1>3, <2>2, MonthsTyped
<1>5. \A a, b \in Months : a < b => a < NextMonth(a) /\ NextMonth(a) <= b
  BY NextIsNext, MonthsFollow
<1>6. NextMonth(p) = m
  <2>1. NextMonth(p) \in Months
    <3>1. ~(m <= p)
      BY <1>3, MonthsTyped
    <3>. QED BY <3>1, MonthsFollow
  <2>2. p < NextMonth(p) /\ NextMonth(p) <= m
    BY <1>3, <1>5
  <2>3. ~(NextMonth(p) < m)
    BY <1>4, <2>1, <2>2, MonthsTyped
  <2>. QED BY <2>1, <2>2, <2>3, MonthsTyped
<1>7. ASSUME NEW j \in Months, NextMonth(j) = m PROVE j = p
  <2>1. CASE j < p
    <3>1. m <= p
      BY <1>5, <1>7, <2>1
    <3>. QED BY <1>3, <3>1, MonthsTyped
  <2>2. CASE p < j
    <3>1. j < m
      BY <1>7, MonthsTyped DEF NextMonth
    <3>. QED BY <1>4, <2>2, <3>1, MonthsTyped
  <2>. QED BY <2>1, <2>2, MonthsTyped
<1>8. MonthBefore(m) = p
  BY <1>6, <1>7 DEF MonthBefore
<1>. QED BY <1>3, <1>4, <1>8

\* The first month that counts: nothing is in the months before it.
LEMMA StartIs ==
    ASSUME NEW month \in Months
    PROVE  /\ StartMonth(month) \in Months /\ StartMonth(month) <= month
           /\ \A k \in Months : k < StartMonth(month) => ~HasData(k)
<1> DEFINE T == {month} \union {k \in Months : k <= month /\ HasData(k)}
<1>1. T \subseteq Nat /\ T # {} /\ T \subseteq Months /\ \A k \in T : k <= month
  BY MonthsTyped
<1>2. PICK x \in T : \A y \in T : x <= y
  <2> HIDE DEF T
  <2>. QED BY <1>1, LeastNatural
<1>3. StartMonth(month) \in T /\ \A y \in T : StartMonth(month) <= y
  BY <1>2 DEF StartMonth, Min
<1>4. ASSUME NEW k \in Months, k < StartMonth(month), HasData(k) PROVE FALSE
  <2>1. k <= month
    BY <1>1, <1>3, <1>4, MonthsTyped
  <2>2. k \in T
    BY <1>4, <2>1
  <2>. QED BY <1>1, <1>3, <1>4, <2>2, MonthsTyped
<1>. QED BY <1>1, <1>3, <1>4

\* The months that count.
Counted(month) == {k \in Months : StartMonth(month) <= k /\ k <= month}

\* A month that counts is the first, or the month before it counts too.
LEMMA CountedBefore ==
    ASSUME NEW month \in Months, NEW k \in Counted(month), k # StartMonth(month)
    PROVE  /\ MonthBefore(k) \in Counted(month) /\ MonthBefore(k) < k
           /\ \A j \in Months : j < k => j <= MonthBefore(k)
<1>1. StartMonth(month) \in Months /\ k \in Months /\ StartMonth(month) < k /\ k <= month
  BY StartIs, MonthsTyped DEF Counted
<1>2. /\ MonthBefore(k) \in Months /\ MonthBefore(k) < k
      /\ \A j \in Months : j < k => j <= MonthBefore(k)
  BY <1>1, MonthBeforeIs
<1>. QED BY <1>1, <1>2, MonthsTyped DEF Counted

\* Induction over the months from the first that counts.
LEMMA MonthInduction ==
    ASSUME NEW month \in Months, NEW G, StartMonth(month) \in G,
           \A k \in Counted(month) : k # StartMonth(month) /\ MonthBefore(k) \in G => k \in G
    PROVE  Counted(month) \subseteq G
<1> SUFFICES ASSUME Counted(month) \ G # {} PROVE FALSE
  OBVIOUS
<1>1. Counted(month) \ G \subseteq Nat
  BY MonthsTyped DEF Counted
<1>2. PICK k \in Counted(month) \ G : \A j \in Counted(month) \ G : k <= j
  BY <1>1, LeastNatural
<1>3. k # StartMonth(month)
  OBVIOUS
<1>4. MonthBefore(k) \in Counted(month) /\ MonthBefore(k) < k
  BY <1>3, CountedBefore
<1>5. MonthBefore(k) \in G
  BY <1>1, <1>2, <1>4, MonthsTyped DEF Counted
<1>. QED BY <1>3, <1>5

-------------------------------------------------------------------------------
(* The figures *)

Figures(g, D, start) ==
    g = [m \in D |-> IF m = start THEN Roll(Nothing, m) ELSE Roll(g[MonthBefore(m)], m)]

\* The recursive function in computeMonthBudget exists.
LEMMA FiguresExist ==
    ASSUME NEW month \in Months
    PROVE  \E g : Figures(g, Counted(month), StartMonth(month))
<1> DEFINE start == StartMonth(month)
           Early(n) == {k \in Counted(month) : k <= n}
           E == {n \in Nat : \E g : Figures(g, Early(n), start)}
<1>0. Counted(month) \subseteq Nat /\ month \in Nat
  BY MonthsTyped DEF Counted
<1>1. 0 \in E
  <2> DEFINE g == [k \in Early(0) |-> Roll(Nothing, k)]
  <2>1. \A k \in Early(0) : k = start
    <3> SUFFICES ASSUME NEW k \in Early(0) PROVE k = start
      OBVIOUS
    <3>1. k \in Nat /\ k <= 0 /\ start <= k /\ start \in Nat
      BY <1>0, StartIs, MonthsTyped DEF Counted
    <3> HIDE DEF start
    <3>. QED BY <3>1
  <2>2. Figures(g, Early(0), start)
    <3> HIDE DEF start, Early
    <3>. QED BY <2>1 DEF Figures
  <2>. QED BY <2>2
<1>2. ASSUME NEW n \in Nat, n \in E PROVE n + 1 \in E
  <2>1. PICK g : Figures(g, Early(n), start)
    BY <1>2
  <2> DEFINE h == [m \in Early(n + 1) |-> IF m = start THEN Roll(Nothing, m)
                                                       ELSE Roll(g[MonthBefore(m)], m)]
  <2>2. \A m \in Early(n + 1) : m # start => MonthBefore(m) \in Early(n)
    BY <1>0, CountedBefore
  <2>3. \A m \in Early(n) : m \in Early(n + 1) /\ h[m] = g[m]
    <3> SUFFICES ASSUME NEW m \in Early(n) PROVE m \in Early(n + 1) /\ h[m] = g[m]
      OBVIOUS
    <3>1. m \in Early(n + 1)
      BY <1>0
    <3>2. g[m] = IF m = start THEN Roll(Nothing, m) ELSE Roll(g[MonthBefore(m)], m)
      <4> HIDE DEF Early, start
      <4>. QED BY <2>1 DEF Figures
    <3> HIDE DEF Early, start
    <3>. QED BY <3>1, <3>2
  <2> HIDE DEF Early, start
  <2>4. \A m \in Early(n + 1) : m # start => h[MonthBefore(m)] = g[MonthBefore(m)]
    BY <2>2, <2>3
  <2>5. Figures(h, Early(n + 1), start)
    <3>1. \A m \in Early(n + 1) :
             (IF m = start THEN Roll(Nothing, m) ELSE Roll(g[MonthBefore(m)], m))
              = (IF m = start THEN Roll(Nothing, m) ELSE Roll(h[MonthBefore(m)], m))
      BY <2>4
    <3>. QED BY <3>1 DEF Figures
  <2>. QED BY <2>5
<1>3. month \in E
  <2> HIDE DEF E
  <2>. QED BY <1>0, <1>1, <1>2, SetInduction
<1>4. Early(month) = Counted(month)
  BY DEF Counted
<1>. QED BY <1>3, <1>4

\* The figures of a month are the last of those of the months that count.
LEMMA ComputeUnfolds ==
    ASSUME NEW month \in Months
    PROVE  \E g : /\ Figures(g, Counted(month), StartMonth(month))
                  /\ computeMonthBudget(month) = g[month]
<1> DEFINE g == CHOOSE f : Figures(f, Counted(month), StartMonth(month))
<1>1. Figures(g, Counted(month), StartMonth(month))
  BY FiguresExist, Zenon
<1>2. computeMonthBudget(month) = g[month]
  BY DEF computeMonthBudget, Figures, Counted
<1>. QED BY <1>1, <1>2

-------------------------------------------------------------------------------
(* One month *)

\* The two kinds of categories are finite sets that share nothing.
LEMMA CategoriesFinite ==
    /\ IsFiniteSet(Expense) /\ IsFiniteSet(Income) /\ Expense \intersect Income = {}
    /\ Categories = Expense \union Income /\ IsFiniteSet(Categories)
<1>1. Expense \subseteq Categories /\ Income \subseteq Categories /\ IsFiniteSet(Categories)
  BY CategoriesFit DEF Categories
<1>. QED BY <1>1, CategoriesFit, FS_Subset DEF Categories

\* The sum of a function's values, by any function with the same values.
LEMMA SumOver ==
    ASSUME NEW S, IsFiniteSet(S), NEW f, NEW g, DOMAIN g = S,
           \A x \in S : f[x] \in Int /\ g[x] = f[x]
    PROVE  SumFunction(g) = SumFunctionOnSet(f, S)
BY SumSame DEF SumFunction

\* The figures of a month.
Figured == [toBudget : Int, buffered : Int, leftover : [Expense -> Int]]

\* What a month assigns, what is charged to it of what was left, and what it carries on.
Amounts(m)       == [c \in Categories |-> Amount(m, c)]
Charged(m, left) == [c \in Expense |-> IF Carryover(m, c) THEN 0 ELSE AtLeastZero(-left[c])]
CarriedOn(m, left) == [c \in Expense |-> Carried(m, c, left)]

\* The amounts of one month are whole.
LEMMA MonthTyped ==
    ASSUME TablesOK, SumsOK, NEW m \in Months
    PROVE  /\ buffers[m] \in Int /\ openings[m] \in Int
           /\ DOMAIN activity[m] = Categories
           /\ \A c \in Categories : Amounts(m)[c] \in Int /\ activity[m][c] \in Int
           /\ \A c \in Categories : Amounts(m)[c] = Amount(m, c)
<1>1. \A c \in Categories : Amount(m, c) \in Int
  BY AmountTyped DEF TablesOK, Amount
<1>. QED BY <1>1 DEF SumsOK, Amounts

\* What is carried, and what is charged, is what was left.
LEMMA CarriedOrCharged ==
    ASSUME NEW m \in Months, NEW left \in [Expense -> Int]
    PROVE  \A c \in Expense :
              /\ CarriedOn(m, left)[c] \in Int /\ Charged(m, left)[c] \in Int
              /\ CarriedOn(m, left)[c] = left[c] + Charged(m, left)[c]
              /\ CarriedOn(m, left)[c] = Carried(m, c, left)
<1> SUFFICES ASSUME NEW c \in Expense
    PROVE  /\ CarriedOn(m, left)[c] \in Int /\ Charged(m, left)[c] \in Int
           /\ CarriedOn(m, left)[c] = left[c] + Charged(m, left)[c]
           /\ CarriedOn(m, left)[c] = Carried(m, c, left)
  OBVIOUS
<1> DEFINE x == left[c]
<1>1. /\ x \in Int
      /\ CarriedOn(m, left)[c] = Carried(m, c, left)
      /\ CarriedOn(m, left)[c] = IF Carryover(m, c) THEN x ELSE AtLeastZero(x)
      /\ Charged(m, left)[c] = IF Carryover(m, c) THEN 0 ELSE AtLeastZero(-x)
  BY DEF CarriedOn, Charged, Carried
<1> HIDE DEF x
<1>2. AtLeastZero(x) \in Int /\ AtLeastZero(-x) \in Int /\ AtLeastZero(x) = x + AtLeastZero(-x)
  BY <1>1 DEF AtLeastZero
<1>3. /\ CarriedOn(m, left)[c] \in Int /\ Charged(m, left)[c] \in Int
      /\ CarriedOn(m, left)[c] = x + Charged(m, left)[c]
  BY <1>1, <1>2
<1>. QED BY <1>1, <1>3 DEF x

\* What is charged is the overspending of the categories that do not carry theirs.
LEMMA OverspentIs ==
    ASSUME NEW m \in Months, NEW left \in [Expense -> Int]
    PROVE  Overspent(m, left) = SumFunctionOnSet(Charged(m, left), Expense)
<1> DEFINE T == {d \in Expense : ~Carryover(m, d)}
           f == Charged(m, left)
           g == [c \in T |-> AtLeastZero(-left[c])]
<1>1. IsFiniteSet(Expense) /\ T \subseteq Expense /\ IsFiniteSet(T) /\ DOMAIN g = T
  BY CategoriesFinite, FS_Subset
<1>2. \A x \in T : f[x] \in Int /\ g[x] = f[x]
  BY CarriedOrCharged DEF Charged
<1>3. \A x \in Expense \ T : f[x] = 0
  BY DEF Charged
<1>4. Overspent(m, left) = SumFunction(g)
  BY DEF Overspent
<1> HIDE DEF T, f, g
<1>5. SumFunction(g) = SumFunctionOnSet(f, T)
  BY <1>1, <1>2, SumOver
<1>6. SumFunctionOnSet(f, Expense) = SumFunctionOnSet(f, T)
  BY <1>1, <1>2, <1>3, SumRest
<1>. QED BY <1>4, <1>5, <1>6 DEF f

\* The parts of a month's figures.
LEMMA RollFields ==
    ASSUME NEW m \in Months, NEW b \in Figured
    PROVE  /\ Roll(b, m).toBudget = b.toBudget + b.buffered
                + SumFunction([c \in Income |-> activity[m][c]]) + openings[m]
                - Overspent(m, b.leftover)
                - SumFunction([c \in Categories |-> Amount(m, c)]) - buffers[m]
           /\ Roll(b, m).buffered = buffers[m]
           /\ DOMAIN Roll(b, m).leftover = Expense
           /\ \A c \in Expense : Roll(b, m).leftover[c]
                = Amount(m, c) + activity[m][c] + Carried(m, c, b.leftover)
           /\ Roll(b, m) = [toBudget |-> Roll(b, m).toBudget, buffered |-> Roll(b, m).buffered,
                            leftover |-> Roll(b, m).leftover]
           /\ Roll(b, m).leftover = [c \in Expense |-> Roll(b, m).leftover[c]]
BY DEF Roll

\* What is to be assigned, held back or in an envelope, and what a month brings.
Worth(b) == b.toBudget + b.buffered + SumFunction(b.leftover)

CameIn(m) == openings[m] + SumFunction(activity[m]) - SumFunction([c \in Income |-> Amount(m, c)])

\* A month adds what comes in and goes out, and loses nothing.
LEMMA RollKeeps ==
    ASSUME TablesOK, SumsOK, NEW m \in Months, NEW b \in Figured
    PROVE  /\ Roll(b, m) \in Figured
           /\ CameIn(m) \in Int /\ Worth(b) \in Int
           /\ Worth(Roll(b, m)) = Worth(b) + CameIn(m)
<1> DEFINE am == Amounts(m)
           ac == activity[m]
           left == b.leftover
           ov == Charged(m, left)
           ca == CarriedOn(m, left)
           new == Roll(b, m).leftover
           amE == SumFunctionOnSet(am, Expense)
           amI == SumFunctionOnSet(am, Income)
           acE == SumFunctionOnSet(ac, Expense)
           acI == SumFunctionOnSet(ac, Income)
           ovE == SumFunctionOnSet(ov, Expense)
           caE == SumFunctionOnSet(ca, Expense)
           leE == SumFunctionOnSet(left, Expense)
<1>1. /\ IsFiniteSet(Expense) /\ IsFiniteSet(Income) /\ Expense \intersect Income = {}
      /\ Categories = Expense \union Income /\ IsFiniteSet(Categories)
  BY CategoriesFinite
<1>2. /\ b.toBudget \in Int /\ b.buffered \in Int /\ left \in [Expense -> Int]
      /\ DOMAIN left = Expense /\ \A c \in Expense : left[c] \in Int
  BY DEF Figured
<1>3. /\ buffers[m] \in Int /\ openings[m] \in Int /\ DOMAIN ac = Categories
      /\ \A c \in Categories : am[c] \in Int /\ ac[c] \in Int
      /\ \A c \in Categories : am[c] = Amount(m, c)
  BY MonthTyped
<1>4. \A c \in Expense : /\ ca[c] \in Int /\ ov[c] \in Int /\ ca[c] = left[c] + ov[c]
                         /\ ca[c] = Carried(m, c, left)
  BY <1>2, CarriedOrCharged
<1>5. SumFunction([c \in Income |-> activity[m][c]]) = acI
  <2> DEFINE g == [c \in Income |-> activity[m][c]]
  <2>1. DOMAIN g = Income /\ \A c \in Income : ac[c] \in Int /\ g[c] = ac[c]
    BY <1>1, <1>3
  <2> HIDE DEF g, ac
  <2>. QED BY <1>1, <2>1, SumOver DEF g
<1>6. SumFunction([c \in Income |-> Amount(m, c)]) = amI
  <2> DEFINE g == [c \in Income |-> Amount(m, c)]
  <2>1. DOMAIN g = Income /\ \A c \in Income : am[c] \in Int /\ g[c] = am[c]
    BY <1>1, <1>3
  <2> HIDE DEF g, am
  <2>. QED BY <1>1, <2>1, SumOver DEF g
<1>7. SumFunction([c \in Categories |-> Amount(m, c)]) = amE + amI
  <2>1. SumFunction(am) = SumFunctionOnSet(am, Expense \union Income)
    BY <1>1 DEF SumFunction, Amounts
  <2>2. \A x \in Expense \union Income : am[x] \in Int
    BY <1>1, <1>3
  <2>3. am = [c \in Categories |-> Amount(m, c)]
    BY DEF Amounts
  <2> HIDE DEF am
  <2>4. SumFunctionOnSet(am, Expense \union Income) = amE + amI
    BY <1>1, <2>2, SumSplits
  <2>. QED BY <2>1, <2>3, <2>4
<1>8. SumFunction(ac) = acE + acI
  <2>1. SumFunction(ac) = SumFunctionOnSet(ac, Expense \union Income)
    BY <1>1, <1>3 DEF SumFunction
  <2>2. \A x \in Expense \union Income : ac[x] \in Int
    BY <1>1, <1>3
  <2> HIDE DEF ac
  <2>. QED BY <1>1, <2>1, <2>2, SumSplits
<1>9. Overspent(m, left) = ovE
  BY <1>2, OverspentIs
<1>10. SumFunction(left) = leE
  BY <1>2 DEF SumFunction
<1>11. caE = leE + ovE
  <2> HIDE DEF left, ov, ca
  <2>. QED BY <1>1, <1>2, <1>4, SumPlus
<1>12. /\ Roll(b, m).toBudget = b.toBudget + b.buffered + acI + openings[m] - ovE
                              - (amE + amI) - buffers[m]
       /\ Roll(b, m).buffered = buffers[m]
       /\ DOMAIN new = Expense
       /\ \A c \in Expense : new[c] = am[c] + ac[c] + ca[c]
       /\ Roll(b, m) = [toBudget |-> Roll(b, m).toBudget, buffered |-> Roll(b, m).buffered,
                        leftover |-> new]
       /\ new = [c \in Expense |-> new[c]]
  <2>1. \A c \in Expense : Amount(m, c) = am[c]
    BY <1>1, <1>3
  <2> HIDE DEF am, ca, ov, amE, amI, acI, ovE
  <2>. QED BY <1>4, <1>5, <1>7, <1>9, <2>1, RollFields
<1>13. SumFunction(new) = amE + acE + caE
  <2> DEFINE mid == [c \in Expense |-> am[c] + ac[c]]
             miE == SumFunctionOnSet(mid, Expense)
  <2>1. \A c \in Expense : /\ am[c] \in Int /\ ac[c] \in Int /\ mid[c] = am[c] + ac[c]
                           /\ mid[c] \in Int /\ ca[c] \in Int /\ new[c] = mid[c] + ca[c]
    <3>1. \A c \in Expense : am[c] \in Int /\ ac[c] \in Int /\ ca[c] \in Int
      BY <1>1, <1>3, <1>4
    <3> HIDE DEF am, ca, new
    <3>. QED BY <1>12, <3>1
  <2> HIDE DEF am, ac, ca, new, mid
  <2>2. miE = amE + acE
    BY <1>1, <2>1, SumPlus
  <2>3. SumFunctionOnSet(new, Expense) = miE + caE
    BY <1>1, <2>1, SumPlus
  <2>4. SumFunction(new) = SumFunctionOnSet(new, Expense)
    BY <1>12 DEF SumFunction
  <2>. QED BY <2>2, <2>3, <2>4
<1>14. /\ amE \in Int /\ amI \in Int /\ acE \in Int /\ acI \in Int
       /\ ovE \in Int /\ caE \in Int /\ leE \in Int
  <2>1. /\ \A x \in Expense : am[x] \in Int /\ ac[x] \in Int /\ ov[x] \in Int /\ ca[x] \in Int
        /\ \A x \in Income : am[x] \in Int /\ ac[x] \in Int
    BY <1>1, <1>3, <1>4
  <2> HIDE DEF am, ac, ca, ov, left
  <2>. QED BY <1>1, <1>2, <2>1, SumTyped
<1>15. \A c \in Expense : new[c] \in Int
  <2>1. \A c \in Expense : am[c] \in Int /\ ac[c] \in Int /\ ca[c] \in Int
    BY <1>1, <1>3, <1>4
  <2> HIDE DEF am, ac, ca, new
  <2>. QED BY <1>12, <2>1
<1> HIDE DEF am, ac, ca, ov, left, new, amE, amI, acE, acI, ovE, caE, leE
<1>16. Worth(b) = b.toBudget + b.buffered + leE
  BY <1>10 DEF Worth, left
<1>17. CameIn(m) = openings[m] + (acE + acI) - amI
  BY <1>6, <1>8 DEF CameIn, ac
<1>18. Worth(Roll(b, m)) = Roll(b, m).toBudget + buffers[m] + (amE + acE + caE)
  BY <1>12, <1>13 DEF Worth, new
<1>19. Roll(b, m).toBudget \in Int
  BY <1>2, <1>3, <1>12, <1>14
<1>20. Roll(b, m) \in Figured
  <2>1. new \in [Expense -> Int]
    BY <1>12, <1>15
  <2>2. Roll(b, m).buffered \in Int
    BY <1>3, <1>12
  <2>. QED BY <1>12, <1>19, <2>1, <2>2 DEF Figured
<1>21. Worth(b) \in Int /\ CameIn(m) \in Int
  BY <1>2, <1>3, <1>14, <1>16, <1>17
<1>22. Worth(Roll(b, m)) = Worth(b) + CameIn(m)
  BY <1>2, <1>3, <1>11, <1>12, <1>14, <1>16, <1>17, <1>18
<1>. QED BY <1>20, <1>21, <1>22

-------------------------------------------------------------------------------
(* All months *)

\* The figures of the first month, and those of any other by the month before.
LEMMA FiguresStep ==
    ASSUME NEW month \in Months, NEW g, Figures(g, Counted(month), StartMonth(month)),
           NEW k \in Counted(month)
    PROVE  /\ k = StartMonth(month) => g[k] = Roll(Nothing, k)
           /\ k # StartMonth(month) => g[k] = Roll(g[MonthBefore(k)], k)
BY DEF Figures

\* Before the first month there is nothing.
LEMMA NothingIsThere ==
    /\ Nothing \in Figured
    /\ Worth(Nothing) = 0
    /\ \A c \in Expense : Nothing.leftover[c] = 0
<1> DEFINE f == [c \in Expense |-> 0]
<1>1. SumFunctionOnSet(f, Expense) = 0
  BY CategoriesFinite, SumZero
<1>2. SumFunction(Nothing.leftover) = SumFunctionOnSet(f, Expense)
  BY DEF Nothing, SumFunction
<1>3. Nothing.toBudget = 0 /\ Nothing.buffered = 0 /\ Nothing.leftover = f
  BY DEF Nothing
<1>4. Worth(Nothing) = 0
  BY <1>1, <1>2, <1>3 DEF Worth
<1>. QED BY <1>3, <1>4 DEF Nothing, Figured

\* In a month without data nothing comes in or goes out.
LEMMA NothingCameIn ==
    ASSUME TablesOK, SumsOK, NEW m \in Months, ~HasData(m)
    PROVE  /\ CameIn(m) = 0
           /\ \A c \in Categories :
                 Amount(m, c) = 0 /\ activity[m][c] = 0 /\ ~Carryover(m, c)
<1>1. openings[m] = 0 /\ \A c \in Categories : budgets[m][c] = NoRow /\ activity[m][c] = 0
  BY DEF HasData
<1>2. \A c \in Categories : Amount(m, c) = 0 /\ ~Carryover(m, c)
  BY <1>1 DEF Amount, AmountIn, Carryover
<1>3. SumFunction(activity[m]) = 0
  <2>1. DOMAIN activity[m] = Categories /\ IsFiniteSet(Categories)
    BY CategoriesFinite DEF SumsOK
  <2>. QED BY <1>1, <2>1, SumZero DEF SumFunction
<1>4. SumFunction([c \in Income |-> Amount(m, c)]) = 0
  <2> DEFINE f == [c \in Income |-> Amount(m, c)]
  <2>1. DOMAIN f = Income /\ \A c \in Income : f[c] = 0
    BY <1>2, CategoriesFinite
  <2> HIDE DEF f
  <2>2. SumFunction(f) = 0
    BY <2>1, CategoriesFinite, SumZero DEF SumFunction
  <2>. QED BY <2>2 DEF f
<1>. QED BY <1>1, <1>2, <1>3, <1>4 DEF CameIn

\* What came in through a month, counted from the first that counts.
AllIn == [k \in Months |-> CameIn(k)]
Since(month, k) == {j \in Counted(month) : j <= k}

\* The months through a month are those through the month before it, and itself.
LEMMA SinceStep ==
    ASSUME NEW month \in Months, NEW k \in Counted(month)
    PROVE  /\ IsFiniteSet(Since(month, k)) /\ Since(month, k) \subseteq Months
           /\ k \in Since(month, k)
           /\ k = StartMonth(month) => Since(month, k) = {k}
           /\ k # StartMonth(month) => Since(month, k) \ {k} = Since(month, MonthBefore(k))
<1>1. Since(month, k) \subseteq Months /\ k \in Nat
  BY MonthsTyped DEF Since, Counted
<1>2. IsFiniteSet(Since(month, k))
  BY <1>1, MonthsTyped, FS_Subset
<1>3. k \in Since(month, k)
  BY <1>1 DEF Since
<1>4. ASSUME k = StartMonth(month), NEW j \in Since(month, k) PROVE j = k
  <2>1. j \in Nat /\ j <= k /\ k <= j
    BY <1>1, <1>4, MonthsTyped DEF Since, Counted
  <2>. QED BY <1>1, <2>1
<1>5. ASSUME k # StartMonth(month), NEW j \in Counted(month)
      PROVE  (j <= k /\ j # k) <=> j <= MonthBefore(k)
  <2>1. MonthBefore(k) \in Nat /\ j \in Nat /\ MonthBefore(k) < k /\ (j < k => j <= MonthBefore(k))
    BY <1>5, CountedBefore, MonthsTyped DEF Counted
  <2>. QED BY <1>1, <2>1
<1>6. k # StartMonth(month) => Since(month, k) \ {k} = Since(month, MonthBefore(k))
  BY <1>5 DEF Since
<1>7. k = StartMonth(month) => Since(month, k) = {k}
  BY <1>3, <1>4
<1>. QED BY <1>1, <1>2, <1>3, <1>6, <1>7

\* The figures of a month hold what came in since the first month that counts.
LEMMA EveryCentCounted ==
    ASSUME TablesOK, SumsOK, NEW month \in Months, NEW g,
           Figures(g, Counted(month), StartMonth(month))
    PROVE  \A k \in Counted(month) :
              g[k] \in Figured /\ Worth(g[k]) = SumFunctionOnSet(AllIn, Since(month, k))
<1> DEFINE start == StartMonth(month)
           G == {k \in Counted(month) :
                   g[k] \in Figured /\ Worth(g[k]) = SumFunctionOnSet(AllIn, Since(month, k))}
<1>1. Counted(month) \subseteq Months /\ start \in Counted(month)
  BY StartIs, MonthsTyped DEF Counted
<1>2. \A k \in Months : AllIn[k] = CameIn(k) /\ AllIn[k] \in Int
  BY NothingIsThere, RollKeeps DEF AllIn
<1>3. \A k \in Counted(month) :
         SumFunctionOnSet(AllIn, Since(month, k))
           = CameIn(k) + SumFunctionOnSet(AllIn, Since(month, k) \ {k})
  <2> SUFFICES ASSUME NEW k \in Counted(month)
      PROVE  SumFunctionOnSet(AllIn, Since(month, k))
               = CameIn(k) + SumFunctionOnSet(AllIn, Since(month, k) \ {k})
    OBVIOUS
  <2>1. /\ IsFiniteSet(Since(month, k)) /\ k \in Since(month, k)
        /\ \A x \in Since(month, k) : AllIn[x] \in Int
    BY <1>2, SinceStep
  <2>2. SumFunctionOnSet(AllIn, Since(month, k))
           = AllIn[k] + SumFunctionOnSet(AllIn, Since(month, k) \ {k})
    BY <2>1, SumAdds
  <2>. QED BY <1>1, <1>2, <2>2
<1>4. start \in G
  <2>1. g[start] = Roll(Nothing, start)
    BY <1>1, FiguresStep
  <2>2. g[start] \in Figured /\ Worth(g[start]) = 0 + CameIn(start) /\ CameIn(start) \in Int
    BY <1>1, <2>1, NothingIsThere, RollKeeps
  <2>3. Since(month, start) \ {start} = {}
    BY <1>1, SinceStep
  <2>4. SumFunctionOnSet(AllIn, Since(month, start)) = CameIn(start) + 0
    BY <1>1, <1>3, <2>3, EmptySum
  <2>. QED BY <1>1, <2>2, <2>4
<1>5. ASSUME NEW k \in Counted(month), k # start, MonthBefore(k) \in G PROVE k \in G
  <2> DEFINE p == MonthBefore(k)
  <2>1. g[k] = Roll(g[p], k)
    BY <1>5, FiguresStep
  <2>2. g[p] \in Figured /\ Worth(g[p]) = SumFunctionOnSet(AllIn, Since(month, p))
    BY <1>5
  <2>3. /\ g[k] \in Figured /\ Worth(g[k]) = Worth(g[p]) + CameIn(k)
        /\ Worth(g[p]) \in Int /\ CameIn(k) \in Int
    BY <1>1, <2>1, <2>2, RollKeeps
  <2>4. Since(month, k) \ {k} = Since(month, p)
    BY <1>5, SinceStep
  <2>5. SumFunctionOnSet(AllIn, Since(month, k)) = CameIn(k) + Worth(g[p])
    BY <1>3, <2>2, <2>4
  <2>. QED BY <2>3, <2>5
<1>6. Counted(month) \subseteq G
  <2> HIDE DEF G, start
  <2>. QED BY <1>4, <1>5, MonthInduction DEF start
<1>. QED BY <1>6

\* They hold all that came in: before the first month that counts nothing did.
LEMMA EveryCent == ASSUME TablesOK, SumsOK PROVE EveryCentIsSomewhere
<1> SUFFICES ASSUME NEW m \in Months
    PROVE  Worth(computeMonthBudget(m)) = SumFunction([k \in Through(m) |-> CameIn(k)])
  BY DEF EveryCentIsSomewhere, Worth, CameIn
<1>1. PICK g : Figures(g, Counted(m), StartMonth(m)) /\ computeMonthBudget(m) = g[m]
  BY ComputeUnfolds
<1>2. m \in Counted(m) /\ m \in Nat
  BY StartIs, MonthsTyped DEF Counted
<1>3. Worth(g[m]) = SumFunctionOnSet(AllIn, Since(m, m))
  BY <1>1, <1>2, EveryCentCounted
<1>4. \A k \in Months : AllIn[k] = CameIn(k) /\ AllIn[k] \in Int
  BY NothingIsThere, RollKeeps DEF AllIn
<1>5. /\ IsFiniteSet(Through(m)) /\ Through(m) \subseteq Months
      /\ Since(m, m) \subseteq Through(m)
  BY MonthsTyped, FS_Subset DEF Through, Since, Counted
<1>6. \A k \in Through(m) \ Since(m, m) : AllIn[k] = 0
  <2> SUFFICES ASSUME NEW k \in Through(m) \ Since(m, m) PROVE AllIn[k] = 0
    OBVIOUS
  <2>1. k \in Months /\ k < StartMonth(m)
    BY StartIs, MonthsTyped DEF Through, Since, Counted
  <2>2. ~HasData(k)
    BY <2>1, StartIs
  <2>. QED BY <1>4, <2>1, <2>2, NothingCameIn
<1>7. SumFunctionOnSet(AllIn, Through(m)) = SumFunctionOnSet(AllIn, Since(m, m))
  <2>1. \A k \in Since(m, m) : AllIn[k] \in Int
    BY <1>4, <1>5
  <2>. QED BY <1>5, <1>6, <2>1, SumRest
<1>8. SumFunction([k \in Through(m) |-> CameIn(k)]) = SumFunctionOnSet(AllIn, Through(m))
  <2> DEFINE h == [k \in Through(m) |-> CameIn(k)]
  <2>1. DOMAIN h = Through(m) /\ \A k \in Through(m) : AllIn[k] \in Int /\ h[k] = AllIn[k]
    BY <1>4, <1>5
  <2> HIDE DEF h
  <2>. QED BY <1>5, <2>1, SumOver DEF h
<1>. QED BY <1>1, <1>3, <1>7, <1>8

-------------------------------------------------------------------------------
(* Balances *)

Change(c)   == [j \in Months |-> Amount(j, c) + activity[j][c]]
From(k, i)  == {j \in Through(k) : i <= j}
Run(k, i, c) == SumFunctionOnSet(Change(c), From(k, i))
Fresh(k, c) == {i \in Through(k) : i = Min(Months) \/ ~Carryover(i, c)}

\* The best of the sums that end with a month.
Best(x, k, c) ==
    /\ x \in Int
    /\ \A i \in Fresh(k, c) : Run(k, i, c) <= x
    /\ \E i \in Fresh(k, c) : Run(k, i, c) = x

\* There is a first month.
LEMMA FirstMonth == Min(Months) \in Months /\ \A k \in Months : Min(Months) <= k
<1>1. PICK x \in Months : \A y \in Months : x <= y
  <2>1. Months \subseteq Nat /\ Months # {}
    BY MonthsTyped, MonthsFollow
  <2>. QED BY <2>1, LeastNatural
<1>. QED BY <1>1 DEF Min

\* What a month changes in a category is a whole amount.
LEMMA ChangeTyped ==
    ASSUME TablesOK, SumsOK, NEW c \in Expense
    PROVE  \A j \in Months : /\ Change(c)[j] \in Int
                             /\ Change(c)[j] = Amount(j, c) + activity[j][c]
<1>1. c \in Categories
  BY DEF Categories
<1>2. \A j \in Months : Amount(j, c) \in Int /\ activity[j][c] \in Int
  BY <1>1, AmountTyped DEF TablesOK, Amount, SumsOK
<1>. QED BY <1>2 DEF Change

\* The months of a run.
LEMMA FromFinite ==
    ASSUME NEW k \in Months, NEW i \in Months
    PROVE  From(k, i) \subseteq Months /\ IsFiniteSet(From(k, i))
BY MonthsTyped, FS_Subset DEF From, Through

\* A run is a whole amount.
LEMMA RunTyped ==
    ASSUME TablesOK, SumsOK, NEW c \in Expense, NEW k \in Months, NEW i \in Months
    PROVE  Run(k, i, c) \in Int
<1>1. \A j \in From(k, i) : Change(c)[j] \in Int
  BY ChangeTyped, FromFinite
<1>. QED BY <1>1, FromFinite, SumTyped DEF Run

\* A run goes on by its last month.
LEMMA RunGoesOn ==
    ASSUME TablesOK, SumsOK, NEW c \in Expense, NEW k \in Months, NEW i \in Months, i <= k
    PROVE  Run(k, i, c) = Change(c)[k] + SumFunctionOnSet(Change(c), From(k, i) \ {k})
<1>1. k \in From(k, i)
  BY MonthsTyped DEF From, Through
<1>2. \A j \in From(k, i) : Change(c)[j] \in Int
  BY ChangeTyped, FromFinite
<1>. QED BY <1>1, <1>2, FromFinite, SumAdds DEF Run

\* The run that starts with its last month.
LEMMA RunStarts ==
    ASSUME TablesOK, SumsOK, NEW c \in Expense, NEW k \in Months
    PROVE  Run(k, k, c) = Change(c)[k]
<1>1. ASSUME NEW j \in From(k, k) PROVE j = k
  BY MonthsTyped DEF From, Through
<1>2. From(k, k) \ {k} = {}
  BY <1>1
<1>3. Run(k, k, c) = Change(c)[k] + 0 /\ Change(c)[k] \in Int
  BY <1>2, RunGoesOn, EmptySum, ChangeTyped, MonthsTyped
<1>. QED BY <1>3

\* A run is the run to the month before, and its last month.
LEMMA RunBefore ==
    ASSUME TablesOK, SumsOK, NEW c \in Expense, NEW k \in Months, NEW p \in Months, p < k,
           \A j \in Months : j < k => j <= p,
           NEW i \in Months, i <= p
    PROVE  Run(k, i, c) = Change(c)[k] + Run(p, i, c)
<1>1. ASSUME NEW j \in Months PROVE (j <= k /\ j # k) <=> j <= p
  BY MonthsTyped
<1>2. From(k, i) \ {k} = From(p, i)
  BY <1>1 DEF From, Through
<1>3. i <= k
  BY MonthsTyped
<1>. QED BY <1>2, <1>3, RunGoesOn DEF Run

\* In the first month that counts every run is what changed in it.
LEMMA BestAtStart ==
    ASSUME TablesOK, SumsOK, NEW month \in Months, NEW c \in Expense
    PROVE  Best(Change(c)[StartMonth(month)], StartMonth(month), c)
<1> DEFINE s == StartMonth(month)
<1>1. s \in Months /\ \A k \in Months : k < s => ~HasData(k)
  BY StartIs
<1> HIDE DEF s
<1>2. ASSUME NEW i \in Months, i <= s PROVE Run(s, i, c) = Change(c)[s]
  <2>1. \A j \in From(s, i) \ {s} : Change(c)[j] = 0
    <3> SUFFICES ASSUME NEW j \in From(s, i) \ {s} PROVE Change(c)[j] = 0
      OBVIOUS
    <3>1. j \in Months /\ j < s
      BY <1>1, MonthsTyped DEF From, Through
    <3>2. Amount(j, c) = 0 /\ activity[j][c] = 0
      BY <1>1, <3>1, NothingCameIn DEF Categories
    <3>. QED BY <3>1, <3>2, ChangeTyped
  <2>2. IsFiniteSet(From(s, i) \ {s})
    BY <1>1, FromFinite, FS_Subset
  <2>3. SumFunctionOnSet(Change(c), From(s, i) \ {s}) = 0
    BY <2>1, <2>2, SumZero
  <2>4. Run(s, i, c) = Change(c)[s] + 0 /\ Change(c)[s] \in Int
    BY <1>1, <1>2, <2>3, RunGoesOn, ChangeTyped
  <2>. QED BY <2>4
<1>3. Min(Months) \in Fresh(s, c)
  BY <1>1, FirstMonth DEF Fresh, Through
<1>4. \A i \in Fresh(s, c) : i \in Months /\ i <= s
  BY DEF Fresh, Through
<1>5. Change(c)[s] \in Int
  BY <1>1, ChangeTyped
<1>6. \A i \in Fresh(s, c) : Run(s, i, c) = Change(c)[s]
  BY <1>2, <1>4
<1>7. Change(c)[s] <= Change(c)[s]
  BY <1>5
<1>8. Best(Change(c)[s], s, c)
  BY <1>3, <1>5, <1>6, <1>7 DEF Best
<1>. QED BY <1>8 DEF s

\* A month carries the best on, or starts anew where that is better.
LEMMA BestGoesOn ==
    ASSUME TablesOK, SumsOK, NEW c \in Expense, NEW k \in Months, NEW p \in Months, p < k,
           \A j \in Months : j < k => j <= p,
           NEW x, Best(x, p, c)
    PROVE  Best(Change(c)[k] + (IF Carryover(k, c) THEN x ELSE AtLeastZero(x)), k, c)
<1> DEFINE d == Change(c)[k]
<1>1. d \in Int /\ x \in Int
  BY ChangeTyped DEF Best
<1>2. \A i \in Months : i <= p => Run(k, i, c) = d + Run(p, i, c) /\ Run(p, i, c) \in Int
  BY RunBefore, RunTyped
<1>3. Run(k, k, c) = d
  BY RunStarts
<1>4. \A i \in Fresh(p, c) : i \in Months /\ i <= p /\ Run(p, i, c) <= x
  BY DEF Best, Fresh, Through
<1>5. PICK b \in Fresh(p, c) : Run(p, b, c) = x
  BY DEF Best
<1>6. k # Min(Months)
  <2>1. Min(Months) <= p /\ Min(Months) \in Months
    BY FirstMonth
  <2>. QED BY <2>1, MonthsTyped
<1>7. ASSUME NEW i \in Months PROVE i <= k <=> (i <= p \/ i = k)
  BY MonthsTyped
<1>8. Fresh(k, c) = Fresh(p, c) \union (IF Carryover(k, c) THEN {} ELSE {k})
  BY <1>6, <1>7 DEF Fresh, Through
<1> HIDE DEF d
<1>9. CASE Carryover(k, c)
  <2>1. Fresh(k, c) = Fresh(p, c)
    BY <1>8, <1>9
  <2>2. \A i \in Fresh(k, c) : Run(k, i, c) <= d + x
    BY <1>1, <1>2, <1>4, <2>1
  <2>3. Run(k, b, c) = d + x
    BY <1>2, <1>4, <1>5
  <2>4. Best(d + x, k, c)
    BY <1>1, <2>1, <2>2, <2>3, <1>5 DEF Best
  <2>. QED BY <1>9, <2>4 DEF d
<1>10. CASE ~Carryover(k, c)
  <2> DEFINE y == AtLeastZero(x)
  <2>1. Fresh(k, c) = Fresh(p, c) \union {k}
    BY <1>8, <1>10
  <2>2. y \in Int /\ y >= x /\ y >= 0 /\ (y = x \/ y = 0)
    BY <1>1 DEF AtLeastZero
  <2> HIDE DEF y
  <2>3. \A i \in Fresh(p, c) : Run(k, i, c) <= d + y
    <3> SUFFICES ASSUME NEW i \in Fresh(p, c) PROVE Run(k, i, c) <= d + y
      OBVIOUS
    <3>1. Run(k, i, c) = d + Run(p, i, c) /\ Run(p, i, c) \in Int /\ Run(p, i, c) <= x
      BY <1>2, <1>4
    <3>. QED BY <1>1, <2>2, <3>1
  <2>4. Run(k, k, c) <= d + y
    BY <1>1, <1>3, <2>2
  <2>5. \E i \in Fresh(k, c) : Run(k, i, c) = d + y
    <3>1. CASE y = x
      <4>1. Run(k, b, c) = d + x
        BY <1>2, <1>4, <1>5
      <4>. QED BY <3>1, <4>1, <1>5, <2>1
    <3>2. CASE y = 0
      <4>1. Run(k, k, c) = d + y
        BY <1>1, <1>3, <3>2
      <4>. QED BY <4>1, <2>1
    <3>. QED BY <2>2, <3>1, <3>2
  <2>6. Best(d + y, k, c)
    <3>1. \A i \in Fresh(k, c) : Run(k, i, c) <= d + y
      BY <2>1, <2>3, <2>4
    <3>2. d + y \in Int
      BY <1>1, <2>2
    <3>. QED BY <2>5, <3>1, <3>2 DEF Best
  <2>. QED BY <1>10, <2>6 DEF d, y
<1>. QED BY <1>9, <1>10

\* The balance is the best run in every month that counts.
LEMMA EveryBalance ==
    ASSUME TablesOK, SumsOK, NEW month \in Months, NEW g, NEW c \in Expense,
           Figures(g, Counted(month), StartMonth(month))
    PROVE  \A k \in Counted(month) : Best(g[k].leftover[c], k, c)
<1> DEFINE start == StartMonth(month)
           G == {k \in Counted(month) : Best(g[k].leftover[c], k, c)}
<1>1. Counted(month) \subseteq Months /\ start \in Counted(month)
  BY StartIs, MonthsTyped DEF Counted
<1>2. \A k \in Months, b \in Figured :
         Roll(b, k).leftover[c] = Change(c)[k] + Carried(k, c, b.leftover)
  <2> SUFFICES ASSUME NEW k \in Months, NEW b \in Figured
      PROVE  Roll(b, k).leftover[c] = Change(c)[k] + Carried(k, c, b.leftover)
    OBVIOUS
  <2>1. Roll(b, k).leftover[c] = Amount(k, c) + activity[k][c] + Carried(k, c, b.leftover)
    BY RollFields
  <2>2. Change(c)[k] = Amount(k, c) + activity[k][c]
    BY ChangeTyped
  <2>. QED BY <2>1, <2>2
<1>3. \A k \in Counted(month) : g[k] \in Figured
  BY EveryCentCounted
<1>4. start \in G
  <2>1. g[start] = Roll(Nothing, start)
    BY <1>1, FiguresStep
  <2>2. Carried(start, c, Nothing.leftover) = 0
    BY NothingIsThere DEF Carried, AtLeastZero
  <2>3. g[start].leftover[c] = Change(c)[start] + 0 /\ Change(c)[start] \in Int
    BY <1>1, <1>2, <2>1, <2>2, NothingIsThere, ChangeTyped
  <2>4. g[start].leftover[c] = Change(c)[start]
    BY <2>3
  <2>. QED BY <1>1, <2>4, BestAtStart
<1>5. ASSUME NEW k \in Counted(month), k # start, MonthBefore(k) \in G PROVE k \in G
  <2> DEFINE p == MonthBefore(k)
             x == g[p].leftover[c]
  <2>1. g[k] = Roll(g[p], k)
    BY <1>5, FiguresStep
  <2>2. p \in Counted(month) /\ p < k /\ (\A j \in Months : j < k => j <= p) /\ Best(x, p, c)
    BY <1>5, CountedBefore
  <2>3. k \in Months /\ p \in Months
    BY <1>1, <2>2
  <2>4. g[k].leftover[c] = Change(c)[k] + (IF Carryover(k, c) THEN x ELSE AtLeastZero(x))
    <3>1. g[k].leftover[c] = Change(c)[k] + Carried(k, c, g[p].leftover)
      BY <1>2, <1>3, <2>1, <2>2, <2>3
    <3>. QED BY <3>1 DEF Carried
  <2> HIDE DEF p, x
  <2>5. Best(Change(c)[k] + (IF Carryover(k, c) THEN x ELSE AtLeastZero(x)), k, c)
    BY <2>2, <2>3, BestGoesOn
  <2>. QED BY <2>4, <2>5
<1>6. Counted(month) \subseteq G
  <2> HIDE DEF G, start
  <2>. QED BY <1>4, <1>5, MonthInduction DEF start
<1>. QED BY <1>6

\* The largest element is the Max.
LEMMA MaxIs == ASSUME NEW S \in SUBSET Int, NEW x \in S, \A y \in S : y <= x PROVE Max(S) = x
<1>1. \A y \in S : x >= y
  OBVIOUS
<1>2. Max(S) \in S /\ \A y \in S : Max(S) >= y
  BY <1>1 DEF Max
<1> DEFINE z == Max(S)
<1>3. z \in Int /\ x \in Int /\ z >= x /\ z <= x
  BY <1>2
<1> HIDE DEF z
<1>4. z = x
  BY <1>3
<1>. QED BY <1>4 DEF z

\* The balance is the best of the runs, as the property has them.
LEMMA LeftoverIsBest == ASSUME TablesOK, SumsOK PROVE LeftoverIsTheBestRun
<1> SUFFICES ASSUME NEW m \in Months, NEW c \in Expense
    PROVE  computeMonthBudget(m).leftover[c]
             = Max({SumFunction([i \in From(m, k) |-> Amount(i, c) + activity[i][c]]) :
                       k \in Fresh(m, c)})
  BY DEF LeftoverIsTheBestRun, Fresh, From
<1>1. PICK g : Figures(g, Counted(m), StartMonth(m)) /\ computeMonthBudget(m) = g[m]
  BY ComputeUnfolds
<1>2. m \in Counted(m)
  BY StartIs, MonthsTyped DEF Counted
<1>3. Best(g[m].leftover[c], m, c)
  BY <1>1, <1>2, EveryBalance
<1>4. \A k \in Fresh(m, c) : k \in Months
  BY DEF Fresh, Through
<1>5. ASSUME NEW k \in Fresh(m, c)
      PROVE  SumFunction([i \in From(m, k) |-> Amount(i, c) + activity[i][c]]) = Run(m, k, c)
  <2> DEFINE h == [i \in From(m, k) |-> Amount(i, c) + activity[i][c]]
  <2>1. From(m, k) \subseteq Months /\ IsFiniteSet(From(m, k))
    BY <1>4, FromFinite
  <2>2. /\ DOMAIN h = From(m, k)
        /\ \A i \in From(m, k) : Change(c)[i] \in Int /\ h[i] = Change(c)[i]
    BY <2>1, ChangeTyped
  <2> HIDE DEF h
  <2>3. SumFunction(h) = SumFunctionOnSet(Change(c), From(m, k))
    BY <2>1, <2>2, SumOver
  <2>. QED BY <2>3 DEF h, Run
<1> DEFINE S == {Run(m, k, c) : k \in Fresh(m, c)}
<1>6. {SumFunction([i \in From(m, k) |-> Amount(i, c) + activity[i][c]]) : k \in Fresh(m, c)} = S
  BY <1>5
<1>7. S \in SUBSET Int
  BY <1>4, RunTyped
<1>8. g[m].leftover[c] \in S /\ \A y \in S : y <= g[m].leftover[c]
  BY <1>3 DEF Best
<1>9. Max(S) = g[m].leftover[c]
  <2> HIDE DEF S
  <2>. QED BY <1>7, <1>8, MaxIs
<1>. QED BY <1>1, <1>6, <1>9

-------------------------------------------------------------------------------
(* The theorems about the figures *)

\* At first all amounts are 0.
LEMMA SumsInit == Init => SumsOK
BY DEF Init, SumsOK

\* Commands add whole amounts.
LEMMA SumsStep == SumsOK /\ [Next]_vars => SumsOK'
<1> SUFFICES ASSUME SumsOK, [Next]_vars PROVE SumsOK'
  OBVIOUS
<1>0. /\ \A a \in Signed(Entries) : a \in Int
      /\ \A a \in Cents : a \in Int
  BY AmountsFit DEF Signed
<1>1. CASE Record
  <2>1. PICK m \in Months, c \in Categories, a \in Signed(Entries) :
            activity' = [activity EXCEPT ![m][c] = @ + a]
    BY <1>1 DEF Record
  <2>2. activity[m][c] + a \in Int
    BY <1>0 DEF SumsOK
  <2>3. activity' \in [Months -> [Categories -> Int]]
    <3> DEFINE n == activity[m][c] + a
    <3>1. activity' = [activity EXCEPT ![m][c] = n] /\ n \in Int
      BY <2>1, <2>2
    <3> HIDE DEF n
    <3>. QED BY <3>1 DEF SumsOK
  <2>. QED BY <1>1, <2>3 DEF Record, SumsOK
<1>2. CASE AddAccount
  <2>1. PICK m \in Months, a \in Signed(Entries) : openings' = [openings EXCEPT ![m] = @ + a]
    BY <1>2 DEF AddAccount
  <2>2. openings' \in [Months -> Int]
    BY <1>0, <2>1 DEF SumsOK
  <2>. QED BY <1>2, <2>2 DEF AddAccount, SumsOK
<1>3. CASE SetBuffer
  <2>1. buffers' \in [Months -> Int]
    BY <1>0, <1>3 DEF SetBuffer, SumsOK
  <2>. QED BY <1>3, <2>1 DEF SetBuffer, SumsOK, money
<1>4. CASE UNCHANGED <<buffers, money>>
  BY <1>4 DEF SumsOK, money
<1>5. CASE UNCHANGED vars \/ SetAmount \/ SetPlan \/ Allocate \/ SetCarryover
  BY <1>4, <1>5 DEF vars, SetAmount, SetPlan, Allocate, SetCarryover
<1>6. ASSUME NEW r \in Requests,
             \/ BeginMove(r) \/ Move(r) \/ BeginCopy(r) \/ Copy(r)
             \/ BeginZero(r) \/ Zero(r) \/ BeginGoals(r) \/ ApplyGoal(r)
             \/ BeginAverage(r) \/ ReadAmount(r) \/ WriteAverage(r) \/ Fail(r)
      PROVE  SumsOK'
  BY <1>4, <1>6 DEF BeginMove, Move, BeginCopy, Copy, BeginZero, Zero, BeginGoals, ApplyGoal,
                    BeginAverage, ReadAmount, WriteAverage, Fail
<1>. QED BY <1>1, <1>2, <1>3, <1>5, <1>6 DEF Next

\* Transactions, opening balances and what is held back are whole amounts.
THEOREM AmountsAgree == Spec => []SumsOK
BY SumsInit, SumsStep, PTL DEF Spec

\* No cent is lost or counted twice by rolling the budget forward, over any months and
\* categories, whatever has been assigned, carried, zeroed, copied, averaged or half done
\* (budget-engine.ts:164-234).
THEOREM EveryCentIsKept == Spec => []EveryCentIsSomewhere
BY EveryCent, BudgetAgrees, AmountsAgree, PTL DEF BudgetInv

\* The balance of a category, which the engine rolls month by month, is the best of the
\* sums that end with the month and start where overspending was not carried
\* (budget-engine.ts:200-216).
THEOREM LeftoverIsKept == Spec => []LeftoverIsTheBestRun
BY LeftoverIsBest, BudgetAgrees, AmountsAgree, PTL DEF BudgetInv
===============================================================================
