CONSTANTS
    Months = {202511, 202512, 202601}
    Expense = {a, b}
    Income = {pay}
    Hidden = {pay}
    Goals = {a, b}
    GoalAmount = 2
    Requests = {r1, r2}
    Cents = {3}
    Spans = {2}
    Entries = {2}
    MaxSteps = 3
    NoRow = NoRow
    Idle = Idle
SPECIFICATION Spec
SYMMETRY Alike
CHECK_DEADLOCK FALSE
INVARIANT EveryCentIsSomewhere
INVARIANT LeftoverIsTheBestRun
PROPERTY MovesConserve
