---------------------------- MODULE MCMoneyBudget ----------------------------
(* MoneyBudget for TLC: categories of the same role, and requests, are alike. *)
EXTENDS MoneyBudget, TLC

Alike == Permutations(Expense) \union Permutations(Requests)

===============================================================================
