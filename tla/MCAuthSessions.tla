---------------------------- MODULE MCAuthSessions ----------------------------
(* AuthSessions on small sets of tokens, for TLC. *)
EXTENDS AuthSessions, TLC

CONSTANTS alice, bob

\* Two owners' deployments, which may replace each other.
TwoOwners == {[owner |-> alice, allowed |-> Clients], [owner |-> bob, allowed |-> Clients]}

Symmetric == Permutations(Logins) \cup Permutations(Codes) \cup
             Permutations(Tokens) \cup Permutations(Flows) \cup
             Permutations(Requests)
===============================================================================
