------------------------------ MODULE DeviceGrant ------------------------------
(***************************************************************************)
(* What browser approval of a command line login promises, without polls,  *)
(* answers or a clock.                                                     *)
(*                                                                         *)
(*   - A device asks once; the owner approves or denies it at most once.   *)
(*   - An approved device is given at most one agent token, and no other   *)
(*     device is given any.                                                *)
(*   - What is closed (used, denied, expired) stays closed.                *)
(***************************************************************************)
CONSTANTS Devices, Tokens, Null

VARIABLES
    grant,      \* [Devices -> {"none", "pending", "approved", "closed"}]
    token       \* [Tokens -> the device it was issued to, and its state]

vars == <<grant, token>>

NoToken == [state |-> "none", device |-> Null]

Init ==
    /\ grant = [d \in Devices |-> "none"]
    /\ token = [t \in Tokens |-> NoToken]

Ask(d) ==
    /\ grant[d] = "none"
    /\ grant' = [grant EXCEPT ![d] = "pending"]
    /\ UNCHANGED token

Approve(d) ==
    /\ grant[d] = "pending"
    /\ grant' = [grant EXCEPT ![d] = "approved"]
    /\ UNCHANGED token

\* The owner denies, or the requests in S expire.
Close(S) ==
    /\ \A d \in S : grant[d] \in {"pending", "approved"}
    /\ grant' = [d \in Devices |-> IF d \in S THEN "closed" ELSE grant[d]]
    /\ UNCHANGED token

Issue(d, t) ==
    /\ grant[d] = "approved"
    /\ token[t] = NoToken
    /\ grant' = [grant EXCEPT ![d] = "closed"]
    /\ token' = [token EXCEPT ![t] = [state |-> "live", device |-> d]]

\* A token made by the owner at the Auth home belongs to no device.
Make(t) ==
    /\ token[t] = NoToken
    /\ token' = [token EXCEPT ![t] = [state |-> "live", device |-> Null]]
    /\ UNCHANGED grant

\* Revocation and expiry
End(S) ==
    /\ \A t \in S : token[t].state = "live"
    /\ token' = [t \in Tokens |->
                    IF t \in S THEN [token[t] EXCEPT !.state = "ended"] ELSE token[t]]
    /\ UNCHANGED grant

Next ==
    \/ \E d \in Devices : Ask(d) \/ Approve(d)
    \/ \E S \in SUBSET Devices : Close(S)
    \/ \E d \in Devices, t \in Tokens : Issue(d, t)
    \/ \E t \in Tokens : Make(t)
    \/ \E S \in SUBSET Tokens : End(S)

Spec == Init /\ [][Next]_vars
===============================================================================
