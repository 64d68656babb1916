----------------------------- MODULE SingleSignOn -----------------------------
(***************************************************************************)
(* What the Auth service promises to the apps, without its database, its   *)
(* requests or its clock.                                                  *)
(*                                                                         *)
(*   - A login is opened once and ended once.                              *)
(*   - A handoff code is issued for one live login and one client, and is  *)
(*     closed at most once: by the exchange that redeems it or without one.*)
(*   - An app session comes out of exactly one code, of a live login, and  *)
(*     belongs to the login and the client the code was issued for.        *)
(*   - Ending a login ends, in the same step, every app session that       *)
(*     descends from it, and nothing it issued can be redeemed afterwards. *)
(***************************************************************************)
CONSTANTS Logins, Codes, Tokens, Clients, Null

VARIABLES
    login,      \* [Logins -> {"none", "live", "ended"}]
    code,       \* [Codes  -> what the code was issued for, and its state]
    session     \* [Tokens -> what the session descends from, and its state]

vars == <<login, code, session>>

NoCode    == [state |-> "none", login |-> Null, client |-> Null]
NoSession == [state |-> "none", login |-> Null, client |-> Null]

TypeOK ==
    /\ login \in [Logins -> {"none", "live", "ended"}]
    /\ code \in [Codes -> {NoCode} \cup
          [state : {"open", "closed"}, login : Logins, client : Clients]]
    /\ session \in [Tokens -> {NoSession} \cup
          [state : {"live", "ended"}, login : Logins, client : Clients]]

Init ==
    /\ login   = [l \in Logins |-> "none"]
    /\ code    = [c \in Codes |-> NoCode]
    /\ session = [t \in Tokens |-> NoSession]

Open(l) ==
    /\ login[l] = "none"
    /\ login' = [login EXCEPT ![l] = "live"]
    /\ UNCHANGED <<code, session>>

Issue(c, l, client) ==
    /\ login[l] = "live"
    /\ code[c] = NoCode
    /\ code' = [code EXCEPT ![c] =
                   [state |-> "open", login |-> l, client |-> client]]
    /\ UNCHANGED <<login, session>>

\* A code is turned into a session while the login it came from is live.
Redeem(c, t) ==
    /\ code[c].state = "open"
    /\ login[code[c].login] = "live"
    /\ session[t] = NoSession
    /\ code' = [code EXCEPT ![c].state = "closed"]
    /\ session' = [session EXCEPT ![t] =
           [state |-> "live", login |-> code[c].login, client |-> code[c].client]]
    /\ UNCHANGED login

\* A code expires, is thrown away with a failed exchange, or loses its login.
Void(S) ==
    /\ \A c \in S : code[c].state = "open"
    /\ code' = [c \in Codes |->
                   IF c \in S THEN [code[c] EXCEPT !.state = "closed"] ELSE code[c]]

\* Logout and expiry: the logins end, with all the sessions they gave.
End(L) ==
    /\ \A l \in L : login[l] = "live"
    /\ login' = [l \in Logins |-> IF l \in L THEN "ended" ELSE login[l]]
    /\ session' = [t \in Tokens |->
           IF session[t].state = "live" /\ session[t].login \in L
             THEN [session[t] EXCEPT !.state = "ended"] ELSE session[t]]

Next ==
    \/ \E l \in Logins : Open(l)
    \/ \E c \in Codes, l \in Logins, client \in Clients : Issue(c, l, client)
    \/ \E c \in Codes, t \in Tokens : Redeem(c, t)
    \/ \E S \in SUBSET Codes : Void(S) /\ UNCHANGED <<login, session>>
    \/ \E L \in SUBSET Logins, S \in SUBSET Codes : End(L) /\ Void(S)

Spec == Init /\ [][Next]_vars
===============================================================================
