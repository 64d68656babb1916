----------------------------- MODULE OperationLog -----------------------------
(***************************************************************************)
(* What Chat's sync protocol promises of an operation, without sockets,    *)
(* cursors or queues.                                                      *)
(*                                                                         *)
(*   - An operation is submitted once and applied at most once for as long *)
(*     as the journal that remembers it lives.                             *)
(*   - It is reported as confirmed only if it has been applied.            *)
(*   - It is given up only by telling its author so.                       *)
(*   - A wipe replaces the journal by an earlier one, or by none.          *)
(***************************************************************************)
CONSTANTS Ops

VARIABLES
    told,       \* [Ops -> what the author of the operation has been told]
    journal,    \* operations the journal remembers
    done        \* operations that have been applied

vars == <<told, journal, done>>

Outcomes == {"unused", "pending", "confirmed", "dropped"}

TypeOK ==
    /\ told \in [Ops -> Outcomes]
    /\ journal \subseteq Ops
    /\ done \subseteq Ops

Init ==
    /\ told = [o \in Ops |-> "unused"]
    /\ journal = {}
    /\ done = {}

Submit(o) ==
    /\ told[o] = "unused"
    /\ told' = [told EXCEPT ![o] = "pending"]
    /\ UNCHANGED <<journal, done>>

Apply(o) ==
    /\ told[o] # "unused"
    /\ o \notin journal
    /\ journal' = journal \cup {o}
    /\ done' = done \cup {o}
    /\ UNCHANGED told

\* The authors of several operations learn of their fate at once.
Settle(confirmed, dropped) ==
    /\ confirmed \subseteq {o \in done : told[o] = "pending"}
    /\ dropped \subseteq {o \in Ops : told[o] = "pending"} \ confirmed
    /\ told' = [o \in Ops |-> IF o \in confirmed THEN "confirmed"
                              ELSE IF o \in dropped THEN "dropped" ELSE told[o]]
    /\ UNCHANGED <<journal, done>>

\* A backup is restored: the journal is one that has been before.
Restore(kept) ==
    /\ kept \subseteq done
    /\ journal' = kept
    /\ UNCHANGED <<told, done>>

\* reset_storage: the operation that empties the journal is its first entry.
Empty(o) ==
    /\ told[o] # "unused"
    /\ o \notin journal
    /\ journal' = {o}
    /\ done' = done \cup {o}
    /\ UNCHANGED told

Next ==
    \/ \E o \in Ops : Submit(o) \/ Apply(o) \/ Empty(o)
    \/ \E c, d \in SUBSET Ops : Settle(c, d)
    \/ \E kept \in SUBSET Ops : Restore(kept)

Spec == Init /\ [][Next]_vars
===============================================================================
