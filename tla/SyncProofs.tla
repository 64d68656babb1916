------------------------------ MODULE SyncProofs ------------------------------
(* What SyncProtocol does for every set of browsers, operations and deltas. *)
EXTENDS SyncProtocol, WellFoundedInduction, TLAPS

\* The log and the journal, as a restore and a reset leave them too: the journal has
\* the position at which an operation stands in the log, and of no other operation.
Journal(entries, journal) ==
    /\ entries \in Seq(Events)
    /\ journal \in [Ops -> Nat]
    /\ \A o \in Ops : journal[o] # 0 =>
          journal[o] \in DOMAIN entries /\ entries[journal[o]] = o
    /\ \A n \in DOMAIN entries : entries[n] \in Ops => journal[entries[n]] = n
    /\ \A m, n \in DOMAIN entries : entries[m] = entries[n] => m = n

LogOK == Journal(log, acked)

\* An event that is new to the log may be appended, one that a command writes with the
\* journal's row (Execute, event-store.ts).
LEMMA AppendOK ==
    ASSUME LogOK, NEW e \in Events, \A n \in DOMAIN log : log[n] # e,
           NEW journal \in [Ops -> Nat],
           \A o \in Ops : journal[o] = IF o = e THEN Len(log) + 1 ELSE acked[o]
    PROVE  Journal(Append(log, e), journal)
<1> DEFINE entries == Append(log, e)
<1>1. /\ log \in Seq(Events) /\ acked \in [Ops -> Nat]
      /\ Len(log) \in Nat /\ DOMAIN log = 1..Len(log)
  BY DEF LogOK, Journal
<1>2. /\ entries \in Seq(Events) /\ DOMAIN entries = 1..(Len(log) + 1)
      /\ \A n \in 1..Len(log) : entries[n] = log[n]
      /\ entries[Len(log) + 1] = e
  BY <1>1
<1> HIDE DEF entries
<1>3. \A o \in Ops : journal[o] # 0 => journal[o] \in DOMAIN entries /\ entries[journal[o]] = o
  BY <1>1, <1>2 DEF LogOK, Journal
<1>4. \A n \in DOMAIN entries : entries[n] \in Ops => journal[entries[n]] = n
  BY <1>1, <1>2 DEF LogOK, Journal
<1>5. \A m, n \in DOMAIN entries : entries[m] = entries[n] => m = n
  BY <1>1, <1>2 DEF LogOK, Journal
<1>. QED  BY <1>2, <1>3, <1>4, <1>5 DEF Journal, entries

\* A backup is a prefix of the log, with the rows of the journal that point into it.
LEMMA PrefixOK ==
    ASSUME LogOK, NEW k \in DOMAIN log
    PROVE  Journal(SubSeq(log, 1, k), [o \in Ops |-> IF acked[o] <= k THEN acked[o] ELSE 0])
<1> DEFINE entries == SubSeq(log, 1, k)
           journal == [o \in Ops |-> IF acked[o] <= k THEN acked[o] ELSE 0]
<1>1. /\ log \in Seq(Events) /\ acked \in [Ops -> Nat]
      /\ Len(log) \in Nat /\ DOMAIN log = 1..Len(log) /\ k \in 1..Len(log)
  BY DEF LogOK, Journal
<1>2. /\ entries \in Seq(Events) /\ DOMAIN entries = 1..k
      /\ \A n \in 1..k : entries[n] = log[n]
  BY <1>1
<1>3. journal \in [Ops -> Nat] /\ \A o \in Ops : journal[o] = IF acked[o] <= k THEN acked[o] ELSE 0
  BY <1>1
<1> HIDE DEF entries, journal
<1>4. \A o \in Ops : journal[o] # 0 => journal[o] \in DOMAIN entries /\ entries[journal[o]] = o
  BY <1>1, <1>2, <1>3 DEF LogOK, Journal
<1>5. \A n \in DOMAIN entries : entries[n] \in Ops => journal[entries[n]] = n
  BY <1>1, <1>2, <1>3 DEF LogOK, Journal
<1>6. \A m, n \in DOMAIN entries : entries[m] = entries[n] => m = n
  BY <1>1, <1>2 DEF LogOK, Journal
<1>7. Journal(entries, journal)
  BY <1>2, <1>3, <1>4, <1>5, <1>6 DEF Journal
<1>. QED  BY <1>7 DEF entries, journal

\* The server's tables agree initially, and every step keeps them in agreement.
LEMMA JournalInductive == Init => LogOK
BY DEF Init, LogOK, Journal

\* The first hello of all writes the first entry; no other hello touches log or journal.
LEMMA HelloStep == ASSUME LogOK, NEW c \in Clients, HandleHello(c) PROVE LogOK'
<1>1. acked' = acked /\ log' = IF log = <<>> THEN <<Boot>> ELSE log
  BY DEF HandleHello
<1>2. CASE log = <<>>
  <2>1. Boot \in Events /\ Boot \notin Ops
    BY SyncAssumption DEF Events
  <2>2. log' = Append(log, Boot)
    BY <1>1, <1>2
  <2>3. \A o \in Ops : acked[o] = IF o = Boot THEN Len(log) + 1 ELSE acked[o]
    BY <2>1
  <2>4. acked \in [Ops -> Nat] /\ \A n \in DOMAIN log : log[n] # Boot
    BY <1>2 DEF LogOK, Journal
  <2>5. Journal(Append(log, Boot), acked)
    BY <2>1, <2>3, <2>4, AppendOK
  <2>. QED  BY <1>1, <2>2, <2>5 DEF LogOK
<1>3. CASE log # <<>>
  BY <1>1, <1>3 DEF LogOK
<1>. QED  BY <1>2, <1>3

\* A command that the journal does not know is new to the log: it is appended, or it
\* is the reset that leaves nothing else.
LEMMA ExecuteStep == ASSUME LogOK, NEW c \in Clients, Execute(c) PROVE LogOK'
<1>1. PICK o \in Ops :
        /\ Fresh(o)
        /\ log' = IF o \in ResetOps THEN <<o>> ELSE Append(log, o)
        /\ acked' = IF o \in ResetOps
                    THEN [p \in Ops |-> IF p = o THEN Len(<<o>>) ELSE 0]
                    ELSE [acked EXCEPT ![o] = Len(Append(log, o))]
  BY DEF Execute
<1>2. o \in Events /\ log \in Seq(Events) /\ acked \in [Ops -> Nat] /\ acked[o] = 0
  BY <1>1 DEF Events, LogOK, Journal, Fresh
<1>3. CASE o \in ResetOps
  <2>1. log' = <<o>> /\ acked' = [p \in Ops |-> IF p = o THEN 1 ELSE 0]
    BY <1>1, <1>3
  <2>2. /\ log' \in Seq(Events) /\ DOMAIN log' = {1} /\ log'[1] = o
        /\ acked' \in [Ops -> Nat] /\ acked'[o] = 1 /\ \A p \in Ops : p # o => acked'[p] = 0
    BY <1>2, <2>1
  <2>. QED  BY <2>2 DEF LogOK, Journal
<1>4. CASE o \notin ResetOps
  <2>1. /\ log' = Append(log, o) /\ acked' \in [Ops -> Nat]
        /\ \A p \in Ops : acked'[p] = IF p = o THEN Len(log) + 1 ELSE acked[p]
    BY <1>1, <1>2, <1>4
  <2>2. \A n \in DOMAIN log : log[n] # o
    BY <1>2 DEF LogOK, Journal
  <2>3. Journal(Append(log, o), acked')
    BY <1>2, <2>1, <2>2, AppendOK
  <2>. QED  BY <2>1, <2>3 DEF LogOK
<1>. QED  BY <1>3, <1>4

\* What the server writes itself is new to the log, and no operation.
LEMMA EmitStep == ASSUME LogOK, NEW e \in Deltas, Emit(e) PROVE LogOK'
<1>1. acked' = acked /\ log' = Append(log, e) /\ e \notin ToSet(log)
  BY DEF Emit
<1>2. e \in Events /\ e \notin Ops
  BY SyncAssumption DEF Events
<1>3. \A n \in DOMAIN log : log[n] # e
  BY <1>1 DEF ToSet
<1>4. acked \in [Ops -> Nat] /\ \A o \in Ops : acked[o] = IF o = e THEN Len(log) + 1 ELSE acked[o]
  BY <1>2 DEF LogOK, Journal
<1>5. Journal(Append(log, e), acked)
  BY <1>2, <1>3, <1>4, AppendOK
<1>. QED  BY <1>1, <1>5 DEF LogOK

\* The log and the journal agree in every reachable state: the inductive invariant
\* behind AtMostOnce.
THEOREM JournalAgrees == Spec => []LogOK
<1>1. LogOK /\ [Next]_vars => LogOK'
  <2> SUFFICES ASSUME LogOK, [Next]_vars PROVE LogOK'
    OBVIOUS
  <2>1. CASE \E c \in Clients : Serve(c)
    <3>1. PICK c \in Clients : Serve(c)
      BY <2>1
    <3>2. CASE HandleHello(c)
      BY <3>2, HelloStep
    <3>3. CASE Execute(c)
      BY <3>3, ExecuteStep
    <3>4. CASE IgnoreDuplicate(c) \/ Refuse(c)
      BY <3>4 DEF IgnoreDuplicate, Refuse, server, LogOK
    <3>. QED  BY <3>1, <3>2, <3>3, <3>4 DEF Serve
  <2>2. CASE \E e \in Deltas : Emit(e)
    BY <2>2, EmitStep
  <2>3. CASE \E n \in DOMAIN log : RestoreBackup(n)
    <3>1. PICK n \in DOMAIN log : RestoreBackup(n)
      BY <2>3
    <3>2. /\ log' = SubSeq(log, 1, n)
          /\ acked' = [o \in Ops |-> IF acked[o] <= n THEN acked[o] ELSE 0]
      BY <3>1 DEF RestoreBackup
    <3>. QED  BY <3>2, PrefixOK DEF LogOK
  <2>4. ASSUME UNCHANGED server PROVE LogOK'
    BY <2>4 DEF server, LogOK
  <2>5. CASE UNCHANGED vars
    BY <2>4, <2>5 DEF vars
  <2>6. ASSUME NEW c \in Clients,
               \/ Frame(c) \/ Connect(c)
               \/ \E o \in Ops : Dispatch(c, o)
               \/ \E j \in 0..Len(up[c]) : Reload(c, j) \/ \E k \in 0..Len(down[c]) : Lose(c, j, k)
        PROVE  UNCHANGED server
    BY <2>6 DEF Frame, Flush, Connect, Dispatch, Reload, Lose
  <2>. QED  BY <2>1, <2>2, <2>3, <2>4, <2>5, <2>6 DEF Next
<1>. QED  BY JournalInductive, <1>1, PTL DEF Spec

\* For any number of browsers, operations, lost sockets and restored backups, an
\* operation stands in the log at most once, and the journal knows exactly those that
\* do (data-access.ts:76, getCommandAck).
THEOREM AppliedAtMostOnce == Spec => []AtMostOnce
<1>1. LogOK => AtMostOnce
  <2> SUFFICES ASSUME LogOK PROVE AtMostOnce
    OBVIOUS
  <2>1. ToSet(log) = {log[n] : n \in DOMAIN log}
    BY DEF ToSet
  <2>2. \A n \in DOMAIN log : n # 0
    BY DEF LogOK, Journal
  <2>. QED  BY <2>1, <2>2 DEF LogOK, Journal, AtMostOnce
<1>. QED  BY JournalAgrees, <1>1, PTL

-------------------------------------------------------------------------------
(* Induction, which the proofs about sequences need. *)

\* A set of naturals has a least one: the order of the naturals is well-founded.
LEMMA LeastNatural == ASSUME NEW T, T \subseteq Nat, T # {} PROVE \E x \in T : \A y \in T : x <= y
<1> DEFINE R == {ss \in Nat \X Nat : ss[1] < ss[2]}
<1>1. IsWellFoundedOn(R, Nat)
  BY NatLessThanWellFounded DEF OpToRel
<1> HIDE DEF R
<1>2. PICK x \in T : \A y \in T : ~ (<<y, x>> \in R)
  BY <1>1, WFMin
<1>3. \A y \in T : ~(y < x)
  BY <1>2 DEF R
<1>4. \A y \in T : x <= y
  BY <1>3
<1>. QED BY <1>4

\* Induction: what holds of 0, and of a successor if of its predecessor, holds of all.
LEMMA SetInduction == ASSUME NEW S, 0 \in S, \A n \in Nat : n \in S => n+1 \in S PROVE Nat \subseteq S
<1> SUFFICES ASSUME Nat \ S # {} PROVE FALSE
  OBVIOUS
<1> DEFINE T == Nat \ S
<1>1. T \subseteq Nat /\ T # {} 
    OBVIOUS
<1> HIDE DEF T
<1>2. PICK x \in T : \A y \in T : x <= y
    BY <1>1, LeastNatural
<1>3. x \in Nat /\ x \notin S
  BY <1>1 DEF T
<1>4. x # 0 /\ x - 1 \in Nat /\ x = (x-1)+1 /\ x-1 \notin T
  BY <1>1, <1>2, <1>3
<1>5. x - 1 \in S
  BY <1>3, <1>4 DEF T
<1>. QED BY <1>3, <1>4, <1>5

\* Finitely many naturals have a bound.
LEMMA SequenceBounded ==
    ASSUME NEW k \in Nat, NEW f, \A i \in 1..k : f[i] \in Nat
    PROVE \E b \in Nat : \A i \in 1..k : f[i] <= b
<1> DEFINE S == {n \in Nat : n <= k => \E b \in Nat : \A i \in 1..n : f[i] <= b}
<1>1. 0 \in S
  OBVIOUS
<1>2. ASSUME NEW n \in Nat, n \in S PROVE n+1 \in S
  <2> SUFFICES ASSUME n+1 <= k PROVE \E b \in Nat : \A i \in 1..(n+1) : f[i] <= b
    OBVIOUS
  <2>1. PICK b \in Nat : \A i \in 1..n : f[i] <= b
    BY <1>2
  <2>2. PICK d \in Nat : d >= b /\ d >= f[n+1]
    <3>1. f[n+1] \in Nat 
      OBVIOUS
    <3>. QED BY <3>1
  <2>3. \A i \in 1..(n+1) : f[i] \in Nat /\ (i \in 1..n \/ i = n+1)
    OBVIOUS
  <2>. QED BY <2>1, <2>2, <2>3
<1> HIDE DEF S
<1>3. k \in S
  BY <1>1, <1>2, SetInduction
<1>. QED BY <1>3 DEF S

\* A bounded set of naturals has a largest element, and that is its Max.
LEMMA MaxIsLargest ==
    ASSUME NEW S, S \subseteq Nat, S # {}, NEW b \in Nat, \A x \in S : x <= b
    PROVE  Max(S) \in S /\ \A x \in S : x <= Max(S)
<1> DEFINE T == {b - x : x \in S}
<1>1. T \subseteq Nat /\ T # {}
  <2>1. \A x \in S : b - x \in Nat
    OBVIOUS
  <2>. QED BY <2>1
<1> HIDE DEF T
<1>2. PICK t \in T : \A y \in T : t <= y
  BY <1>1, LeastNatural
<1>3. PICK m \in S : t = b - m
  BY DEF T
<1>4. \A x \in S : b - x \in T
  BY DEF T
<1>5. \A x \in S : m >= x
  BY <1>2, <1>3, <1>4
<1>. QED BY <1>5 DEF Max

\* The recursive function in Among is the one that its equation defines.
LEMMA AmongUnfolds ==
    ASSUME NEW D, NEW s \in Seq(D), NEW S
    PROVE  \E first :
              /\ first = [n \in 0..Len(s) |-> IF n = 0 THEN <<>>
                     ELSE IF s[n] \in S THEN Append(first[n - 1], s[n]) ELSE first[n - 1]]
              /\ Among(s, S) = first[Len(s)]
<1> DEFINE Unfolds(first, k) == 
      first = [n \in 0..k |-> IF n = 0 THEN <<>>
                     ELSE IF s[n] \in S THEN Append(first[n - 1], s[n]) ELSE first[n - 1]]
    E == {k \in Nat : \E first : Unfolds(first, k)}
<1>1. 0 \in E
  <2>1. Unfolds([n \in 0..0 |-> <<>>], 0)
    OBVIOUS
  <2>. QED BY <2>1
<1>2. ASSUME NEW k \in Nat, k \in E PROVE k+1 \in E
  <2>1. PICK first : Unfolds(first, k)
    BY <1>2
  <2>2. PICK last : last = IF s[k + 1] \in S THEN Append(first[k], s[k + 1]) ELSE first[k]
    OBVIOUS
  <2>3. PICK more : more = [n \in 0..(k + 1) |-> IF n = k + 1 THEN last ELSE first[n]]
    OBVIOUS
  <2>4. \A n \in 0..k : n \in 0..(k + 1) /\ n # k + 1 /\ more[n] = first[n]
    BY <2>3
  <2>5. more[k + 1] = last /\ (k + 1) - 1 = k /\ k \in 0..k /\ 0 \in 0..k
    BY <2>3
  <2>6. \A n \in 0..(k + 1) : n = k + 1 \/ n \in 0..k
    OBVIOUS
  <2>7. \A n \in 0..k : n # 0 => n - 1 \in 0..k
    OBVIOUS
  <2>8. \A n \in 0..k : first[n] = IF n = 0 THEN <<>>
                     ELSE IF s[n] \in S THEN Append(first[n - 1], s[n]) ELSE first[n - 1]
    BY <2>1
  <2>9. \A n \in 0..(k + 1) : more[n] = IF n = 0 THEN <<>>
                     ELSE IF s[n] \in S THEN Append(more[n - 1], s[n]) ELSE more[n - 1]
    BY <2>2, <2>4, <2>5, <2>6, <2>7, <2>8
  <2>10. Unfolds(more, k + 1)
    BY <2>3, <2>9
  <2>. QED BY <2>10, SMTT(20)
<1>3. Len(s) \in E
  <2> HIDE DEF E
  <2>. QED BY <1>1, <1>2, SetInduction
<1>4. \E first : Unfolds(first, Len(s))
  BY <1>3
<1>. QED BY <1>4 DEF Among

\* What is picked from a sequence by a set is what both have.
LEMMA AmongElements ==
    ASSUME NEW D, NEW s \in Seq(D), NEW S
    PROVE  /\ Among(s, S) \in Seq(D)
           /\ ToSet(Among(s, S)) = ToSet(s) \cap S
<1>1. PICK first : 
              /\ first = [n \in 0..Len(s) |-> IF n = 0 THEN <<>>
                     ELSE IF s[n] \in S THEN Append(first[n - 1], s[n]) ELSE first[n - 1]]
              /\ Among(s, S) = first[Len(s)]
  BY AmongUnfolds
<1> DEFINE E == {k \in Nat : k <= Len(s) => 
                    /\ first[k] \in Seq(D) 
                    /\ \A x : (\E i \in 1..Len(first[k]) : first[k][i] = x) 
                                 <=> (\E i \in 1..k : s[i] = x) /\ x \in S}
<1>2. 0 \in E
  BY <1>1
<1>3. ASSUME NEW k \in Nat, k \in E PROVE k+1 \in E
  <2> SUFFICES ASSUME k+1 <= Len(s) PROVE
                    /\ first[k+1] \in Seq(D) 
                    /\ \A x : (\E i \in 1..Len(first[k+1]) : first[k+1][i] = x) 
                                 <=> (\E i \in 1..(k+1) : s[i] = x) /\ x \in S
    OBVIOUS
  <2> DEFINE f == first[k]  g == first[k+1]
  <2>1. /\ f \in Seq(D) /\ Len(f) \in Nat
        /\ \A x : (\E i \in 1..Len(f) : f[i] = x) <=> (\E i \in 1..k : s[i] = x) /\ x \in S
    <3>1. k <= Len(s)
      OBVIOUS
    <3>. QED BY <1>3, <3>1
  <2>2. g = IF s[k+1] \in S THEN Append(f, s[k+1]) ELSE f
    <3>1. k+1 \in 0..Len(s) /\ k+1 # 0 /\ k+1-1 = k
      OBVIOUS
    <3>2. \A n \in 0..Len(s) : n # 0 => first[n] = IF s[n] \in S THEN Append(first[n - 1], s[n]) ELSE first[n - 1]
      BY <1>1
    <3>. QED BY <3>1, <3>2
  <2>3. s[k+1] \in D /\ \A i : i \in 1..(k+1) <=> i \in 1..k \/ i = k+1
    OBVIOUS
  <2> HIDE DEF f, g
  <2>4. CASE s[k+1] \in S
    <3>1. /\ g \in Seq(D) /\ Len(g) = Len(f) + 1 /\ g[Len(f)+1] = s[k+1]
          /\ \A i \in 1..Len(f) : g[i] = f[i]
      BY <2>1, <2>2, <2>3, <2>4
    <3>2. \A i : i \in 1..Len(g) <=> i \in 1..Len(f) \/ i = Len(f)+1
      BY <2>1, <3>1
    <3>. QED BY <2>1, <2>3, <2>4, <3>1, <3>2 DEF g
  <2>5. CASE s[k+1] \notin S
    BY <2>1, <2>2, <2>3, <2>5 DEF g
  <2>. QED BY <2>4, <2>5
<1>4. Len(s) \in E
  <2> HIDE DEF E
  <2>. QED BY <1>2, <1>3, SetInduction
<1>5. first[Len(s)] \in Seq(D) 
  BY <1>4
<1>6. DOMAIN s = 1..Len(s) /\ DOMAIN first[Len(s)] = 1..Len(first[Len(s)])
  BY <1>5
<1>7. \A x : (\E i \in 1..Len(first[Len(s)]) : first[Len(s)][i] = x) 
                                 <=> (\E i \in 1..Len(s) : s[i] = x) /\ x \in S
  BY <1>4
<1>8. ToSet(first[Len(s)]) = ToSet(s) \cap S
  BY <1>6, <1>7 DEF ToSet
<1>. QED BY <1>1, <1>5, <1>8

-------------------------------------------------------------------------------
(* What the variables are. *)

\* The fields of what comes down, by its kind.
LEMMA DownwardFields ==
    ASSUME NEW e \in Downward
    PROVE  /\ e.kind = "ack" => e.op \in Ops /\ e.seq \in Nat
           /\ e.kind = "event" => e.event \in Events /\ e.seq \in Nat
           /\ e.kind = "sync_reset" => /\ e.rows \subseteq Events /\ e.initial \in BOOLEAN
                                       /\ e.seq \in Nat /\ e.era \in Nat
BY DEF Downward

\* What is broadcast joins what is under way.
LEMMA BroadcastType ==
    ASSUME TypeOK, NEW envelopes \in Seq(Downward), Broadcast(envelopes)
    PROVE  down' \in [Clients -> Seq(Downward)]
BY DEF TypeOK, Broadcast

\* The log's entries are events.
LEMMA EntriesAreEvents == ASSUME TypeOK PROVE ToSet(log) \subseteq Events
<1>1. log \in Seq(Events) /\ DOMAIN log = 1..Len(log)
  BY DEF TypeOK
<1>. QED BY <1>1 DEF ToSet

\* The answers to a hello are acks.
LEMMA AnswersType ==
    ASSUME TypeOK, NEW ops \in Seq(Ops)
    PROVE  Answers(ops) \in Seq(Downward)
<1>1. PICK known \in Seq(Ops) : known = Among(ops, {o \in Ops : acked[o] # 0})
  BY AmongElements
<1>2. Answers(ops) = [i \in 1..Len(known) |-> Ack(known[i], acked[known[i]])]
  BY <1>1 DEF Answers
<1>3. \A i \in 1..Len(known) : Ack(known[i], acked[known[i]]) \in Downward
  BY <1>1 DEF TypeOK, Ack, Downward
<1>. QED BY <1>1, <1>2, <1>3

\* What is replayed after a cursor are events; there are none after a cursor past the head.
LEMMA ReplayType ==
    ASSUME NEW entries \in Seq(Events), NEW after \in Nat
    PROVE  Replay(entries, after) \in Seq(Downward)
<1>1. CASE Len(entries) - after \in Nat
  <2>1. \A i \in 1..(Len(entries) - after) : Event(entries[after + i], after + i) \in Downward
    <3> SUFFICES ASSUME NEW i \in 1..(Len(entries) - after) PROVE Event(entries[after + i], after + i) \in Downward
      OBVIOUS
    <3>1. after + i \in 1..Len(entries)
      BY <1>1
    <3>2. entries[after + i] \in Events /\ after + i \in Nat
      BY <3>1
    <3>. QED BY <3>2 DEF Event, Downward
  <2>. QED BY <1>1, <2>1 DEF Replay
<1>2. CASE Len(entries) - after \notin Nat
  <2>1. 1..(Len(entries) - after) = {}
    BY <1>2
  <2>2. Replay(entries, after) = <<>>
    BY <2>1 DEF Replay
  <2>. QED BY <2>2
<1>. QED BY <1>1, <1>2

\* A snapshot is an envelope.
LEMMA SnapshotType ==
    ASSUME TypeOK, NEW entries \in Seq(Events), NEW initial \in BOOLEAN, NEW n \in Nat
    PROVE  Snapshot(entries, initial, n) \in Downward
<1>1. ToSet(entries) \subseteq Events /\ Len(entries) \in Nat
  BY DEF ToSet
<1>. QED BY <1>1 DEF Snapshot, Downward

\* What is taken from the way up was on it.
LEMMA ReceivesType ==
    ASSUME TypeOK, NEW c \in Clients, NEW kind, Receives(c, kind)
    PROVE  /\ up' \in [Clients -> Seq(Upward)]
           /\ Head(up[c]) \in Upward /\ Head(up[c]).kind = kind
BY DEF TypeOK, Receives

\* An answered hello keeps every type.
LEMMA HelloType == ASSUME TypeOK, NEW c \in Clients, HandleHello(c) PROVE TypeOK'
<1>1. /\ up' \in [Clients -> Seq(Upward)] /\ Head(up[c]) \in Upward
      /\ Head(up[c]).kind = "hello"
  BY ReceivesType DEF HandleHello
<1>2. PICK hello : hello = Head(up[c])
  OBVIOUS
<1>3. hello.cursor \in Nat /\ hello.unacked \in Seq(Ops)
  BY <1>1, <1>2 DEF Upward
<1>4. PICK entries : entries = IF log = <<>> THEN <<Boot>> ELSE log
  OBVIOUS
<1>5. entries \in Seq(Events) /\ era \in Nat
  <2>1. Boot \in Events /\ log \in Seq(Events)
    BY DEF TypeOK, Events
  <2>2. <<Boot>> \in Seq(Events)
    BY <2>1
  <2>. QED BY <1>4, <2>1, <2>2 DEF TypeOK
<1>6. PICK state : state = IF hello.cursor <= 0 THEN <<Snapshot(entries, TRUE, era)>>
                           ELSE Replay(entries, hello.cursor)
  OBVIOUS
<1>7. state \in Seq(Downward)
  <2>1. PICK snapshot \in Downward : snapshot = Snapshot(entries, TRUE, era)
    BY <1>5, SnapshotType
  <2>2. <<snapshot>> \in Seq(Downward)
    OBVIOUS
  <2>3. Replay(entries, hello.cursor) \in Seq(Downward)
    BY <1>3, <1>5, ReplayType
  <2>4. CASE hello.cursor <= 0
    <3>1. state = <<snapshot>>
      BY <1>6, <2>1, <2>4
    <3>. QED BY <2>2, <3>1
  <2>5. CASE ~(hello.cursor <= 0)
    BY <1>6, <2>3, <2>5
  <2>. QED BY <2>4, <2>5
<1>8. Answers(hello.unacked) \in Seq(Downward) /\ <<HelloAck>> \in Seq(Downward)
  BY <1>3, AnswersType DEF HelloAck, Downward
<1>9. /\ log' = entries
      /\ down' = IF hello.live THEN [down EXCEPT ![c] = @ \o <<HelloAck>> \o state \o Answers(hello.unacked)]
                 ELSE down
      /\ UNCHANGED <<acked, done, era, browser, link, sound, incidents>>
  BY <1>2, <1>4, <1>6 DEF HandleHello
<1>10. PICK answers : answers = Answers(hello.unacked)
  OBVIOUS
<1>11. down[c] \o <<HelloAck>> \o state \o answers \in Seq(Downward)
  BY <1>7, <1>8, <1>10 DEF TypeOK
<1>12. down' \in [Clients -> Seq(Downward)]
  BY <1>9, <1>10, <1>11 DEF TypeOK
<1>. QED BY <1>1, <1>5, <1>9, <1>12 DEF TypeOK, browser

\* An executed command does, with the two envelopes it broadcasts.
LEMMA ExecuteType == ASSUME TypeOK, NEW c \in Clients, Execute(c) PROVE TypeOK'
<1>1. up' \in [Clients -> Seq(Upward)]
  BY ReceivesType DEF Execute
<1>2. PICK o \in Ops, entries \in Seq(Events) :
        /\ entries = IF o \in ResetOps THEN <<o>> ELSE Append(log, o)
        /\ log' = entries
        /\ acked' = IF o \in ResetOps THEN [p \in Ops |-> IF p = o THEN Len(entries) ELSE 0]
                    ELSE [acked EXCEPT ![o] = Len(entries)]
        /\ done' = done \cup {o}
        /\ era' = IF o \in ResetOps THEN era + 1 ELSE era
        /\ Broadcast(<<Ack(o, Len(entries)), Event(o, Len(entries))>>)
  <2>1. \A p \in Ops : <<p>> \in Seq(Events) /\ Append(log, p) \in Seq(Events)
    BY DEF TypeOK, Events
  <2>. QED BY <2>1 DEF Execute
<1>3. entries \in Seq(Events) /\ Len(entries) \in Nat
  <2>1. o \in Events /\ log \in Seq(Events)
    BY DEF TypeOK, Events
  <2>2. <<o>> \in Seq(Events) /\ Append(log, o) \in Seq(Events)
    BY <2>1
  <2>. QED BY <1>2, <2>2
<1>4. acked' \in [Ops -> Nat] /\ era' \in Nat /\ done' \subseteq Ops
  BY <1>2, <1>3 DEF TypeOK
<1>5. Ack(o, Len(entries)) \in Downward /\ Event(o, Len(entries)) \in Downward
  BY <1>3 DEF Ack, Event, Downward, Events
<1>6. down' \in [Clients -> Seq(Downward)]
  <2>1. PICK envelopes : envelopes = <<Ack(o, Len(entries)), Event(o, Len(entries))>>
    OBVIOUS
  <2>2. envelopes \in Seq(Downward) /\ Broadcast(envelopes)
    BY <1>2, <1>5, <2>1
  <2>. QED BY <2>2, BroadcastType
<1>7. UNCHANGED <<browser, link, sound, incidents>>
  BY DEF Execute
<1>. QED BY <1>1, <1>2, <1>3, <1>4, <1>6, <1>7 DEF TypeOK, browser

\* So does a command that is refused or known.
LEMMA RefuseType ==
    ASSUME TypeOK, NEW c \in Clients, Refuse(c) \/ IgnoreDuplicate(c) PROVE TypeOK'
<1>1. up' \in [Clients -> Seq(Upward)]
  BY ReceivesType DEF Refuse, IgnoreDuplicate
<1>2. down' \in [Clients -> Seq(Downward)] /\ incidents' \in Nat
  <2>1. PICK snapshot \in Downward : snapshot = Snapshot(log, FALSE, era)
    BY SnapshotType DEF TypeOK
  <2>2. Append(down[c], snapshot) \in Seq(Downward)
    BY DEF TypeOK
  <2>3. CASE Refuse(c)
    <3>1. /\ down' = IF Head(up[c]).live THEN [down EXCEPT ![c] = Append(down[c], snapshot)] ELSE down
          /\ incidents' = incidents + 1
      BY <2>1, <2>3 DEF Refuse, Incident
    <3>. QED BY <2>2, <3>1 DEF TypeOK
  <2>4. CASE IgnoreDuplicate(c)
    BY <2>4 DEF IgnoreDuplicate, TypeOK
  <2>. QED BY <2>3, <2>4
<1>. QED BY <1>1, <1>2 DEF TypeOK, Refuse, IgnoreDuplicate, server, browser

\* So does an event of the server's own.
LEMMA EmitType == ASSUME TypeOK, NEW e \in Deltas, Emit(e) PROVE TypeOK'
<1>1. log' \in Seq(Events) /\ incidents' \in Nat
  BY DEF TypeOK, Emit, Incident, Events
<1>2. down' \in [Clients -> Seq(Downward)]
  <2>1. PICK envelopes : envelopes = <<Event(e, Len(log) + 1)>>
    OBVIOUS
  <2>2. envelopes \in Seq(Downward) /\ Broadcast(envelopes)
    BY <2>1 DEF Emit, TypeOK, Event, Downward, Events
  <2>. QED BY <2>2, BroadcastType
<1>. QED BY <1>1, <1>2 DEF TypeOK, Emit, browser

\* So does a restored backup.
LEMMA RestoreType == ASSUME TypeOK, NEW n \in DOMAIN log, RestoreBackup(n) PROVE TypeOK'
<1>1. /\ log' \in Seq(Events) /\ incidents' \in Nat /\ era' \in Nat /\ era + 1 \in Nat
      /\ acked' \in [Ops -> Nat]
  BY DEF TypeOK, RestoreBackup, Incident
<1>2. down' \in [Clients -> Seq(Downward)]
  <2>1. PICK entries : entries = log'
    OBVIOUS
  <2>2. PICK envelopes : envelopes = <<Snapshot(entries, FALSE, era + 1)>>
    OBVIOUS
  <2>3. envelopes \in Seq(Downward)
    <3>1. PICK snapshot \in Downward : snapshot = Snapshot(entries, FALSE, era + 1)
      BY <1>1, <2>1, SnapshotType
    <3>2. envelopes = <<snapshot>>
      BY <2>2, <3>1
    <3>. QED BY <3>2
  <2>4. Broadcast(envelopes)
    BY <2>1, <2>2 DEF RestoreBackup
  <2>. QED BY <2>3, <2>4, BroadcastType
<1>. QED BY <1>1, <1>2 DEF TypeOK, RestoreBackup, browser

\* The positions that a batch processes are positions of what has arrived; a non-empty
\* set of them has a last.
LEMMA EnvelopesType ==
    ASSUME TypeOK, NEW c \in Clients, NEW k \in 0..Len(down[c]), NEW kind
    PROVE  /\ Envelopes(c, k, kind) \subseteq 1..k
           /\ \A i \in Envelopes(c, k, kind) : down[c][i] \in Downward /\ down[c][i].kind = kind
<1>1. down[c] \in Seq(Downward)
  BY DEF TypeOK
<1>. QED BY <1>1 DEF Envelopes

\* A set of positions that is not empty has a last.
LEMMA LastPosition ==
    ASSUME NEW k \in Nat, NEW S, S \subseteq 1..k, S # {}
    PROVE  Max(S) \in S /\ \A i \in S : i <= Max(S)
<1>1. S \subseteq Nat /\ \A x \in S : x <= k
  OBVIOUS
<1>. QED BY <1>1, MaxIsLargest

\* A batch leaves the cursor a natural number.
LEMMA CursorAfterType ==
    ASSUME TypeOK, NEW c \in Clients, NEW k \in 0..Len(down[c])
    PROVE  CursorAfter(c, k) \in Nat
<1>1. down[c] \in Seq(Downward) /\ k \in Nat /\ cursor[c] \in Nat
  BY DEF TypeOK
<1>2. /\ Moves(c, k) \subseteq 1..k
      /\ \A i \in Moves(c, k) : down[c][i].seq \in Nat
  BY EnvelopesType, DownwardFields DEF Moves
<1>3. PICK from : from = IF Moves(c, k) = {} THEN 0 ELSE Max(Moves(c, k))
  OBVIOUS
<1>4. from \in 0..k /\ (from # 0 => from \in Moves(c, k))
  BY <1>1, <1>2, <1>3, LastPosition
<1>5. PICK base : base = IF from = 0 THEN cursor[c] ELSE down[c][from].seq
  OBVIOUS
<1>6. base \in Nat
  BY <1>1, <1>2, <1>4, <1>5
<1>7. PICK late : late = {j \in Envelopes(c, k, "ack") : j > from}
  OBVIOUS
<1>8. late \subseteq 1..k /\ \A i \in late : down[c][i].seq \in Nat
  BY <1>7, EnvelopesType, DownwardFields
<1>9. PICK f : f = [i \in 1..k |-> IF i \in late THEN down[c][i].seq ELSE 0]
  OBVIOUS
<1>10. \A i \in 1..k : f[i] \in Nat
  BY <1>8, <1>9
<1>11. PICK b \in Nat : \A i \in 1..k : f[i] <= b
  BY <1>1, <1>10, SequenceBounded
<1>12. PICK top \in Nat : top >= b /\ top >= base
  BY <1>6
<1>13. PICK S : S = {base} \cup {down[c][i].seq : i \in late}
  OBVIOUS
<1>14. \A i \in late : f[i] = down[c][i].seq
  BY <1>8, <1>9
<1>15. S \subseteq Nat /\ S # {} /\ \A x \in S : x <= top
  <2>1. \A i \in late : down[c][i].seq <= top
    BY <1>8, <1>11, <1>12, <1>14
  <2>. QED BY <1>6, <1>8, <1>12, <1>13, <2>1
<1>16. Max(S) \in S
  BY <1>15, MaxIsLargest
<1>17. CursorAfter(c, k) = Max(S)
  BY <1>3, <1>5, <1>7, <1>13 DEF CursorAfter
<1>. QED BY <1>15, <1>16, <1>17

\* It leaves rows of events, and an era.
LEMMA ShownAfterType ==
    ASSUME TypeOK, NEW c \in Clients, NEW k \in 0..Len(down[c])
    PROVE  ShownAfter(c, k) \subseteq Events /\ SnapshotEra(c, k) \in Nat
<1>1. PICK resets : resets = Envelopes(c, k, "sync_reset")
  OBVIOUS
<1>2. k \in Nat /\ shown[c] \subseteq Events /\ sound[c] \in Nat
  BY DEF TypeOK
<1>3. resets # {} => Max(resets) \in resets
  BY <1>1, <1>2, EnvelopesType, LastPosition
<1>4. \A i \in resets : down[c][i].rows \subseteq Events /\ down[c][i].era \in Nat
  BY <1>1, EnvelopesType, DownwardFields
<1>5. \A i \in Envelopes(c, k, "event") : down[c][i].event \in Events
  BY EnvelopesType, DownwardFields
<1>6. SnapshotEra(c, k) \in Nat
  BY <1>1, <1>2, <1>3, <1>4 DEF SnapshotEra
<1>7. ShownAfter(c, k) \subseteq Events
  <2>1. PICK from : from = IF resets = {} THEN 0 ELSE Max(resets)
    OBVIOUS
  <2>2. (IF resets = {} THEN shown[c] ELSE down[c][from].rows) \subseteq Events
    BY <1>2, <1>3, <1>4, <2>1
  <2>3. {down[c][i].event : i \in {j \in Envelopes(c, k, "event") : j > from}} \subseteq Events
    BY <1>5
  <2>. QED BY <1>1, <2>1, <2>2, <2>3 DEF ShownAfter
<1>. QED BY <1>6, <1>7

\* What flushAll sends again is what the outbox holds.
LEMMA ResentType ==
    ASSUME TypeOK, NEW c \in Clients, NEW k
    PROVE  Resent(c, k) \in Seq(Ops) /\ ToSet(Resent(c, k)) \subseteq ToSet(outbox[c])
<1>1. PICK S : S = {o \in Ops : \E i \in Envelopes(c, k, "hello_ack") :
                /\ o \notin AckedBefore(c, k, i)
                /\ \A j \in Clears(c, k) : i < j}
  OBVIOUS
<1>2. outbox[c] \in Seq(Ops)
  BY DEF TypeOK
<1>3. Among(outbox[c], S) \in Seq(Ops) /\ ToSet(Among(outbox[c], S)) \subseteq ToSet(outbox[c])
  BY <1>2, AmongElements
<1>4. CASE c \in link
  BY <1>1, <1>3, <1>4 DEF Resent
<1>5. CASE c \notin link
  BY <1>5 DEF Resent, ToSet
<1>. QED BY <1>4, <1>5

\* A frame keeps every type.
LEMMA FlushType == ASSUME TypeOK, NEW c \in Clients, NEW k \in DOMAIN down[c], Flush(c, k) PROVE TypeOK'
<1>1. k \in 0..Len(down[c]) /\ k \in Nat /\ down[c] \in Seq(Downward)
  BY DEF TypeOK
<1>2. shown' \in [Clients -> SUBSET Events] /\ sound' \in [Clients -> Nat]
  BY <1>1, ShownAfterType DEF TypeOK, Flush
<1>3. cursor' \in [Clients -> Nat]
  BY <1>1, CursorAfterType DEF TypeOK, Flush
<1>4. cache' \in [Clients -> [shown : SUBSET Events, cursor : Nat]]
  <2>1. shown'[c] \in SUBSET Events /\ cursor'[c] \in Nat
    BY <1>2, <1>3
  <2>2. PICK row : row = [shown |-> shown'[c], cursor |-> cursor'[c]]
    OBVIOUS
  <2>3. row \in [shown : SUBSET Events, cursor : Nat]
    BY <2>1, <2>2
  <2>4. cache' = IF Cacheable(c, k) THEN [cache EXCEPT ![c] = row] ELSE cache
    BY <2>2 DEF Flush
  <2>. QED BY <2>3, <2>4 DEF TypeOK
<1>5. outbox' \in [Clients -> Seq(Ops)]
  <2>1. PICK S : S = Ops \ (Confirmed(c, k) \cup Dropped(c, k))
    OBVIOUS
  <2>2. outbox[c] \in Seq(Ops)
    BY DEF TypeOK
  <2>3. Among(outbox[c], S) \in Seq(Ops)
    BY <2>2, AmongElements
  <2>4. outbox' = [outbox EXCEPT ![c] = Among(outbox[c], S)]
    BY <2>1 DEF Flush
  <2>. QED BY <2>3, <2>4 DEF TypeOK
<1>6. told' \in [Ops -> {"unused", "pending", "confirmed", "dropped"}]
  BY DEF TypeOK, Flush
<1>7. up' \in [Clients -> Seq(Upward)]
  <2>1. PICK resent : resent = Resent(c, k)
    OBVIOUS
  <2>2. resent \in Seq(Ops)
    BY <2>1, ResentType
  <2>3. PICK commands : commands = [i \in DOMAIN resent |-> Command(resent[i], TRUE)]
    OBVIOUS
  <2>4. commands \in Seq(Upward)
    <3>1. \A i \in 1..Len(resent) : Command(resent[i], TRUE) \in Upward
      BY <2>2 DEF Command, Upward
    <3>2. Len(resent) \in Nat /\ DOMAIN resent = 1..Len(resent)
      BY <2>2
    <3>3. DOMAIN commands = 1..Len(resent) /\ \A i \in 1..Len(resent) : commands[i] \in Upward
      BY <2>3, <3>1, <3>2
    <3>4. commands = [i \in 1..Len(resent) |-> commands[i]]
      BY <2>3, <3>2
    <3>. QED BY <3>2, <3>3, <3>4
  <2>5. up' = [up EXCEPT ![c] = up[c] \o commands]
    BY <2>1, <2>3 DEF Flush
  <2>. QED BY <2>4, <2>5 DEF TypeOK
<1>8. down' \in [Clients -> Seq(Downward)]
  <2>1. PICK left : left = SubSeq(down[c], k + 1, Len(down[c]))
    OBVIOUS
  <2>2. left \in Seq(Downward)
    BY <1>1, <2>1
  <2>3. down' = [down EXCEPT ![c] = left]
    BY <2>1 DEF Flush
  <2>. QED BY <2>2, <2>3 DEF TypeOK
<1>. QED BY <1>2, <1>3, <1>4, <1>5, <1>6, <1>7, <1>8 DEF TypeOK, Flush, server

\* What is left of a socket that was lost are envelopes still.
LEMMA ReceivedType ==
    ASSUME TypeOK, NEW c \in Clients, NEW j \in 0..Len(up[c])
    PROVE  Received(c, j) \in Seq(Upward)
<1>1. up[c] \in Seq(Upward) /\ j \in Nat
  BY DEF TypeOK
<1>2. \A i \in 1..j : [up[c][i] EXCEPT !.live = FALSE] \in Upward
  <2> SUFFICES ASSUME NEW i \in 1..j PROVE [up[c][i] EXCEPT !.live = FALSE] \in Upward
    OBVIOUS
  <2>1. PICK e \in Upward : e = up[c][i]
    BY <1>1
  <2>2. [e EXCEPT !.live = FALSE] \in Upward
    BY <2>1 DEF Upward
  <2>. QED BY <2>1, <2>2
<1>. QED BY <1>1, <1>2 DEF Received

\* A lost socket does, although what it leaves behind is rewritten.
LEMMA LoseType ==
    ASSUME TypeOK, NEW c \in Clients, NEW j \in 0..Len(up[c]), NEW k \in 0..Len(down[c]),
           Lose(c, j, k)
    PROVE  TypeOK'
<1>1. down[c] \in Seq(Downward) /\ k \in Nat
  BY DEF TypeOK
<1>2. up' \in [Clients -> Seq(Upward)]
  BY ReceivedType DEF TypeOK, Lose
<1>3. PICK cut \in BOOLEAN :
        /\ sound' = IF cut THEN [sound EXCEPT ![c] = 0] ELSE sound
        /\ down' = [down EXCEPT ![c] = [i \in 1..k |->
              IF cut /\ down[c][i].kind = "sync_reset" THEN [down[c][i] EXCEPT !.era = 0]
              ELSE down[c][i]]]
  BY DEF Lose, Overtaken
<1>4. \A i \in 1..k : (IF cut /\ down[c][i].kind = "sync_reset" THEN [down[c][i] EXCEPT !.era = 0]
              ELSE down[c][i]) \in Downward
  <2> SUFFICES ASSUME NEW i \in 1..k, cut, down[c][i].kind = "sync_reset" 
               PROVE [down[c][i] EXCEPT !.era = 0] \in Downward
    BY <1>1
  <2>1. PICK e \in Downward : e = down[c][i]
    BY <1>1
  <2>2. [e EXCEPT !.era = 0] \in Downward
    BY <2>1 DEF Downward
  <2>. QED BY <2>1, <2>2
<1>5. down' \in [Clients -> Seq(Downward)]
  <2>1. PICK kept : kept = [i \in 1..k |->
              IF cut /\ down[c][i].kind = "sync_reset" THEN [down[c][i] EXCEPT !.era = 0]
              ELSE down[c][i]]
    OBVIOUS
  <2>2. kept \in Seq(Downward)
    BY <1>1, <1>4, <2>1
  <2>3. down' = [down EXCEPT ![c] = kept]
    BY <1>3, <2>1
  <2>. QED BY <2>2, <2>3 DEF TypeOK
<1>6. sound' \in [Clients -> Nat]
  BY <1>3 DEF TypeOK
<1>7. incidents' \in Nat /\ link' \subseteq Clients
  BY DEF TypeOK, Lose, Incident
<1>. QED BY <1>2, <1>5, <1>6, <1>7 DEF TypeOK, Lose, server, browser

\* So does a page that is loaded again.
LEMMA ReloadType ==
    ASSUME TypeOK, NEW c \in Clients, NEW j \in 0..Len(up[c]), Reload(c, j)
    PROVE  TypeOK'
<1>1. up' \in [Clients -> Seq(Upward)]
  BY ReceivedType DEF TypeOK, Reload
<1>2. /\ down' \in [Clients -> Seq(Downward)] /\ sound' \in [Clients -> Nat]
      /\ incidents' \in Nat /\ link' \subseteq Clients
      /\ shown' \in [Clients -> SUBSET Events] /\ cursor' \in [Clients -> Nat]
  BY DEF TypeOK, Reload, Incident
<1>. QED BY <1>1, <1>2 DEF TypeOK, Reload, server

\* So do a socket that opens and an operation that is dispatched.
LEMMA SendType ==
    ASSUME TypeOK, NEW c \in Clients, Connect(c) \/ \E o \in Ops : Dispatch(c, o)
    PROVE  TypeOK'
<1>1. CASE Connect(c)
  <2>1. Hello(c) \in Upward
    BY DEF TypeOK, Hello, Upward
  <2>2. up' \in [Clients -> Seq(Upward)] /\ link' \subseteq Clients
    BY <1>1, <2>1 DEF TypeOK, Connect
  <2>. QED BY <1>1, <2>2 DEF TypeOK, Connect, server, browser
<1>2. ASSUME NEW o \in Ops, Dispatch(c, o) PROVE TypeOK'
  <2>1. Command(o, TRUE) \in Upward
    BY DEF Command, Upward
  <2>2. up' \in [Clients -> Seq(Upward)]
    <3>1. PICK command \in Upward : command = Command(o, TRUE)
      BY <2>1
    <3>2. Append(up[c], command) \in Seq(Upward)
      BY DEF TypeOK
    <3>. QED BY <1>2, <3>1, <3>2 DEF TypeOK, Dispatch
  <2>3. /\ told' \in [Ops -> {"unused", "pending", "confirmed", "dropped"}]
        /\ outbox' \in [Clients -> Seq(Ops)]
    BY <1>2 DEF TypeOK, Dispatch
  <2>. QED BY <1>2, <2>2, <2>3 DEF TypeOK, Dispatch, server
<1>. QED BY <1>1, <1>2

\* The variables have their types in every state: in particular no snapshot is dated
\* before the log begins, and no cursor is negative (TypeOK).
THEOREM TypesHold == Spec => []TypeOK
<1>1. Init => TypeOK
  <2> SUFFICES ASSUME Init PROVE TypeOK
    OBVIOUS
  <2>1. NoCache \in [shown : SUBSET Events, cursor : Nat]
    BY DEF NoCache
  <2>. QED BY <2>1 DEF Init, TypeOK
<1>2. TypeOK /\ [Next]_vars => TypeOK'
  <2> SUFFICES ASSUME TypeOK, [Next]_vars PROVE TypeOK'
    OBVIOUS
  <2>1. ASSUME NEW c \in Clients, Serve(c) PROVE TypeOK'
    BY <2>1, HelloType, ExecuteType, RefuseType DEF Serve
  <2>2. ASSUME NEW c \in Clients, Frame(c) PROVE TypeOK'
    BY <2>2, FlushType DEF Frame
  <2>3. ASSUME NEW c \in Clients, NEW j \in 0..Len(up[c]),
               Reload(c, j) \/ \E k \in 0..Len(down[c]) : Lose(c, j, k)
        PROVE  TypeOK'
    BY <2>3, ReloadType, LoseType
  <2>4. CASE UNCHANGED vars
    BY <2>4 DEF vars, server, browser, TypeOK
  <2>. QED BY <2>1, <2>2, <2>3, <2>4, SendType, EmitType, RestoreType DEF Next
<1>. QED BY <1>1, <1>2, PTL DEF Spec

-------------------------------------------------------------------------------
(* The refinement of OperationLog. *)

\* The elements of a sequence with one more, and of what follows its first k.
LEMMA AppendElements ==
    ASSUME NEW D, NEW q \in Seq(D), NEW x \in D, NEW i \in DOMAIN Append(q, x)
    PROVE  \/ i \in DOMAIN q /\ Append(q, x)[i] = q[i]
           \/ Append(q, x)[i] = x
OBVIOUS

LEMMA RestElements ==
    ASSUME NEW D, NEW q \in Seq(D), NEW k \in 0..Len(q)
    PROVE  \A i \in DOMAIN SubSeq(q, k + 1, Len(q)) :
              k + i \in DOMAIN q /\ SubSeq(q, k + 1, Len(q))[i] = q[k + i]
OBVIOUS


\* An element of a concatenation is an element of one of the two.
LEMMA ConcatElements ==
    ASSUME NEW D, NEW a \in Seq(D), NEW b \in Seq(D), NEW i \in DOMAIN (a \o b)
    PROVE  \/ \E j \in DOMAIN a : (a \o b)[i] = a[j]
           \/ \E j \in DOMAIN b : (a \o b)[i] = b[j]
<1>1. i \in 1..(Len(a) + Len(b))
  OBVIOUS
<1>2. CASE i <= Len(a)
  BY <1>1, <1>2
<1>3. CASE i > Len(a)
  <2>1. i - Len(a) \in DOMAIN b /\ (a \o b)[i] = b[i - Len(a)]
    BY <1>1, <1>3
  <2>. QED BY <2>1
<1>. QED BY <1>1, <1>2, <1>3

\* Whoever sends an operation has submitted it, and whoever is acked has been applied.
CommandsKnown(q) == \A i \in DOMAIN q : q[i].kind = "command" => told[q[i].op] # "unused"
AcksTrue(q) == \A i \in DOMAIN q : q[i].kind = "ack" => q[i].op \in done

\* An operation that waits in an outbox is pending, and waits in no other.
OutboxesOK ==
    /\ \A c \in Clients : \A o \in ToSet(outbox[c]) : told[o] = "pending"
    /\ \A c, d \in Clients : \A o \in ToSet(outbox[c]) : o \in ToSet(outbox[d]) => c = d

Accounted ==
    /\ \A o \in Ops : acked[o] # 0 => o \in done
    /\ OutboxesOK
    /\ \A c \in Clients : CommandsKnown(up[c]) /\ AcksTrue(down[c])

\* A broadcast brings no ack of an operation that was not applied.
LEMMA BroadcastAcks ==
    ASSUME TypeOK, Accounted, NEW envelopes \in Seq(Downward), Broadcast(envelopes),
           done \subseteq done', AcksTrue(envelopes)'
    PROVE  \A c \in Clients : AcksTrue(down[c])'
<1> SUFFICES ASSUME NEW c \in Clients, NEW i \in DOMAIN down'[c], down'[c][i].kind = "ack"
             PROVE  down'[c][i].op \in done'
  BY DEF AcksTrue
<1>1. down[c] \in Seq(Downward) /\ AcksTrue(down[c])
  BY DEF TypeOK, Accounted
<1>2. CASE c \in link
  <2>1. down'[c] = down[c] \o envelopes
    BY <1>2 DEF Broadcast
  <2>2. \/ \E j \in DOMAIN down[c] : down'[c][i] = down[c][j]
        \/ \E j \in DOMAIN envelopes : down'[c][i] = envelopes[j]
    BY <1>1, <2>1, ConcatElements
  <2>. QED BY <1>1, <2>2 DEF AcksTrue
<1>3. CASE c \notin link
  BY <1>1, <1>3 DEF AcksTrue, Broadcast
<1>. QED BY <1>2, <1>3

\* Taking an envelope leaves the others, and its command was dispatched.
LEMMA ReceivesKnown ==
    ASSUME TypeOK, Accounted, NEW c \in Clients, NEW kind, Receives(c, kind), told' = told
    PROVE  /\ \A d \in Clients : CommandsKnown(up[d])'
           /\ kind = "command" => told[Head(up[c]).op] # "unused"
<1>1. /\ up[c] \in Seq(Upward) /\ up[c] # <<>> /\ Head(up[c]).kind = kind
      /\ \A d \in Clients : up'[d] = IF d = c THEN Tail(up[c]) ELSE up[d]
  BY DEF TypeOK, Receives
<1>2. \A d \in Clients : CommandsKnown(up[d])
  BY DEF Accounted
<1>3. 1 \in DOMAIN up[c] /\ Head(up[c]) = up[c][1]
  BY <1>1
<1>4. \A i \in DOMAIN Tail(up[c]) : i + 1 \in DOMAIN up[c] /\ Tail(up[c])[i] = up[c][i + 1]
  BY <1>1
<1>5. ASSUME NEW d \in Clients, NEW i \in DOMAIN up'[d], up'[d][i].kind = "command"
      PROVE  told[up'[d][i].op] # "unused"
  <2>1. CASE d = c
    <3>1. /\ up'[d] = Tail(up[c]) /\ i + 1 \in DOMAIN up[c] /\ up'[d][i] = up[c][i + 1]
      BY <1>1, <1>4, <1>5, <2>1
    <3>. QED BY <1>2, <1>5, <3>1 DEF CommandsKnown
  <2>2. CASE d # c
    BY <1>1, <1>2, <1>5, <2>2 DEF CommandsKnown
  <2>. QED BY <2>1, <2>2
<1>6. \A d \in Clients : CommandsKnown(up[d])'
  BY <1>5 DEF CommandsKnown
<1>7. kind = "command" => told[Head(up[c]).op] # "unused"
  BY <1>1, <1>2, <1>3 DEF CommandsKnown
<1>. QED BY <1>6, <1>7

\* The acks that answer a hello are of operations that were applied.
LEMMA AnswersAcks ==
    ASSUME TypeOK, Accounted, NEW ops \in Seq(Ops)
    PROVE  AcksTrue(Answers(ops))
<1>1. PICK known \in Seq(Ops) :
        /\ known = Among(ops, {o \in Ops : acked[o] # 0})
        /\ ToSet(known) = ToSet(ops) \cap {o \in Ops : acked[o] # 0}
  BY AmongElements
<1>2. Answers(ops) = [i \in DOMAIN known |-> Ack(known[i], acked[known[i]])]
  BY <1>1 DEF Answers
<1>3. \A i \in DOMAIN known : known[i] \in done
  BY <1>1 DEF ToSet, Accounted
<1>. QED BY <1>2, <1>3 DEF AcksTrue, Ack

\* A hello is answered from the journal.
LEMMA HelloAccounted ==
    ASSUME TypeOK, Accounted, NEW c \in Clients, HandleHello(c) PROVE Accounted'
<1>1. /\ Receives(c, "hello") /\ UNCHANGED <<acked, done, browser>>
      /\ Head(up[c]) \in Upward /\ Head(up[c]).kind = "hello"
  BY ReceivesType DEF HandleHello
<1>2. PICK hello, entries :
        /\ hello = Head(up[c])
        /\ entries = IF log = <<>> THEN <<Boot>> ELSE log
  OBVIOUS
<1>3. PICK state, answers :
        /\ state = IF hello.cursor <= 0 THEN <<Snapshot(entries, TRUE, era)>>
                   ELSE Replay(entries, hello.cursor)
        /\ answers = Answers(hello.unacked)
        /\ down' = IF hello.live THEN [down EXCEPT ![c] = @ \o <<HelloAck>> \o state \o answers]
                   ELSE down
  BY <1>2 DEF HandleHello
<1>4. hello.cursor \in Nat /\ hello.unacked \in Seq(Ops)
  BY <1>1, <1>2 DEF Upward
<1>5. entries \in Seq(Events) /\ era \in Nat
  <2>1. Boot \in Events /\ log \in Seq(Events)
    BY DEF TypeOK, Events
  <2>2. <<Boot>> \in Seq(Events)
    BY <2>1
  <2>. QED BY <1>2, <2>1, <2>2 DEF TypeOK
<1>6. state \in Seq(Downward) /\ \A i \in DOMAIN state : state[i].kind # "ack"
  <2>1. CASE hello.cursor <= 0
    <3>1. PICK snapshot \in Downward : snapshot = Snapshot(entries, TRUE, era)
      BY <1>5, SnapshotType
    <3>2. snapshot.kind = "sync_reset"
      BY <3>1 DEF Snapshot
    <3>3. state = <<snapshot>>
      BY <1>3, <2>1, <3>1
    <3>. QED BY <3>2, <3>3
  <2>2. CASE ~(hello.cursor <= 0)
    <3>1. state = Replay(entries, hello.cursor)
      BY <1>3, <2>2
    <3>2. state \in Seq(Downward)
      BY <1>4, <1>5, <3>1, ReplayType
    <3>3. \A i \in DOMAIN state : state[i].kind = "event"
      BY <3>1 DEF Replay, Event
    <3>. QED BY <3>2, <3>3
  <2>. QED BY <2>1, <2>2
<1>7. answers \in Seq(Downward) /\ AcksTrue(answers)
  BY <1>3, <1>4, AnswersType, AnswersAcks
<1>8. PICK before : before = down[c] \o <<HelloAck>>
  OBVIOUS
<1>9. before \in Seq(Downward) /\ AcksTrue(before)
  <2>1. down[c] \in Seq(Downward) /\ AcksTrue(down[c])
    BY DEF TypeOK, Accounted
  <2>2. PICK one \in Seq(Downward) : one = <<HelloAck>>
    <3>1. PICK ack \in Downward : ack = HelloAck
      BY DEF HelloAck, Downward
    <3>2. <<ack>> \in Seq(Downward)
      OBVIOUS
    <3>. QED BY <3>1, <3>2
  <2>3. before \in Seq(Downward)
    BY <1>8, <2>1, <2>2
  <2>4. ASSUME NEW i \in DOMAIN before
        PROVE  (\E j \in DOMAIN down[c] : before[i] = down[c][j]) \/ before[i].kind # "ack"
    <3>1. \/ \E j \in DOMAIN down[c] : before[i] = down[c][j]
          \/ \E j \in DOMAIN one : before[i] = one[j]
      BY <1>8, <2>1, <2>2, ConcatElements
    <3>2. \A j \in DOMAIN one : one[j].kind # "ack"
      BY <2>2 DEF HelloAck
    <3>. QED BY <3>1, <3>2
  <2>. QED BY <2>1, <2>3, <2>4 DEF AcksTrue
<1>10. PICK middle : middle = before \o state
  OBVIOUS
<1>11. middle \in Seq(Downward) /\ AcksTrue(middle)
  <2>1. middle \in Seq(Downward)
    BY <1>6, <1>9, <1>10
  <2>2. ASSUME NEW i \in DOMAIN middle
        PROVE  \/ \E j \in DOMAIN before : middle[i] = before[j]
               \/ \E j \in DOMAIN state : middle[i] = state[j]
    <3>1. state \in Seq(Downward) /\ before \in Seq(Downward)
      BY <1>6, <1>9
    <3>2. i \in DOMAIN (before \o state)
      BY <1>10, Zenon
    <3>3. \/ \E j \in DOMAIN before : (before \o state)[i] = before[j]
          \/ \E j \in DOMAIN state : (before \o state)[i] = state[j]
      BY <3>1, <3>2, ConcatElements, SMTT(20)
    <3>. QED BY <1>10, <3>3, Zenon
  <2>. QED BY <1>6, <1>9, <2>1, <2>2 DEF AcksTrue
<1>12. PICK all : all = middle \o answers
  OBVIOUS
<1>13. AcksTrue(all)
  <2>1. ASSUME NEW i \in DOMAIN all
        PROVE  \/ \E j \in DOMAIN middle : all[i] = middle[j]
               \/ \E j \in DOMAIN answers : all[i] = answers[j]
    BY <1>7, <1>11, <1>12, ConcatElements
  <2>. QED BY <1>7, <1>11, <2>1 DEF AcksTrue
<1>14. \A d \in Clients : down'[d] = all \/ down'[d] = down[d]
  BY <1>3, <1>8, <1>10, <1>12 DEF TypeOK
<1>15. \A d \in Clients : AcksTrue(down[d])'
  BY <1>1, <1>13, <1>14 DEF AcksTrue, Accounted
<1>. QED BY <1>1, <1>15, ReceivesKnown DEF Accounted, OutboxesOK, browser

\* A command is applied before it is acked.
LEMMA ExecuteAccounted ==
    ASSUME TypeOK, Accounted, NEW c \in Clients, Execute(c) PROVE Accounted'
<1>1. Receives(c, "command") /\ UNCHANGED browser
  BY DEF Execute
<1>2. PICK o \in Ops, n \in Nat :
        /\ acked' = IF o \in ResetOps THEN [p \in Ops |-> IF p = o THEN n ELSE 0]
                    ELSE [acked EXCEPT ![o] = n]
        /\ done' = done \cup {o}
        /\ Broadcast(<<Ack(o, n), Event(o, n)>>)
  <2>1. \A p \in Ops : Len(<<p>>) \in Nat /\ Len(Append(log, p)) \in Nat
    BY DEF TypeOK
  <2>. QED BY <2>1 DEF Execute
<1>3. \A p \in Ops : acked'[p] # 0 => p \in done'
  BY <1>2 DEF TypeOK, Accounted
<1>4. PICK envelopes : envelopes = <<Ack(o, n), Event(o, n)>>
  OBVIOUS
<1>5. envelopes \in Seq(Downward) /\ AcksTrue(envelopes)'
  <2>1. Ack(o, n) \in Downward /\ Event(o, n) \in Downward
    BY <1>2 DEF Ack, Event, Downward, Events
  <2>2. /\ envelopes \in Seq(Downward) /\ DOMAIN envelopes = {1, 2}
        /\ envelopes[1] = Ack(o, n) /\ envelopes[2] = Event(o, n)
    BY <1>4, <2>1
  <2>3. o \in done'
    BY <1>2
  <2>. QED BY <2>2, <2>3 DEF AcksTrue, Ack, Event
<1>6. \A d \in Clients : AcksTrue(down[d])'
  BY <1>2, <1>4, <1>5, BroadcastAcks
<1>. QED BY <1>1, <1>3, <1>6, ReceivesKnown DEF Accounted, OutboxesOK, browser

\* A command that is refused or ignored is not acked.
LEMMA RefuseAccounted ==
    ASSUME TypeOK, Accounted, NEW c \in Clients, Refuse(c) \/ IgnoreDuplicate(c)
    PROVE  Accounted'
<1>1. Receives(c, "command") /\ UNCHANGED <<server, browser>>
  BY DEF Refuse, IgnoreDuplicate
<1>2. PICK snapshot \in Downward : snapshot = Snapshot(log, FALSE, era)
  BY SnapshotType DEF TypeOK
<1>3. snapshot.kind = "sync_reset"
  BY <1>2 DEF Snapshot
<1>4. \A d \in Clients : down'[d] = down[d] \/ down'[d] = Append(down[d], snapshot)
  BY <1>2 DEF TypeOK, Refuse, IgnoreDuplicate
<1>5. \A d \in Clients : AcksTrue(down[d])'
  <2> SUFFICES ASSUME NEW d \in Clients, NEW i \in DOMAIN down'[d], down'[d][i].kind = "ack"
               PROVE  down'[d][i].op \in done
    BY <1>1 DEF AcksTrue, server
  <2>1. down[d] \in Seq(Downward) /\ AcksTrue(down[d])
    BY DEF TypeOK, Accounted
  <2>2. i \in DOMAIN down[d] /\ down'[d][i] = down[d][i]
    <3>1. PICK q \in Seq(Downward) : q = down[d]
      BY <2>1
    <3>2. CASE down'[d] = q
      BY <3>1, <3>2
    <3>3. CASE down'[d] = Append(q, snapshot)
      BY <1>3, <3>1, <3>3, AppendElements
    <3>. QED BY <1>4, <3>1, <3>2, <3>3
  <2>. QED BY <2>1, <2>2 DEF AcksTrue
<1>. QED BY <1>1, <1>5, ReceivesKnown DEF Accounted, OutboxesOK, server, browser

\* Nor does the server ack anything on its own; a restore only forgets.
LEMMA ServerAccounted ==
    ASSUME TypeOK, Accounted,
           \/ \E e \in Deltas : Emit(e)
           \/ \E n \in DOMAIN log : RestoreBackup(n)
    PROVE  Accounted'
<1>1. UNCHANGED <<done, browser, up>> /\ \A o \in Ops : acked'[o] # 0 => acked[o] # 0
  BY DEF TypeOK, Emit, RestoreBackup
<1>2. PICK envelopes : Broadcast(envelopes) /\ envelopes \in Seq(Downward)
                       /\ \A i \in DOMAIN envelopes : envelopes[i].kind # "ack"
  <2>1. ASSUME NEW e \in Deltas, Emit(e)
        PROVE  \E envelopes : Broadcast(envelopes) /\ envelopes \in Seq(Downward)
                       /\ \A i \in DOMAIN envelopes : envelopes[i].kind # "ack"
    <3>1. PICK event \in Downward : event = Event(e, Len(log) + 1)
      <4>1. e \in Events /\ Len(log) + 1 \in Nat
        BY DEF TypeOK, Events
      <4>. QED BY <4>1 DEF Event, Downward
    <3>2. event.kind = "event"
      BY <3>1 DEF Event
    <3>3. <<event>> \in Seq(Downward) /\ \A i \in DOMAIN <<event>> : <<event>>[i].kind # "ack"
      BY <3>2
    <3>4. Broadcast(<<event>>)
      BY <2>1, <3>1 DEF Emit
    <3>. QED BY <3>3, <3>4
  <2>2. ASSUME NEW n \in DOMAIN log, RestoreBackup(n)
        PROVE  \E envelopes : Broadcast(envelopes) /\ envelopes \in Seq(Downward)
                       /\ \A i \in DOMAIN envelopes : envelopes[i].kind # "ack"
    <3>1. PICK entries \in Seq(Events) : entries = log'
      <4>1. log \in Seq(Events) /\ log' = SubSeq(log, 1, n)
        BY <2>2 DEF TypeOK, RestoreBackup
      <4>2. SubSeq(log, 1, n) \in Seq(Events)
        BY <4>1
      <4>. QED BY <4>1, <4>2
    <3>2. PICK snapshot \in Downward : snapshot = Snapshot(entries, FALSE, era + 1)
      <4>1. era + 1 \in Nat
        BY DEF TypeOK
      <4>. QED BY <4>1, SnapshotType
    <3>3. snapshot.kind = "sync_reset"
      BY <3>2 DEF Snapshot
    <3>4. <<snapshot>> \in Seq(Downward) /\ \A i \in DOMAIN <<snapshot>> : <<snapshot>>[i].kind # "ack"
      BY <3>3
    <3>5. Broadcast(<<snapshot>>)
      BY <2>2, <3>1, <3>2 DEF RestoreBackup
    <3>. QED BY <3>4, <3>5
  <2>. QED BY <2>1, <2>2
<1>3. \A c \in Clients : AcksTrue(down[c])'
  <2>1. AcksTrue(envelopes)' /\ done' = done
    BY <1>1, <1>2 DEF AcksTrue
  <2>. QED BY <1>2, <2>1, BroadcastAcks
<1>. QED BY <1>1, <1>3 DEF Accounted, OutboxesOK, CommandsKnown, browser

\* What a frame confirms was applied and waited for its answer; what it drops waited.
LEMMA FlushAccounted ==
    ASSUME TypeOK, Accounted, NEW c \in Clients, NEW k \in DOMAIN down[c], Flush(c, k)
    PROVE  /\ Accounted'
           /\ Confirmed(c, k) \subseteq {o \in done : told[o] = "pending"}
           /\ Dropped(c, k) \subseteq {o \in Ops : told[o] = "pending"} \ Confirmed(c, k)
<1>1. /\ k \in 1..Len(down[c]) /\ down[c] \in Seq(Downward) /\ outbox[c] \in Seq(Ops)
      /\ OutboxesOK /\ AcksTrue(down[c])
  BY DEF TypeOK, Accounted
<1>2. /\ ToSet(outbox[c]) \subseteq Ops
      /\ \A o \in ToSet(outbox[c]) : told[o] = "pending"
  BY <1>1 DEF ToSet, OutboxesOK
<1>3. \A i \in Envelopes(c, k, "ack") : down[c][i].op \in done
  BY <1>1 DEF Envelopes, AcksTrue
<1>4. PICK S : S = Confirmed(c, k)
  OBVIOUS
<1>5. PICK T : T = Dropped(c, k)
  OBVIOUS
<1>6. S \subseteq ToSet(outbox[c]) /\ S \subseteq done
  BY <1>3, <1>4 DEF Confirmed
<1>7. T \subseteq ToSet(outbox[c]) \ S
  BY <1>4, <1>5 DEF Dropped
<1>8. PICK left : left = Among(outbox[c], Ops \ (S \cup T))
  OBVIOUS
<1>9. left \in Seq(Ops) /\ ToSet(left) = ToSet(outbox[c]) \cap (Ops \ (S \cup T))
  BY <1>1, <1>8, AmongElements
<1>10. /\ outbox' = [outbox EXCEPT ![c] = left]
       /\ told' = [o \in Ops |-> IF o \in S THEN "confirmed"
                                 ELSE IF o \in T THEN "dropped" ELSE told[o]]
       /\ down' = [down EXCEPT ![c] = SubSeq(@, k + 1, Len(@))]
       /\ UNCHANGED server
  BY <1>4, <1>5, <1>8 DEF Flush
<1>11. \A d \in Clients : outbox'[d] = IF d = c THEN left ELSE outbox[d]
  BY <1>10 DEF TypeOK
<1>12. OutboxesOK'
  <2>1. ASSUME NEW d \in Clients, NEW o \in ToSet(outbox'[d])
        PROVE  o \in ToSet(outbox[d]) /\ o \in Ops /\ o \notin S \cup T
    <3>1. CASE d = c
      BY <1>2, <1>9, <1>11, <2>1, <3>1
    <3>2. CASE d # c
      <4>1. outbox[d] \in Seq(Ops) /\ outbox'[d] = outbox[d]
        BY <1>11, <3>2 DEF TypeOK
      <4>2. o \in ToSet(outbox[d]) /\ o \in Ops
        BY <2>1, <4>1 DEF ToSet
      <4>3. o \notin ToSet(outbox[c])
        BY <1>1, <3>2, <4>2 DEF OutboxesOK
      <4>. QED BY <1>6, <1>7, <4>2, <4>3
    <3>. QED BY <3>1, <3>2
  <2>2. \A d \in Clients : \A o \in ToSet(outbox'[d]) : told'[o] = "pending"
    BY <1>1, <1>10, <2>1 DEF OutboxesOK
  <2>3. \A d, e \in Clients : \A o \in ToSet(outbox'[d]) : o \in ToSet(outbox'[e]) => d = e
    BY <1>1, <2>1 DEF OutboxesOK
  <2>4. ASSUME NEW d PROVE ToSet(outbox[d])' = ToSet(outbox'[d])
    BY DEF ToSet
  <2>. QED BY <2>2, <2>3, <2>4 DEF OutboxesOK
<1>13. \A d \in Clients : AcksTrue(down[d])'
  <2>1. \A i \in DOMAIN SubSeq(down[c], k + 1, Len(down[c])) :
           k + i \in DOMAIN down[c]
           /\ SubSeq(down[c], k + 1, Len(down[c]))[i] = down[c][k + i]
    <3>1. PICK q \in Seq(Downward) : q = down[c]
      BY <1>1
    <3>2. k \in 0..Len(q)
      BY <1>1, <3>1
    <3>3. \A i \in DOMAIN SubSeq(q, k + 1, Len(q)) :
             k + i \in DOMAIN q /\ SubSeq(q, k + 1, Len(q))[i] = q[k + i]
      BY <3>2, RestElements
    <3>. QED BY <3>1, <3>3
  <2>2. ASSUME NEW d \in Clients PROVE AcksTrue(down[d])'
    <3>1. CASE d = c
      <4>1. down'[d] = SubSeq(down[c], k + 1, Len(down[c])) /\ done' = done
        BY <1>10, <3>1 DEF TypeOK, server
      <4>. QED BY <1>1, <2>1, <4>1 DEF AcksTrue
    <3>2. CASE d # c
      <4>1. down'[d] = down[d] /\ done' = done /\ AcksTrue(down[d])
        BY <1>10, <3>2 DEF TypeOK, server, Accounted
      <4>. QED BY <4>1 DEF AcksTrue
    <3>. QED BY <3>1, <3>2
  <2>. QED BY <2>2
<1>14. \A o \in Ops : told'[o] = "unused" => told[o] = "unused"
  BY <1>10
<1>15. \A d \in Clients : CommandsKnown(up[d])'
  <2>1. PICK resent : resent = Resent(c, k)
    OBVIOUS
  <2>2. resent \in Seq(Ops) /\ ToSet(resent) \subseteq ToSet(outbox[c])
    BY <2>1, ResentType
  <2>3. PICK commands : commands = [i \in DOMAIN resent |-> Command(resent[i], TRUE)]
    OBVIOUS
  <2>4. /\ DOMAIN resent = 1..Len(resent) /\ Len(resent) \in Nat
        /\ \A i \in DOMAIN resent : resent[i] \in Ops /\ told[resent[i]] = "pending"
    <3>1. \A i \in DOMAIN resent : resent[i] \in ToSet(outbox[c])
      BY <2>2 DEF ToSet
    <3>2. DOMAIN resent = 1..Len(resent) /\ Len(resent) \in Nat
      BY <2>2
    <3>3. \A i \in DOMAIN resent : resent[i] \in Ops
      BY <2>2
    <3>. QED BY <1>2, <3>1, <3>2, <3>3
  <2>5. \A i \in DOMAIN resent : commands[i] \in Upward /\ commands[i].op = resent[i]
    BY <2>3, <2>4 DEF Command, Upward
  <2>6. commands \in Seq(Upward) /\ DOMAIN commands = DOMAIN resent
    <3>1. commands = [i \in 1..Len(resent) |-> commands[i]]
      BY <2>3, <2>4
    <3>. QED BY <2>4, <2>5, <3>1
  <2>7. up' = [up EXCEPT ![c] = up[c] \o commands]
    BY <2>1, <2>3 DEF Flush
  <2>8. ASSUME NEW d \in Clients, NEW i \in DOMAIN up'[d], up'[d][i].kind = "command"
        PROVE  told'[up'[d][i].op] # "unused"
    <3>1. up[d] \in Seq(Upward) /\ CommandsKnown(up[d])
      BY DEF TypeOK, Accounted
    <3>2. CASE d = c
      <4>1. up'[d] = up[d] \o commands
        BY <2>7, <3>2 DEF TypeOK
      <4>2. CASE \E j \in DOMAIN up[d] : up'[d][i] = up[d][j]
        <5>1. PICK j \in DOMAIN up[d] : up'[d][i] = up[d][j]
          BY <4>2
        <5>2. up[d][j].op \in Ops /\ told[up[d][j].op] # "unused"
          BY <2>8, <3>1, <5>1 DEF CommandsKnown, Upward
        <5>. QED BY <1>14, <5>1, <5>2
      <4>3. CASE \E j \in DOMAIN commands : up'[d][i] = commands[j]
        <5>1. PICK j \in DOMAIN commands : up'[d][i] = commands[j]
          BY <4>3
        <5>2. up'[d][i].op \in Ops /\ told[up'[d][i].op] = "pending"
          BY <2>4, <2>5, <2>6, <5>1
        <5>. QED BY <1>14, <5>2
      <4>. QED BY <2>6, <2>8, <3>1, <4>1, <4>2, <4>3, ConcatElements
    <3>3. CASE d # c
      <4>1. up'[d] = up[d]
        BY <2>7, <3>3 DEF TypeOK
      <4>2. up[d][i].op \in Ops /\ told[up[d][i].op] # "unused"
        BY <2>8, <3>1, <4>1 DEF CommandsKnown, Upward
      <4>. QED BY <1>14, <4>1, <4>2
    <3>. QED BY <3>2, <3>3
  <2>. QED BY <2>8 DEF CommandsKnown
<1>16. Accounted'
  BY <1>10, <1>12, <1>13, <1>15 DEF Accounted, server
<1>17. S \subseteq {o \in done : told[o] = "pending"} /\ T \subseteq {o \in Ops : told[o] = "pending"} \ S
  BY <1>2, <1>6, <1>7
<1>. QED BY <1>4, <1>5, <1>16, <1>17

\* A lost socket and a reload take nothing from the outbox, and invent no ack.
LEMMA LostAccounted ==
    ASSUME TypeOK, Accounted, NEW c \in Clients, NEW j \in 0..Len(up[c]),
           Reload(c, j) \/ \E k \in 0..Len(down[c]) : Lose(c, j, k)
    PROVE  Accounted'
<1>1. /\ UNCHANGED <<server, outbox, told>>
      /\ up' = [up EXCEPT ![c] = Received(c, j)]
  BY DEF Reload, Lose, browser
<1>2. \A d \in Clients : CommandsKnown(up[d])'
  <2> SUFFICES ASSUME NEW d \in Clients, NEW i \in DOMAIN up'[d], up'[d][i].kind = "command"
               PROVE  told[up'[d][i].op] # "unused"
    BY <1>1 DEF CommandsKnown
  <2>1. up[d] \in Seq(Upward) /\ CommandsKnown(up[d]) /\ j \in 0..Len(up[c])
    BY DEF TypeOK, Accounted
  <2>2. CASE d = c
    <3>1. up'[d] = Received(c, j)
      BY <1>1, <2>2 DEF TypeOK
    <3>2. i \in 1..j /\ up'[d][i] = [up[c][i] EXCEPT !.live = FALSE]
      BY <3>1 DEF Received
    <3>3. PICK e \in Upward : e = up[c][i] /\ i \in DOMAIN up[c]
      BY <2>1, <2>2, <3>2
    <3>4. PICK f : f = [e EXCEPT !.live = FALSE]
      OBVIOUS
    <3>5. up'[d][i] = f
      BY <3>2, <3>3, <3>4
    <3>6. f.kind = e.kind /\ (e.kind = "command" => f.op = e.op)
      BY <3>3, <3>4 DEF Upward
    <3>7. f.kind = "command"
      BY <3>5
    <3>. QED BY <2>1, <2>2, <3>3, <3>5, <3>6, <3>7 DEF CommandsKnown
  <2>3. CASE d # c
    BY <1>1, <2>1, <2>3 DEF TypeOK, CommandsKnown
  <2>. QED BY <2>2, <2>3
<1>3. \A d \in Clients : AcksTrue(down[d])'
  <2>1. CASE Reload(c, j)
    <3>1. \A d \in Clients : down'[d] = IF d = c THEN <<>> ELSE down[d]
      BY <2>1 DEF Reload, TypeOK
    <3>2. \A d \in Clients : AcksTrue(down[d])
      BY DEF Accounted
    <3>. QED BY <1>1, <3>1, <3>2 DEF AcksTrue, server
  <2>2. ASSUME NEW k \in 0..Len(down[c]), Lose(c, j, k)
        PROVE  \A d \in Clients : AcksTrue(down[d])'
    <3> SUFFICES ASSUME NEW d \in Clients, NEW i \in DOMAIN down'[d], down'[d][i].kind = "ack"
                 PROVE  down'[d][i].op \in done
      BY <1>1 DEF AcksTrue, server
    <3>1. PICK cut \in BOOLEAN :
            down' = [down EXCEPT ![c] = [n \in 1..k |->
              IF cut /\ down[c][n].kind = "sync_reset" THEN [down[c][n] EXCEPT !.era = 0]
              ELSE down[c][n]]]
      BY <2>2 DEF Lose, Overtaken
    <3>2. down[d] \in Seq(Downward) /\ AcksTrue(down[d])
      BY DEF TypeOK, Accounted
    <3>3. CASE d = c
      <4>1. /\ i \in 1..k
            /\ down'[d][i] = IF cut /\ down[c][i].kind = "sync_reset"
                             THEN [down[c][i] EXCEPT !.era = 0] ELSE down[c][i]
        BY <3>1, <3>3 DEF TypeOK
      <4>2. PICK e \in Downward : e = down[c][i] /\ i \in DOMAIN down[c]
        BY <3>2, <3>3, <4>1
      <4>3. CASE e.kind = "sync_reset" /\ cut
        <5>1. PICK f : f = [e EXCEPT !.era = 0]
          OBVIOUS
        <5>2. down'[d][i] = f
          BY <4>1, <4>2, <4>3, <5>1
        <5>3. f.kind = "sync_reset"
          BY <4>2, <4>3, <5>1 DEF Downward
        <5>4. f.kind = "ack"
          BY <5>2
        <5>. QED BY <5>3, <5>4
      <4>4. CASE ~(e.kind = "sync_reset" /\ cut)
        BY <3>2, <3>3, <4>1, <4>2, <4>4 DEF AcksTrue
      <4>. QED BY <4>3, <4>4
    <3>4. CASE d # c
      BY <3>1, <3>2, <3>4 DEF TypeOK, AcksTrue
    <3>. QED BY <3>3, <3>4
  <2>. QED BY <2>1, <2>2
<1>. QED BY <1>1, <1>2, <1>3 DEF Accounted, OutboxesOK, server

\* What goes up was dispatched.
LEMMA SendAccounted ==
    ASSUME TypeOK, Accounted, NEW c \in Clients, Connect(c) \/ \E o \in Ops : Dispatch(c, o)
    PROVE  Accounted'
<1>1. UNCHANGED <<server, down>>
  BY DEF Connect, Dispatch
<1>2. \A d \in Clients : AcksTrue(down[d])'
  BY <1>1 DEF Accounted, AcksTrue, server
<1>3. CASE Connect(c)
  <2>1. UNCHANGED <<outbox, told>> /\ up' = [up EXCEPT ![c] = Append(@, Hello(c))]
    BY <1>3 DEF Connect, browser
  <2>2. PICK hello : hello = Hello(c)
    OBVIOUS
  <2>3. hello.kind = "hello"
    BY <2>2 DEF Hello
  <2>4. ASSUME NEW d \in Clients, NEW i \in DOMAIN up'[d], up'[d][i].kind = "command"
        PROVE  told[up'[d][i].op] # "unused"
    <3>1. up[d] \in Seq(Upward) /\ CommandsKnown(up[d])
      BY DEF TypeOK, Accounted
    <3>2. up'[d] = up[d] \/ up'[d] = Append(up[d], hello)
      BY <2>1, <2>2 DEF TypeOK
    <3>3. i \in DOMAIN up[d] /\ up'[d][i] = up[d][i]
      BY <2>3, <2>4, <3>1, <3>2
    <3>. QED BY <2>4, <3>1, <3>3 DEF CommandsKnown
  <2>. QED BY <1>1, <1>2, <2>1, <2>4 DEF Accounted, OutboxesOK, CommandsKnown, server
<1>4. ASSUME NEW o \in Ops, Dispatch(c, o) PROVE Accounted'
  <2>1. /\ told[o] = "unused" /\ told' = [told EXCEPT ![o] = "pending"]
        /\ outbox' = [outbox EXCEPT ![c] = Append(@, o)]
        /\ up' = IF c \in link THEN [up EXCEPT ![c] = Append(@, Command(o, TRUE))] ELSE up
    BY <1>4 DEF Dispatch
  <2>2. \A p \in Ops : told'[p] = IF p = o THEN "pending" ELSE told[p]
    BY <2>1 DEF TypeOK
  <2>3. \A d \in Clients : ToSet(outbox'[d]) = IF d = c THEN ToSet(outbox[d]) \cup {o} ELSE ToSet(outbox[d])
    <3> SUFFICES ASSUME NEW d \in Clients
                 PROVE  ToSet(outbox'[d]) = IF d = c THEN ToSet(outbox[d]) \cup {o} ELSE ToSet(outbox[d])
      OBVIOUS
    <3>1. outbox[d] \in Seq(Ops)
      BY DEF TypeOK
    <3>2. CASE d = c
      <4>1. outbox'[d] = Append(outbox[d], o)
        BY <2>1, <3>2 DEF TypeOK
      <4>2. /\ DOMAIN outbox'[d] = DOMAIN outbox[d] \cup {Len(outbox[d]) + 1}
            /\ outbox'[d][Len(outbox[d]) + 1] = o
            /\ \A i \in DOMAIN outbox[d] : outbox'[d][i] = outbox[d][i]
        BY <3>1, <4>1
      <4>. QED BY <3>2, <4>2 DEF ToSet
    <3>3. CASE d # c
      BY <2>1, <3>3 DEF TypeOK
    <3>. QED BY <3>2, <3>3
  <2>4. \A d \in Clients : ToSet(outbox[d]) \subseteq Ops \ {o}
    <3> SUFFICES ASSUME NEW d \in Clients PROVE ToSet(outbox[d]) \subseteq Ops \ {o}
      OBVIOUS
    <3>1. outbox[d] \in Seq(Ops) /\ \A p \in ToSet(outbox[d]) : told[p] = "pending"
      BY DEF TypeOK, Accounted, OutboxesOK
    <3>2. ToSet(outbox[d]) \subseteq Ops
      BY <3>1 DEF ToSet
    <3>3. told[o] = "unused" /\ "unused" # "pending"
      BY <2>1
    <3>4. PICK waiting : waiting = ToSet(outbox[d])
      OBVIOUS
    <3>5. waiting \subseteq Ops \ {o}
      BY <3>1, <3>2, <3>3, <3>4, Zenon
    <3>. QED BY <3>4, <3>5, Zenon
  <2>5. OutboxesOK'
    <3>1. OutboxesOK
      BY DEF Accounted
    <3>2. ASSUME NEW d \in Clients, NEW p \in ToSet(outbox'[d])
          PROVE  \/ p = o /\ d = c
                 \/ p \in Ops /\ p # o /\ p \in ToSet(outbox[d]) /\ told[p] = "pending"
      <4>1. p \in ToSet(outbox[d]) \/ (p = o /\ d = c)
        BY <2>3, <3>2
      <4>2. p \in ToSet(outbox[d]) => p \in Ops /\ p # o /\ told[p] = "pending"
        BY <2>4, <3>1 DEF OutboxesOK
      <4>. QED BY <4>1, <4>2
    <3>3. \A d \in Clients : \A p \in ToSet(outbox'[d]) : told'[p] = "pending"
      BY <2>2, <3>2
    <3>5. \A d, e \in Clients : \A p \in ToSet(outbox'[d]) : p \in ToSet(outbox'[e]) => d = e
      BY <3>1, <3>2 DEF OutboxesOK
    <3>4. ASSUME NEW d PROVE ToSet(outbox[d])' = ToSet(outbox'[d])
      BY DEF ToSet
    <3>. QED BY <3>3, <3>4, <3>5 DEF OutboxesOK
  <2>6. PICK command : command = Command(o, TRUE)
    OBVIOUS
  <2>7. command.op = o
    BY <2>6 DEF Command
  <2>8. ASSUME NEW d \in Clients, NEW i \in DOMAIN up'[d], up'[d][i].kind = "command"
        PROVE  told'[up'[d][i].op] # "unused"
    <3>1. up[d] \in Seq(Upward) /\ CommandsKnown(up[d])
      BY DEF TypeOK, Accounted
    <3>2. up'[d] = up[d] \/ up'[d] = Append(up[d], command)
      BY <2>1, <2>6 DEF TypeOK
    <3>3. CASE i \in DOMAIN up[d] /\ up'[d][i] = up[d][i]
      <4>1. up[d][i].op \in Ops /\ told[up[d][i].op] # "unused"
        BY <2>8, <3>1, <3>3 DEF CommandsKnown, Upward
      <4>. QED BY <2>2, <3>3, <4>1
    <3>4. CASE up'[d][i] = command
      BY <2>2, <2>7, <3>4
    <3>. QED BY <3>1, <3>2, <3>3, <3>4
  <2>. QED BY <1>1, <1>2, <2>5, <2>8 DEF Accounted, CommandsKnown, server
<1>. QED BY <1>3, <1>4

\* Every step keeps the account of operations.
LEMMA AccountedStep == TypeOK /\ Accounted /\ [Next]_vars => Accounted'
<1> SUFFICES ASSUME TypeOK, Accounted, [Next]_vars PROVE Accounted'
  OBVIOUS
<1>1. ASSUME NEW c \in Clients, Serve(c) PROVE Accounted'
  BY <1>1, HelloAccounted, ExecuteAccounted, RefuseAccounted DEF Serve
<1>2. ASSUME NEW c \in Clients, Frame(c) PROVE Accounted'
  BY <1>2, FlushAccounted DEF Frame
<1>3. ASSUME NEW c \in Clients, NEW j \in 0..Len(up[c]),
             Reload(c, j) \/ \E k \in 0..Len(down[c]) : Lose(c, j, k)
      PROVE  Accounted'
  BY <1>3, LostAccounted
<1>4. CASE UNCHANGED vars
  BY <1>4 DEF vars, server, browser, Accounted, OutboxesOK, CommandsKnown, AcksTrue
<1>. QED BY <1>1, <1>2, <1>3, <1>4, SendAccounted, ServerAccounted DEF Next

\* So it holds in every state.
LEMMA AccountedHolds == Spec => []Accounted
<1>1. Init => Accounted
  BY DEF Init, Accounted, OutboxesOK, CommandsKnown, AcksTrue, ToSet
<1>. QED BY <1>1, AccountedStep, TypesHold, PTL DEF Spec

\* Every step is a step of OperationLog, or none: an executed command applies or empties,
\* a restore restores, a frame settles, a dispatch submits.
LEMMA PromiseStep == TypeOK /\ Accounted /\ [Next]_vars => [Promise!Next]_(Promise!vars)
<1> SUFFICES ASSUME TypeOK, Accounted, [Next]_vars PROVE Promise!Next \/ UNCHANGED Promise!vars
  OBVIOUS
<1> DEFINE journal == {o \in Ops : acked[o] # 0}
<1>1. ASSUME UNCHANGED <<acked, told, done>> PROVE UNCHANGED Promise!vars
  BY <1>1 DEF Promise!vars
<1>2. ASSUME NEW c \in Clients, Execute(c) PROVE Promise!Next
  <2>1. PICK o \in Ops, n \in Nat \ {0} :
        /\ o = Head(up[c]).op /\ Fresh(o) /\ Receives(c, "command")
        /\ acked' = IF o \in ResetOps THEN [p \in Ops |-> IF p = o THEN n ELSE 0]
                    ELSE [acked EXCEPT ![o] = n]
        /\ done' = done \cup {o} /\ told' = told
    <3>1. \A p \in Ops : Len(<<p>>) \in Nat \ {0} /\ Len(Append(log, p)) \in Nat \ {0}
      BY DEF TypeOK
    <3>. QED BY <1>2, <3>1 DEF Execute, browser
  <2>2. told[o] # "unused" /\ o \notin journal
    BY <2>1, ReceivesKnown DEF Fresh
  <2>3. CASE o \in ResetOps
    <3>1. journal' = {o}
      BY <2>1, <2>3 DEF TypeOK
    <3>2. Promise!Empty(o)
      BY <2>1, <2>2, <3>1 DEF Promise!Empty
    <3>. QED BY <3>2 DEF Promise!Next
  <2>4. CASE o \notin ResetOps
    <3>1. journal' = journal \cup {o}
      BY <2>1, <2>4 DEF TypeOK
    <3>2. Promise!Apply(o)
      BY <2>1, <2>2, <3>1 DEF Promise!Apply
    <3>. QED BY <3>2 DEF Promise!Next
  <2>. QED BY <2>3, <2>4
<1>3. ASSUME NEW n \in DOMAIN log, RestoreBackup(n) PROVE Promise!Next
  <2>1. /\ UNCHANGED <<told, done>>
        /\ \A o \in Ops : acked'[o] # 0 => acked[o] # 0
    BY <1>3 DEF RestoreBackup, TypeOK, browser
  <2>2. PICK kept : kept = journal'
    OBVIOUS
  <2>3. kept \subseteq done /\ kept \in SUBSET Ops
    BY <2>1, <2>2 DEF Accounted
  <2>4. Promise!Restore(kept)
    BY <2>1, <2>2, <2>3 DEF Promise!Restore
  <2>. QED BY <2>3, <2>4 DEF Promise!Next
<1>4. ASSUME NEW c \in Clients, NEW k \in DOMAIN down[c], Flush(c, k) PROVE Promise!Next
  <2>1. PICK S : S = Confirmed(c, k)
    OBVIOUS
  <2>2. PICK T : T = Dropped(c, k)
    OBVIOUS
  <2>3. S \subseteq {o \in done : told[o] = "pending"} /\ T \subseteq {o \in Ops : told[o] = "pending"} \ S
    BY <1>4, <2>1, <2>2, FlushAccounted
  <2>4. /\ told' = [o \in Ops |-> IF o \in S THEN "confirmed" ELSE IF o \in T THEN "dropped" ELSE told[o]]
        /\ UNCHANGED <<acked, done>>
    BY <1>4, <2>1, <2>2 DEF Flush, server
  <2>5. S \in SUBSET Ops /\ T \in SUBSET Ops
    BY <2>3 DEF TypeOK
  <2>6. Promise!Settle(S, T)
    BY <2>3, <2>4 DEF Promise!Settle
  <2>. QED BY <2>5, <2>6 DEF Promise!Next
<1>5. ASSUME NEW c \in Clients, NEW o \in Ops, Dispatch(c, o) PROVE Promise!Next
  <2>1. Promise!Submit(o)
    BY <1>5 DEF Dispatch, server, Promise!Submit
  <2>. QED BY <2>1 DEF Promise!Next
<1>6. ASSUME NEW c \in Clients, HandleHello(c) \/ IgnoreDuplicate(c) \/ Refuse(c) \/ Connect(c)
      PROVE  UNCHANGED <<acked, told, done>>
  BY <1>6 DEF HandleHello, IgnoreDuplicate, Refuse, Connect, server, browser
<1>7. ASSUME NEW c \in Clients, NEW j \in 0..Len(up[c]),
             Reload(c, j) \/ \E k \in 0..Len(down[c]) : Lose(c, j, k)
      PROVE  UNCHANGED <<acked, told, done>>
  BY <1>7 DEF Reload, Lose, server, browser
<1>8. ASSUME NEW e \in Deltas, Emit(e) PROVE UNCHANGED <<acked, told, done>>
  BY <1>8 DEF Emit, browser
<1>9. CASE UNCHANGED vars
  BY <1>1, <1>9 DEF vars, server, browser
<1>. QED BY <1>1, <1>2, <1>3, <1>4, <1>5, <1>6, <1>7, <1>8, <1>9 DEF Next, Serve, Frame

\* The protocol implements OperationLog: an operation is submitted once, applied once
\* while the journal has it, and settled once, and what is confirmed was applied
\* (ImplementsOperationLog).
THEOREM LogImplemented == Spec => ImplementsOperationLog
<1>1. Init => Promise!Init
  BY DEF Init, Promise!Init
<1>. QED BY <1>1, PromiseStep, TypesHold, AccountedHolds, PTL DEF Spec, ImplementsOperationLog, Promise!Spec

-------------------------------------------------------------------------------
(***************************************************************************)
(* Why a browser that follows the log comes to show it, for any browsers,   *)
(* operations, lost sockets, reloads and restored backups.                  *)
(*                                                                          *)
(* What a browser will show is settled by what it shows and what is under   *)
(* way to it.  A view is the rows, the place in the log and the era after   *)
(* some envelopes have been drawn.  Following, the invariant, says of the   *)
(* views of every browser that                                              *)
(*   - on the way eras only grow, and in the present era no row and no      *)
(*     place is beyond the log (Stream);                                    *)
(*   - when all is drawn in the present era, the log is complete, or a      *)
(*     hello still on its way up names a place up to which it is (Kept);    *)
(*   - without a socket, no view on the way has a place past a row that is  *)
(*     missing at the end: whichever the next hello names, the server's     *)
(*     replay fills the rest (Kept, its last clause);                       *)
(*   - the cache does not tell of more than the log (CachedAt).             *)
(***************************************************************************)

(* What a batch of envelopes comes to: the operators of the protocol on any   *)
(* sequence of envelopes and any start.                                       *)

\* The positions of one kind among the first k.
Of(q, k, kind) == {i \in 1..k : q[i].kind = kind}

\* The rows after k envelopes, as in ShownAfter.
RowsOf(q, k, rows) ==
    LET resets == Of(q, k, "sync_reset")
        from   == IF resets = {} THEN 0 ELSE Max(resets)
    IN  (IF resets = {} THEN rows ELSE q[from].rows) \cup
        {q[i].event : i \in {j \in Of(q, k, "event") : j > from}}

\* The cursor, as in CursorAfter.
PlaceOf(q, k, at) ==
    LET moves == Of(q, k, "sync_reset") \cup Of(q, k, "event")
        from  == IF moves = {} THEN 0 ELSE Max(moves)
        base  == IF from = 0 THEN at ELSE q[from].seq
    IN  Max({base} \cup {q[i].seq : i \in {j \in Of(q, k, "ack") : j > from}})

\* The era, as in SnapshotEra.
EraOf(q, k, n) ==
    LET resets == Of(q, k, "sync_reset")
    IN  IF resets = {} THEN n ELSE q[Max(resets)].era

\* What a browser has drawn.
Views == [rows : SUBSET Events, at : Nat, era : Nat]

\* What k envelopes make of the view b.
View(q, k, b) ==
    [rows |-> RowsOf(q, k, b.rows), at |-> PlaceOf(q, k, b.at), era |-> EraOf(q, k, b.era)]

\* What one envelope makes of a view.
Drawn(b, e) ==
    [rows |-> IF e.kind = "sync_reset" THEN e.rows
              ELSE IF e.kind = "event" THEN b.rows \cup {e.event} ELSE b.rows,
     at   |-> IF e.kind = "sync_reset" \/ e.kind = "event" THEN e.seq
              ELSE IF e.kind = "ack" /\ e.seq > b.at THEN e.seq ELSE b.at,
     era  |-> IF e.kind = "sync_reset" THEN e.era ELSE b.era]

\* A position joins those of its kind.
LEMMA OfMore ==
    ASSUME NEW q, NEW k \in Nat, NEW kind, q[k + 1].kind = kind
    PROVE  Of(q, k + 1, kind) = Of(q, k, kind) \cup {k + 1}
<1>1. \A i : i \in 1..(k + 1) <=> i \in 1..k \/ i = k + 1
  OBVIOUS
<1>. QED BY <1>1 DEF Of

\* And no others.
LEMMA OfSame ==
    ASSUME NEW q, NEW k \in Nat, NEW kind, q[k + 1].kind # kind
    PROVE  Of(q, k + 1, kind) = Of(q, k, kind)
<1>1. \A i : i \in 1..(k + 1) <=> i \in 1..k \/ i = k + 1
  OBVIOUS
<1>. QED BY <1>1 DEF Of

\* The newest position is the last.
LEMMA LastIsNew ==
    ASSUME NEW k \in Nat, NEW S, S \subseteq 1..k
    PROVE  Max(S \cup {k + 1}) = k + 1
<1>1. S \cup {k + 1} \subseteq 1..(k + 1) /\ S \cup {k + 1} # {} /\ k + 1 \in Nat
  OBVIOUS
<1>2. Max(S \cup {k + 1}) \in S \cup {k + 1} /\ \A i \in S \cup {k + 1} : i <= Max(S \cup {k + 1})
  BY <1>1, LastPosition
<1>3. PICK m : m = Max(S \cup {k + 1})
  OBVIOUS
<1>4. m \in 1..(k + 1) /\ k + 1 <= m
  BY <1>1, <1>2, <1>3
<1>. QED BY <1>3, <1>4

\* The largest of one number.
LEMMA MaxOfOne == ASSUME NEW n \in Nat PROVE Max({n}) = n
<1>1. {n} \subseteq Nat /\ {n} # {} /\ \A x \in {n} : x <= n
  OBVIOUS
<1>2. Max({n}) \in {n}
  BY <1>1, MaxIsLargest
<1>. QED BY <1>2

\* The largest of the acks is a number, and another ack is larger or not.
LEMMA MaxOfMore ==
    ASSUME NEW S, S \subseteq Nat, S # {}, NEW b \in Nat, \A x \in S : x <= b, NEW n \in Nat
    PROVE  /\ Max(S) \in Nat
           /\ Max(S \cup {n}) = IF n > Max(S) THEN n ELSE Max(S)
<1>1. Max(S) \in S /\ \A x \in S : x <= Max(S)
  BY MaxIsLargest
<1>2. PICK m \in Nat : m = Max(S) /\ m \in S /\ \A x \in S : x <= m
  BY <1>1
<1>3. PICK t \in Nat : t >= b /\ t >= n
  OBVIOUS
<1>4. PICK T : T = S \cup {n}
  OBVIOUS
<1>5. T \subseteq Nat /\ T # {} /\ \A x \in T : x <= t
  BY <1>3, <1>4
<1>6. Max(T) \in T /\ \A x \in T : x <= Max(T)
  BY <1>5, MaxIsLargest
<1>7. PICK l \in Nat : l = Max(T) /\ l \in T /\ \A x \in T : x <= l
  BY <1>5, <1>6
<1>8. l = IF n > m THEN n ELSE m
  BY <1>2, <1>4, <1>7
<1>. QED BY <1>2, <1>4, <1>7, <1>8

\* The rows that k + 1 envelopes leave, from those that k leave.
LEMMA RowsNext ==
    ASSUME NEW q, NEW k \in Nat, NEW rows
    PROVE  RowsOf(q, k + 1, rows) =
              IF q[k + 1].kind = "sync_reset" THEN q[k + 1].rows
              ELSE IF q[k + 1].kind = "event" THEN RowsOf(q, k, rows) \cup {q[k + 1].event}
              ELSE RowsOf(q, k, rows)
<1>1. PICK e : e = q[k + 1]
  OBVIOUS
<1>2. PICK R : R = Of(q, k, "sync_reset")
  OBVIOUS
<1>3. PICK from : from = IF R = {} THEN 0 ELSE Max(R)
  OBVIOUS
<1>4. R \subseteq 1..k /\ Of(q, k, "event") \subseteq 1..k
  BY <1>2 DEF Of
<1>5. from \in 0..k
  <2>1. R # {} => Max(R) \in R
    BY <1>4, LastPosition
  <2>. QED BY <1>3, <1>4, <2>1
<1>6. RowsOf(q, k, rows) = (IF R = {} THEN rows ELSE q[from].rows) \cup
                    {q[i].event : i \in {j \in Of(q, k, "event") : j > from}}
  BY <1>2, <1>3 DEF RowsOf
<1>7. CASE e.kind = "sync_reset"
  <2>1. Of(q, k + 1, "sync_reset") = R \cup {k + 1} /\ Of(q, k + 1, "event") = Of(q, k, "event")
    BY <1>1, <1>2, <1>7, OfMore, OfSame, ZenonT(30)
  <2>2. Max(Of(q, k + 1, "sync_reset")) = k + 1 /\ Of(q, k + 1, "sync_reset") # {}
    BY <1>4, <2>1, LastIsNew
  <2>3. {j \in Of(q, k, "event") : j > k + 1} = {}
    BY <1>4
  <2>4. RowsOf(q, k + 1, rows) = e.rows \cup {q[i].event : i \in {}}
    BY <1>1, <2>1, <2>2, <2>3 DEF RowsOf
  <2>. QED BY <1>1, <1>7, <2>4
<1>8. CASE e.kind = "event"
  <2>1. Of(q, k + 1, "sync_reset") = R /\ Of(q, k + 1, "event") = Of(q, k, "event") \cup {k + 1}
    BY <1>1, <1>2, <1>8, OfMore, OfSame, ZenonT(30)
  <2>2. {j \in Of(q, k, "event") \cup {k + 1} : j > from} = {j \in Of(q, k, "event") : j > from} \cup {k + 1}
    BY <1>5
  <2>3. RowsOf(q, k + 1, rows) = (IF R = {} THEN rows ELSE q[from].rows) \cup
              {q[i].event : i \in {j \in Of(q, k, "event") : j > from} \cup {k + 1}}
    BY <1>3, <2>1, <2>2 DEF RowsOf
  <2>. QED BY <1>1, <1>6, <1>8, <2>3
<1>9. CASE e.kind # "sync_reset" /\ e.kind # "event"
  <2>1. Of(q, k + 1, "sync_reset") = R /\ Of(q, k + 1, "event") = Of(q, k, "event")
    BY <1>1, <1>2, <1>9, OfMore, OfSame
  <2>2. RowsOf(q, k + 1, rows) = RowsOf(q, k, rows)
    BY <1>2, <2>1 DEF RowsOf
  <2>. QED BY <1>1, <1>9, <2>2
<1>. QED BY <1>7, <1>8, <1>9

\* The era likewise.
LEMMA EraNext ==
    ASSUME NEW q, NEW k \in Nat, NEW n
    PROVE  EraOf(q, k + 1, n) = IF q[k + 1].kind = "sync_reset" THEN q[k + 1].era
                                ELSE EraOf(q, k, n)
<1>1. Of(q, k, "sync_reset") \subseteq 1..k
  BY DEF Of
<1>2. CASE q[k + 1].kind = "sync_reset"
  <2>1. Of(q, k + 1, "sync_reset") = Of(q, k, "sync_reset") \cup {k + 1}
    BY <1>2, OfMore, OfSame
  <2>2. Max(Of(q, k + 1, "sync_reset")) = k + 1 /\ Of(q, k + 1, "sync_reset") # {}
    BY <1>1, <2>1, LastIsNew
  <2>. QED BY <1>2, <2>2 DEF EraOf
<1>3. CASE q[k + 1].kind # "sync_reset"
  <2>1. Of(q, k + 1, "sync_reset") = Of(q, k, "sync_reset")
    BY <1>3, OfMore, OfSame
  <2>. QED BY <1>3, <2>1 DEF EraOf
<1>. QED BY <1>2, <1>3

\* The cursor likewise: that an ack only moves it forwards, and only past the last
\* event or snapshot, is the same as drawing the envelopes one by one.
LEMMA PlaceNext ==
    ASSUME NEW q \in Seq(Downward), NEW k \in Nat, k < Len(q), NEW at \in Nat
    PROVE  /\ PlaceOf(q, k, at) \in Nat
           /\ PlaceOf(q, k + 1, at) =
                 IF q[k + 1].kind = "sync_reset" \/ q[k + 1].kind = "event" THEN q[k + 1].seq
                 ELSE IF q[k + 1].kind = "ack" /\ q[k + 1].seq > PlaceOf(q, k, at)
                 THEN q[k + 1].seq ELSE PlaceOf(q, k, at)
<1>1. PICK e \in Downward : e = q[k + 1]
  OBVIOUS
<1>2. PICK moves : moves = Of(q, k, "sync_reset") \cup Of(q, k, "event")
  OBVIOUS
<1>3. PICK from : from = IF moves = {} THEN 0 ELSE Max(moves)
  OBVIOUS
<1>4. moves \subseteq 1..k /\ Of(q, k, "ack") \subseteq 1..k
  BY <1>2 DEF Of
<1>5. from \in 0..k /\ (from # 0 => from \in moves)
  <2>1. moves # {} => Max(moves) \in moves
    BY <1>4, LastPosition
  <2>. QED BY <1>3, <1>4, <2>1
<1>6. PICK base : base = IF from = 0 THEN at ELSE q[from].seq
  OBVIOUS
<1>7. \A i \in 1..k : q[i] \in Downward
  OBVIOUS
<1>8. \A i \in moves \cup Of(q, k, "ack") : i \in 1..k /\ q[i].seq \in Nat
  <2>1. \A i \in moves \cup Of(q, k, "ack") : i \in 1..k /\ q[i].kind \in {"sync_reset", "event", "ack"}
    BY <1>2, <1>4 DEF Of
  <2>. QED BY <1>7, <2>1, DownwardFields
<1>9. base \in Nat
  BY <1>5, <1>6, <1>8
<1>10. PICK late : late = {j \in Of(q, k, "ack") : j > from}
  OBVIOUS
<1>11. PICK S : S = {base} \cup {q[i].seq : i \in late}
  OBVIOUS
<1>12. PICK f : f = [i \in 1..k |-> IF i \in late THEN q[i].seq ELSE 0]
  OBVIOUS
<1>13. \A i \in late : i \in 1..k /\ f[i] = q[i].seq
  BY <1>8, <1>10, <1>12
<1>14. \A i \in 1..k : f[i] \in Nat
  BY <1>8, <1>10, <1>12
<1>15. PICK b \in Nat : \A i \in 1..k : f[i] <= b
  BY <1>14, SequenceBounded
<1>16. PICK top \in Nat : top >= b /\ top >= base
  BY <1>9
<1>17. S \subseteq Nat /\ S # {} /\ \A x \in S : x <= top
  <2>1. \A i \in late : q[i].seq \in Nat /\ q[i].seq <= top
    BY <1>8, <1>10, <1>13, <1>15, <1>16
  <2>. QED BY <1>9, <1>11, <1>16, <2>1
<1>18. PlaceOf(q, k, at) = Max(S)
  BY <1>2, <1>3, <1>6, <1>10, <1>11 DEF PlaceOf
<1>19. PlaceOf(q, k, at) \in Nat
  <2>1. Max(S) \in S
    BY <1>17, MaxIsLargest
  <2>. QED BY <1>17, <1>18, <2>1
<1>20. CASE e.kind = "sync_reset" \/ e.kind = "event"
  <2>1. Of(q, k + 1, "sync_reset") \cup Of(q, k + 1, "event") = moves \cup {k + 1}
    <3>1. CASE e.kind = "sync_reset"
      <4>1. Of(q, k + 1, "sync_reset") = Of(q, k, "sync_reset") \cup {k + 1}
        BY <1>1, <3>1, OfMore, OfSame, ZenonT(30)
      <4>2. Of(q, k + 1, "event") = Of(q, k, "event")
        BY <1>1, <3>1, OfMore, OfSame
      <4>. QED BY <1>2, <4>1, <4>2
    <3>2. CASE e.kind = "event"
      <4>1. Of(q, k + 1, "event") = Of(q, k, "event") \cup {k + 1}
        BY <1>1, <3>2, OfMore, OfSame, ZenonT(30)
      <4>2. Of(q, k + 1, "sync_reset") = Of(q, k, "sync_reset")
        BY <1>1, <3>2, OfMore, OfSame
      <4>. QED BY <1>2, <4>1, <4>2
    <3>. QED BY <1>20, <3>1, <3>2
  <2>2. Of(q, k + 1, "ack") = Of(q, k, "ack")
    <3>1. q[k + 1].kind # "ack"
      BY <1>1, <1>20
    <3>. QED BY <3>1, OfSame
  <2>3. Max(moves \cup {k + 1}) = k + 1 /\ moves \cup {k + 1} # {} /\ k + 1 # 0
    <3>1. Max(moves \cup {k + 1}) = k + 1
      BY <1>4, LastIsNew
    <3>2. k + 1 # 0
      OBVIOUS
    <3>. QED BY <3>1, <3>2
  <2>4. {j \in Of(q, k, "ack") : j > k + 1} = {}
    BY <1>4
  <2>5. PlaceOf(q, k + 1, at) = Max({e.seq} \cup {q[i].seq : i \in {}})
    BY <1>1, <2>1, <2>2, <2>3, <2>4 DEF PlaceOf
  <2>6. e.seq \in Nat
    BY <1>20, DownwardFields
  <2>7. {e.seq} \cup {q[i].seq : i \in {}} = {e.seq}
    OBVIOUS
  <2>. QED BY <1>1, <1>19, <1>20, <2>5, <2>6, <2>7, MaxOfOne
<1>21. CASE e.kind = "ack"
  <2>1. Of(q, k + 1, "sync_reset") \cup Of(q, k + 1, "event") = moves
    BY <1>1, <1>2, <1>21, OfMore, OfSame
  <2>2. Of(q, k + 1, "ack") = Of(q, k, "ack") \cup {k + 1}
    BY <1>1, <1>21, OfMore, OfSame, ZenonT(30)
  <2>3. {j \in Of(q, k, "ack") \cup {k + 1} : j > from} = late \cup {k + 1}
    BY <1>5, <1>10
  <2>4. PlaceOf(q, k + 1, at) = Max({base} \cup {q[i].seq : i \in late \cup {k + 1}})
    BY <1>3, <1>6, <2>1, <2>2, <2>3 DEF PlaceOf
  <2>5. {base} \cup {q[i].seq : i \in late \cup {k + 1}} = S \cup {e.seq}
    BY <1>1, <1>11
  <2>6. e.seq \in Nat
    BY <1>21, DownwardFields
  <2>7. Max(S \cup {e.seq}) = IF e.seq > Max(S) THEN e.seq ELSE Max(S)
    BY <1>17, <2>6, MaxOfMore
  <2>. QED BY <1>1, <1>18, <1>19, <1>21, <2>4, <2>5, <2>7
<1>22. CASE e.kind \notin {"sync_reset", "event", "ack"}
  <2>1. Of(q, k + 1, "sync_reset") \cup Of(q, k + 1, "event") = moves
    <3>1. q[k + 1].kind # "sync_reset" /\ q[k + 1].kind # "event"
      BY <1>1, <1>22
    <3>. QED BY <1>2, <3>1, OfMore, OfSame
  <2>2. Of(q, k + 1, "ack") = Of(q, k, "ack")
    <3>1. q[k + 1].kind # "ack"
      BY <1>1, <1>22
    <3>. QED BY <3>1, OfSame
  <2>3. PlaceOf(q, k + 1, at) = Max(S)
    BY <1>3, <1>6, <1>10, <1>11, <2>1, <2>2 DEF PlaceOf
  <2>. QED BY <1>1, <1>18, <1>19, <1>22, <2>3
<1>. QED BY <1>20, <1>21, <1>22

\* Nothing drawn changes nothing.
LEMMA ViewStart ==
    ASSUME NEW q, NEW b \in Views
    PROVE  View(q, 0, b) = b
<1>1. \A kind : Of(q, 0, kind) = {}
  BY DEF Of
<1>2. RowsOf(q, 0, b.rows) = b.rows
  BY <1>1 DEF RowsOf
<1>3. EraOf(q, 0, b.era) = b.era
  BY <1>1 DEF EraOf
<1>4. PlaceOf(q, 0, b.at) = b.at
  <2>1. PlaceOf(q, 0, b.at) = Max({b.at} \cup {q[i].seq : i \in {}})
    <3>1. {j \in {} : j > 0} = {}
      OBVIOUS
    <3>. QED BY <1>1, <3>1 DEF PlaceOf
  <2>2. {b.at} \cup {q[i].seq : i \in {}} = {b.at} /\ b.at \in Nat
    BY DEF Views
  <2>. QED BY <2>1, <2>2, MaxOfOne
<1>. QED BY <1>2, <1>3, <1>4 DEF View, Views

\* A batch draws its envelopes one after the other: the sets and maxima of
\* processEnvelopes are a fold.
LEMMA ViewNext ==
    ASSUME NEW q \in Seq(Downward), NEW k \in Nat, k < Len(q), NEW b \in Views
    PROVE  View(q, k + 1, b) = Drawn(View(q, k, b), q[k + 1])
<1>1. PICK rows, at, n : rows = b.rows /\ at = b.at /\ n = b.era /\ at \in Nat
  <2>1. b.at \in Nat
    BY DEF Views
  <2>. QED BY <2>1
<1>2. PICK v : v = View(q, k, b)
  OBVIOUS
<1>3. v.rows = RowsOf(q, k, rows) /\ v.at = PlaceOf(q, k, at) /\ v.era = EraOf(q, k, n)
  BY <1>1, <1>2 DEF View
<1>4. PICK e : e = q[k + 1]
  OBVIOUS
<1>5. RowsOf(q, k + 1, rows) = IF e.kind = "sync_reset" THEN e.rows
              ELSE IF e.kind = "event" THEN v.rows \cup {e.event} ELSE v.rows
  BY <1>3, <1>4, RowsNext
<1>6. EraOf(q, k + 1, n) = IF e.kind = "sync_reset" THEN e.era ELSE v.era
  BY <1>3, <1>4, EraNext
<1>7. PlaceOf(q, k + 1, at) = IF e.kind = "sync_reset" \/ e.kind = "event" THEN e.seq
              ELSE IF e.kind = "ack" /\ e.seq > v.at THEN e.seq ELSE v.at
  BY <1>1, <1>3, <1>4, PlaceNext
<1>8. View(q, k + 1, b) = Drawn(v, e)
  BY <1>1, <1>5, <1>6, <1>7 DEF View, Drawn
<1>. QED BY <1>2, <1>4, <1>8

\* A drawn envelope leaves a view.
LEMMA DrawnType == ASSUME NEW b \in Views, NEW e \in Downward PROVE Drawn(b, e) \in Views
<1>1. b.rows \subseteq Events /\ b.at \in Nat /\ b.era \in Nat
  BY DEF Views
<1>2. PICK d : d = Drawn(b, e)
  OBVIOUS
<1>3. /\ d = [rows |-> d.rows, at |-> d.at, era |-> d.era]
      /\ d.rows \subseteq Events /\ d.at \in Nat /\ d.era \in Nat
  BY <1>1, <1>2, DownwardFields DEF Drawn
<1>4. d \in Views
  BY <1>3 DEF Views
<1>. QED BY <1>2, <1>4

\* So does a batch.
LEMMA ViewType ==
    ASSUME NEW q \in Seq(Downward), NEW b \in Views
    PROVE  \A k \in 0..Len(q) : View(q, k, b) \in Views
<1> DEFINE S == {k \in Nat : k <= Len(q) => View(q, k, b) \in Views}
<1>1. 0 \in S
  BY ViewStart
<1>2. ASSUME NEW k \in Nat, k \in S PROVE k + 1 \in S
  <2> SUFFICES ASSUME k + 1 <= Len(q) PROVE View(q, k + 1, b) \in Views
    OBVIOUS
  <2>1. View(q, k, b) \in Views /\ q[k + 1] \in Downward /\ k < Len(q)
    BY <1>2
  <2>. QED BY <2>1, ViewNext, DrawnType
<1> HIDE DEF S
<1>3. Nat \subseteq S
  BY <1>1, <1>2, SetInduction
<1>. QED BY <1>3 DEF S

\* The first l envelopes of p are those that come after the first k of q.
Continues(p, l, q, k) ==
    l <= Len(p) /\ k + l <= Len(q) /\ \A i \in 1..l : p[i] = q[k + i]

\* The rest of the envelopes may be drawn later.
LEMMA DrawnLater ==
    ASSUME NEW q \in Seq(Downward), NEW b \in Views, NEW k \in Nat,
           NEW p \in Seq(Downward), NEW l \in Nat, Continues(p, l, q, k)
    PROVE  \A m \in 0..l : View(p, m, View(q, k, b)) = View(q, k + m, b)
<1>0. k <= Len(q) /\ l <= Len(p) /\ k + l <= Len(q) /\ \A i \in 1..l : p[i] = q[k + i]
  BY DEF Continues
<1>1. PICK v \in Views : v = View(q, k, b)
  BY <1>0, ViewType
<1> DEFINE S == {m \in Nat : m <= l => View(p, m, v) = View(q, k + m, b)}
<1>2. 0 \in S
  BY <1>1, ViewStart
<1>3. ASSUME NEW m \in Nat, m \in S PROVE m + 1 \in S
  <2> SUFFICES ASSUME m + 1 <= l PROVE View(p, m + 1, v) = View(q, k + (m + 1), b)
    OBVIOUS
  <2>1. /\ View(p, m, v) = View(q, k + m, b) /\ p[m + 1] = q[(k + m) + 1]
        /\ m < Len(p) /\ k + m < Len(q) /\ k + m \in Nat /\ k + (m + 1) = (k + m) + 1
    BY <1>0, <1>3
  <2>2. View(p, m + 1, v) = Drawn(View(p, m, v), p[m + 1])
    BY <2>1, ViewNext
  <2>3. View(q, (k + m) + 1, b) = Drawn(View(q, k + m, b), q[(k + m) + 1])
    BY <2>1, ViewNext
  <2>. QED BY <2>1, <2>2, <2>3
<1> HIDE DEF S
<1>4. Nat \subseteq S
  BY <1>2, <1>3, SetInduction
<1>. QED BY <1>1, <1>4 DEF S
\* A view depends on the envelopes that it has drawn.
LEMMA SamePrefix ==
    ASSUME NEW q \in Seq(Downward), NEW b \in Views,
           NEW p \in Seq(Downward), NEW l \in Nat, Continues(p, l, q, 0)
    PROVE  \A m \in 0..l : View(p, m, b) = View(q, m, b)
<1>1. \A m \in 0..l : View(p, m, View(q, 0, b)) = View(q, 0 + m, b)
  BY DrawnLater
<1>2. \A m \in 0..l : 0 + m = m
  OBVIOUS
<1>. QED BY <1>1, <1>2, ViewStart

-------------------------------------------------------------------------------
(* The views on the way, and how they change when envelopes arrive or are lost. *)

\* What a browser that draws the envelopes q one after the other, from b on, knows on
\* the way: eras only grow, and in the era x of the log l its rows are in l, its cursor is within.
Stream(q, b, l, x) ==
    \A n \in 0..Len(q) :
        /\ View(q, n, b).era <= x
        /\ \A m \in 0..n : View(q, m, b).era <= View(q, n, b).era
        /\ View(q, n, b).era = x => View(q, n, b).rows \subseteq ToSet(l) /\ View(q, n, b).at <= Len(l)

\* What is sent while the log is l and the era x.
Honest(envelopes, l, x) ==
    \A i \in DOMAIN envelopes :
        /\ envelopes[i].kind = "ack" => envelopes[i].seq <= Len(l)
        /\ envelopes[i].kind = "event" => envelopes[i].event \in ToSet(l) /\ envelopes[i].seq <= Len(l)
        /\ envelopes[i].kind = "sync_reset" =>
              envelopes[i].rows \subseteq ToSet(l) /\ envelopes[i].seq <= Len(l) /\ envelopes[i].era = x

\* What is under way is honest and starts from an honest view: every view on the way is.
LEMMA Heard ==
    ASSUME NEW q \in Seq(Downward), NEW b \in Views, NEW l \in Seq(Events), NEW x \in Nat,
           Honest(q, l, x), b.era <= x, b.era = x => b.rows \subseteq ToSet(l) /\ b.at <= Len(l)
    PROVE  Stream(q, b, l, x)
<1> DEFINE S == {n \in Nat : n <= Len(q) =>
        /\ View(q, n, b).era <= x
        /\ \A m \in 0..n : View(q, m, b).era <= View(q, n, b).era
        /\ View(q, n, b).era = x => View(q, n, b).rows \subseteq ToSet(l) /\ View(q, n, b).at <= Len(l)}
<1>1. 0 \in S
  <2>1. View(q, 0, b) = b /\ b.era \in Nat /\ \A m \in 0..0 : m = 0
    BY ViewStart DEF Views
  <2>. QED BY <2>1
<1>2. ASSUME NEW n \in Nat, n \in S PROVE n + 1 \in S
  <2> SUFFICES ASSUME n + 1 <= Len(q)
               PROVE  /\ View(q, n + 1, b).era <= x
                      /\ \A m \in 0..(n + 1) : View(q, m, b).era <= View(q, n + 1, b).era
                      /\ View(q, n + 1, b).era = x =>
                            View(q, n + 1, b).rows \subseteq ToSet(l) /\ View(q, n + 1, b).at <= Len(l)
    OBVIOUS
  <2>1. \A m \in 0..(n + 1) : View(q, m, b) \in Views
    BY ViewType
  <2>2. PICK v \in Views, w \in Views : v = View(q, n, b) /\ w = View(q, n + 1, b)
    BY <2>1
  <2>3. PICK e \in Downward : e = q[n + 1]
    OBVIOUS
  <2>4. w = Drawn(v, e)
    BY <2>2, <2>3, ViewNext
  <2>5. /\ v.era <= x /\ \A m \in 0..n : View(q, m, b).era <= v.era
        /\ v.era = x => v.rows \subseteq ToSet(l) /\ v.at <= Len(l)
    <3>1. n <= Len(q)
      OBVIOUS
    <3>. QED BY <1>2, <2>2, <3>1
  <2>6. /\ e.kind = "ack" => e.seq <= Len(l)
        /\ e.kind = "event" => e.event \in ToSet(l) /\ e.seq <= Len(l)
        /\ e.kind = "sync_reset" => e.rows \subseteq ToSet(l) /\ e.seq <= Len(l) /\ e.era = x
    <3>1. n + 1 \in DOMAIN q
      OBVIOUS
    <3>. QED BY <2>3, <3>1 DEF Honest
  <2>7. /\ w.era = IF e.kind = "sync_reset" THEN e.era ELSE v.era
        /\ w.rows = IF e.kind = "sync_reset" THEN e.rows
              ELSE IF e.kind = "event" THEN v.rows \cup {e.event} ELSE v.rows
        /\ w.at = IF e.kind = "sync_reset" \/ e.kind = "event" THEN e.seq
              ELSE IF e.kind = "ack" /\ e.seq > v.at THEN e.seq ELSE v.at
    BY <2>4 DEF Drawn
  <2>8. v.era \in Nat /\ w.era \in Nat /\ w.era <= x /\ v.era <= w.era
    BY <2>5, <2>6, <2>7 DEF Views
  <2>9. w.era = x => w.rows \subseteq ToSet(l) /\ w.at <= Len(l)
    BY <2>5, <2>6, <2>7
  <2>10. \A m \in 0..(n + 1) : View(q, m, b).era <= w.era
    <3>1. \A m \in 0..(n + 1) : m \in 0..n \/ m = n + 1
      OBVIOUS
    <3>2. \A m \in 0..(n + 1) : View(q, m, b).era \in Nat
      BY <2>1 DEF Views
    <3>3. \A m \in 0..n : m \in 0..(n + 1)
      OBVIOUS
    <3>. QED BY <2>2, <2>5, <2>8, <3>1, <3>2, <3>3
  <2>. QED BY <2>2, <2>8, <2>9, <2>10
<1> HIDE DEF S
<1>3. Nat \subseteq S
  BY <1>1, <1>2, SetInduction
<1>. QED BY <1>3 DEF S, Stream

\* Without a snapshot nothing is forgotten, and every event is drawn.
LEMMA Collected ==
    ASSUME NEW q \in Seq(Downward), NEW b \in Views,
           \A i \in DOMAIN q : q[i].kind # "sync_reset"
    PROVE  LET v == View(q, Len(q), b)
           IN  /\ v.era = b.era /\ b.rows \subseteq v.rows
               /\ \A i \in DOMAIN q : q[i].kind = "event" => q[i].event \in v.rows
<1> DEFINE S == {n \in Nat : n <= Len(q) =>
        /\ View(q, n, b).era = b.era /\ b.rows \subseteq View(q, n, b).rows
        /\ \A i \in 1..n : q[i].kind = "event" => q[i].event \in View(q, n, b).rows}
<1>1. 0 \in S
  <2>1. View(q, 0, b) = b /\ 1..0 = {}
    BY ViewStart
  <2>. QED BY <2>1
<1>2. ASSUME NEW n \in Nat, n \in S PROVE n + 1 \in S
  <2> SUFFICES ASSUME n + 1 <= Len(q)
               PROVE  /\ View(q, n + 1, b).era = b.era /\ b.rows \subseteq View(q, n + 1, b).rows
                      /\ \A i \in 1..(n + 1) : q[i].kind = "event" => q[i].event \in View(q, n + 1, b).rows
    OBVIOUS
  <2>1. PICK v, w : v = View(q, n, b) /\ w = View(q, n + 1, b)
    OBVIOUS
  <2>2. PICK e : e = q[n + 1] /\ e.kind # "sync_reset"
    <3>1. n + 1 \in DOMAIN q
      OBVIOUS
    <3>. QED BY <3>1
  <2>3. w = Drawn(v, e)
    BY <2>1, <2>2, ViewNext
  <2>4. w.era = v.era /\ w.rows = IF e.kind = "event" THEN v.rows \cup {e.event} ELSE v.rows
    BY <2>2, <2>3 DEF Drawn
  <2>5. /\ v.era = b.era /\ b.rows \subseteq v.rows
        /\ \A i \in 1..n : q[i].kind = "event" => q[i].event \in v.rows
    <3>1. n <= Len(q)
      OBVIOUS
    <3>. QED BY <1>2, <2>1, <3>1
  <2>6. \A i \in 1..(n + 1) : i \in 1..n \/ i = n + 1
    OBVIOUS
  <2>7. \A i \in 1..(n + 1) : q[i].kind = "event" => q[i].event \in w.rows
    BY <2>2, <2>4, <2>5, <2>6
  <2>. QED BY <2>1, <2>4, <2>5, <2>7
<1> HIDE DEF S
<1>3. Len(q) \in S /\ DOMAIN q = 1..Len(q)
  BY <1>1, <1>2, SetInduction
<1>. QED BY <1>3 DEF S

\* So is every view of a part that arrived.
LEMMA StreamPrefix ==
    ASSUME NEW q \in Seq(Downward), NEW b \in Views, NEW l, NEW x,
           Stream(q, b, l, x), NEW p \in Seq(Downward), Len(p) <= Len(q),
           \A i \in 1..Len(p) : p[i] = q[i]
    PROVE  Stream(p, b, l, x)
<1>1. Len(p) \in Nat /\ \A k \in 0..Len(p) : View(p, k, b) = View(q, k, b)
  <2>1. PICK r \in Nat : r = Len(p)
    OBVIOUS
  <2>2. Len(q) \in Nat /\ 0 + r <= Len(q) /\ r <= Len(p) /\ \A i \in 1..r : p[i] = q[0 + i]
    BY <2>1
  <2>3. Continues(p, r, q, 0)
    BY <2>2 DEF Continues
  <2>. QED BY <2>1, <2>3, SamePrefix
<1>2. \A n \in 0..Len(p) : n \in 0..Len(q) /\ \A m \in 0..n : m \in 0..Len(p)
  OBVIOUS
<1>. QED BY <1>1, <1>2 DEF Stream

\* And of the part that is left when some have been drawn.
LEMMA StreamSuffix ==
    ASSUME NEW q \in Seq(Downward), NEW b \in Views, NEW l, NEW x,
           Stream(q, b, l, x), NEW k \in 0..Len(q)
    PROVE  LET p == SubSeq(q, k + 1, Len(q))
           IN  /\ p \in Seq(Downward) /\ Len(p) = Len(q) - k
               /\ \A m \in 0..Len(p) : View(p, m, View(q, k, b)) = View(q, k + m, b)
               /\ Stream(p, View(q, k, b), l, x)
<1>1. PICK p : p = SubSeq(q, k + 1, Len(q))
  OBVIOUS
<1>2. /\ p \in Seq(Downward) /\ Len(p) = Len(q) - k /\ Len(p) \in Nat /\ k \in Nat
      /\ \A i \in 1..Len(p) : p[i] = q[k + i]
  BY <1>1
<1>3. \A m \in 0..Len(p) : View(p, m, View(q, k, b)) = View(q, k + m, b)
  <2>1. PICK r \in Nat : r = Len(p)
    BY <1>2
  <2>2. k \in Nat /\ k <= Len(q) /\ r <= Len(p) /\ k + r <= Len(q)
    BY <1>2, <2>1
  <2>3. \A i \in 1..r : p[i] = q[k + i]
    BY <1>2, <2>1
  <2>4. Continues(p, r, q, k)
    BY <2>2, <2>3 DEF Continues
  <2>5. \A m \in 0..r : View(p, m, View(q, k, b)) = View(q, k + m, b)
    BY <1>2, <2>4, DrawnLater
  <2>. QED BY <2>1, <2>5
<1>4. \A n \in 0..Len(p) : /\ k + n \in 0..Len(q)
                           /\ \A m \in 0..n : m \in 0..Len(p) /\ k + m \in 0..(k + n)
  BY <1>2
<1>5. Stream(p, View(q, k, b), l, x)
  <2> SUFFICES ASSUME NEW n \in 0..Len(p)
               PROVE  /\ View(q, k + n, b).era <= x
                      /\ \A m \in 0..n : View(q, k + m, b).era <= View(q, k + n, b).era
                      /\ View(q, k + n, b).era = x => View(q, k + n, b).rows \subseteq ToSet(l) /\ View(q, k + n, b).at <= Len(l)
    BY <1>3, <1>4 DEF Stream
  <2>. QED BY <1>4 DEF Stream
<1>. QED BY <1>1, <1>2, <1>3, <1>5

\* The provers match an operator where they would take a concatenation apart.
Joined(p, q, more) == p = q \o more

\* Sequences drawn one after the other.
LEMMA ViewJoined ==
    ASSUME NEW q \in Seq(Downward), NEW b \in Views, NEW more \in Seq(Downward),
           NEW p \in Seq(Downward), Joined(p, q, more)
    PROVE  /\ Len(p) = Len(q) + Len(more) /\ Len(q) \in Nat /\ Len(more) \in Nat
           /\ \A k \in 0..Len(q) : View(p, k, b) = View(q, k, b)
           /\ \A m \in 0..Len(more) : View(more, m, View(q, Len(q), b)) = View(p, Len(q) + m, b)
           /\ View(p, Len(p), b) = View(more, Len(more), View(q, Len(q), b))
<1>1. p = q \o more
  BY DEF Joined
<1>2. /\ p \in Seq(Downward) /\ Len(p) = Len(q) + Len(more)
      /\ Len(q) \in Nat /\ Len(more) \in Nat
      /\ \A i \in 1..Len(q) : p[i] = q[i]
      /\ \A i \in 1..Len(more) : p[Len(q) + i] = more[i]
  <2>1. p \in Seq(Downward) /\ Len(p) = Len(q) + Len(more)
    BY <1>1
  <2>2. Len(q) \in Nat /\ Len(more) \in Nat
    OBVIOUS
  <2>3. \A i \in 1..Len(q) : p[i] = q[i]
    BY <1>1, <2>2
  <2>4. ASSUME NEW i \in 1..Len(more) PROVE p[Len(q) + i] = more[i]
    <3>1. Len(q) + i \in 1..(Len(q) + Len(more)) /\ Len(q) + i > Len(q) /\ (Len(q) + i) - Len(q) = i
      BY <2>2
    <3>. QED BY <1>1, <3>1
  <2>. QED BY <2>1, <2>2, <2>3, <2>4
<1>3. \A k \in 0..Len(q) : View(p, k, b) = View(q, k, b)
  <2>1. PICK n \in Nat : n = Len(q)
    BY <1>2
  <2>2. n <= Len(p) /\ 0 + n <= Len(q)
    BY <1>2, <2>1
  <2>3. \A i \in 1..n : p[i] = q[0 + i]
    BY <1>2, <2>1
  <2>4. Continues(p, n, q, 0)
    BY <2>2, <2>3 DEF Continues
  <2>. QED BY <1>2, <2>1, <2>4, SamePrefix
<1>4. PICK v \in Views : v = View(q, Len(q), b) /\ v = View(p, Len(q), b)
  BY <1>2, <1>3, ViewType
<1>5. \A m \in 0..Len(more) : View(more, m, v) = View(p, Len(q) + m, b)
  <2>1. PICK n \in Nat, l \in Nat : n = Len(q) /\ l = Len(more)
    BY <1>2
  <2>2. n <= Len(p) /\ l <= Len(more) /\ n + l <= Len(p)
    BY <1>2, <2>1
  <2>3. \A i \in 1..l : more[i] = p[n + i]
    BY <1>2, <2>1
  <2>4. Continues(more, l, p, n)
    BY <2>2, <2>3 DEF Continues
  <2>5. \A m \in 0..l : View(more, m, View(p, n, b)) = View(p, n + m, b)
    BY <1>2, <2>4, DrawnLater
  <2>. QED BY <1>4, <2>1, <2>5
<1>6. View(p, Len(p), b) = View(more, Len(more), v)
  <2>1. Len(more) \in 0..Len(more)
    BY <1>2
  <2>. QED BY <1>2, <1>5, <2>1
<1>. QED BY <1>2, <1>3, <1>4, <1>5, <1>6

\* More of what the present log says may follow, whatever log came before.
LEMMA StreamAppend ==
    ASSUME NEW q \in Seq(Downward), NEW b \in Views,
           NEW l \in Seq(Events), NEW x \in Nat, Stream(q, b, l, x),
           NEW grown \in Seq(Events), NEW y \in Nat,
           x < y \/ (x = y /\ ToSet(l) \subseteq ToSet(grown) /\ Len(l) <= Len(grown)),
           NEW more \in Seq(Downward), Honest(more, grown, y),
           NEW p \in Seq(Downward), Joined(p, q, more)
    PROVE  Stream(p, b, grown, y)
<1>2. Len(p) = Len(q) + Len(more) /\ Len(q) \in Nat /\ Len(more) \in Nat
  BY ViewJoined
<1>3. \A k \in 0..Len(q) : View(p, k, b) = View(q, k, b)
  BY ViewJoined
<1>4. PICK v \in Views : v = View(q, Len(q), b) /\ v = View(p, Len(q), b)
  BY <1>2, <1>3, ViewType
<1>5. \A m \in 0..Len(more) : View(more, m, v) = View(p, Len(q) + m, b)
  BY <1>4, ViewJoined
<1>6. \A n \in 0..Len(q) : View(q, n, b) \in Views
  BY ViewType
<1>7. \A n \in 0..Len(q) :
        /\ View(q, n, b).era <= y
        /\ View(q, n, b).era <= v.era
        /\ View(q, n, b).era = y => View(q, n, b).rows \subseteq ToSet(grown) /\ View(q, n, b).at <= Len(grown)
  <2> SUFFICES ASSUME NEW n \in 0..Len(q)
               PROVE  /\ View(q, n, b).era <= y
                      /\ View(q, n, b).era <= v.era
                      /\ View(q, n, b).era = y => View(q, n, b).rows \subseteq ToSet(grown) /\ View(q, n, b).at <= Len(grown)
    OBVIOUS
  <2>1. PICK u \in Views : u = View(q, n, b)
    BY <1>6
  <2>2. u.era <= x /\ u.era <= v.era /\ (u.era = x => u.rows \subseteq ToSet(l) /\ u.at <= Len(l))
    <3>1. Len(q) \in 0..Len(q) /\ n \in 0..Len(q)
      BY <1>2
    <3>. QED BY <1>4, <2>1, <3>1 DEF Stream
  <2>3. u.era \in Nat /\ u.at \in Nat
    BY <2>1 DEF Views
  <2>. QED BY <2>1, <2>2, <2>3
<1>8. Stream(more, v, grown, y)
  <2>1. v.era <= y /\ (v.era = y => v.rows \subseteq ToSet(grown) /\ v.at <= Len(grown))
    <3>1. Len(q) \in 0..Len(q)
      BY <1>2
    <3>. QED BY <1>4, <1>7, <3>1
  <2>. QED BY <1>4, <2>1, Heard
<1>9. Stream(p, b, grown, y)
  <2> SUFFICES ASSUME NEW n \in 0..Len(p)
               PROVE  /\ View(p, n, b).era <= y
                      /\ \A m \in 0..n : View(p, m, b).era <= View(p, n, b).era
                      /\ View(p, n, b).era = y => View(p, n, b).rows \subseteq ToSet(grown) /\ View(p, n, b).at <= Len(grown)
    BY DEF Stream
  <2>1. CASE n <= Len(q)
    <3>1. n \in 0..Len(q) /\ \A m \in 0..n : m \in 0..Len(q)
      BY <1>2, <2>1
    <3>2. \A m \in 0..n : View(q, m, b).era <= View(q, n, b).era
      BY <3>1 DEF Stream
    <3>. QED BY <1>3, <1>7, <3>1, <3>2
  <2>2. CASE n > Len(q)
    <3>1. PICK i \in 0..Len(more) : n = Len(q) + i
      <4>1. n - Len(q) \in 0..Len(more) /\ n = Len(q) + (n - Len(q))
        BY <1>2, <2>2
      <4>. QED BY <4>1
    <3>2. PICK w \in Views : w = View(p, n, b) /\ w = View(more, i, v)
      BY <1>4, <1>5, <3>1, ViewType
    <3>3. /\ w.era <= y /\ (w.era = y => w.rows \subseteq ToSet(grown) /\ w.at <= Len(grown))
          /\ \A m \in 0..i : View(more, m, v).era <= w.era
      BY <1>8, <3>1, <3>2 DEF Stream
    <3>4. v.era <= w.era /\ v.era \in Nat /\ w.era \in Nat
      <4>1. View(more, 0, v) = v /\ 0 \in 0..i
        BY <1>4, <3>1, ViewStart
      <4>. QED BY <1>4, <3>2, <3>3, <4>1 DEF Views
    <3>5. ASSUME NEW m \in 0..n PROVE View(p, m, b).era <= w.era
      <4>1. CASE m <= Len(q)
        <5>1. m \in 0..Len(q)
          BY <1>2, <4>1
        <5>2. PICK u \in Views : u = View(q, m, b) /\ u = View(p, m, b) /\ u.era <= v.era
          BY <1>3, <1>6, <1>7, <5>1
        <5>3. u.era \in Nat
          BY <5>2 DEF Views
        <5>. QED BY <3>4, <5>2, <5>3
      <4>2. CASE m > Len(q)
        <5>1. PICK j \in 0..i : m = Len(q) + j /\ j \in 0..Len(more)
          <6>1. m - Len(q) \in 0..i /\ m = Len(q) + (m - Len(q)) /\ m - Len(q) \in 0..Len(more)
            BY <1>2, <3>1, <4>2
          <6>. QED BY <6>1
        <5>. QED BY <1>5, <3>3, <5>1
      <4>. QED BY <1>2, <4>1, <4>2
    <3>. QED BY <3>2, <3>3, <3>5
  <2>. QED BY <1>2, <2>1, <2>2
<1>. QED BY <1>9

\* What was cut off is of no era.
LEMMA Erased ==
    ASSUME NEW q \in Seq(Downward), NEW b \in Views, b.era = 0,
           \A i \in DOMAIN q : q[i].kind = "sync_reset" => q[i].era = 0,
           NEW l, NEW x \in Nat, x # 0
    PROVE  /\ \A n \in 0..Len(q) : View(q, n, b).era = 0
           /\ Stream(q, b, l, x)
<1> DEFINE S == {n \in Nat : n <= Len(q) => View(q, n, b).era = 0}
<1>1. 0 \in S
  BY ViewStart
<1>2. ASSUME NEW n \in Nat, n \in S PROVE n + 1 \in S
  <2> SUFFICES ASSUME n + 1 <= Len(q) PROVE View(q, n + 1, b).era = 0
    OBVIOUS
  <2>1. PICK v, w : v = View(q, n, b) /\ w = View(q, n + 1, b)
    OBVIOUS
  <2>2. w = Drawn(v, q[n + 1]) /\ n <= Len(q) /\ n + 1 \in DOMAIN q
    BY <2>1, ViewNext
  <2>3. v.era = 0
    BY <1>2, <2>1, <2>2
  <2>4. w.era = IF q[n + 1].kind = "sync_reset" THEN q[n + 1].era ELSE v.era
    BY <2>2 DEF Drawn
  <2>. QED BY <2>1, <2>2, <2>3, <2>4
<1> HIDE DEF S
<1>3. Nat \subseteq S
  BY <1>1, <1>2, SetInduction
<1>4. \A n \in 0..Len(q) : View(q, n, b).era = 0
  BY <1>3 DEF S
<1>5. \A n \in 0..Len(q) : \A m \in 0..n : m \in 0..Len(q)
  OBVIOUS
<1>6. Stream(q, b, l, x)
  BY <1>4, <1>5 DEF Stream
<1>. QED BY <1>4, <1>6

-------------------------------------------------------------------------------
(* What ties the views to what goes up, and to the log. *)

\* The rows, the place in the log and the era that a browser has drawn.
Seen(c) == [rows |-> shown[c], at |-> cursor[c], era |-> sound[c]]

\* The rows have the log's entries up to a place.
Covers(l, n, rows) == \A i \in DOMAIN l : i <= n => l[i] \in rows

\* The hellos that will be answered; nothing that was sent by a lost socket will.
Asking(u) == {h \in ToSet(u) : h.kind = "hello" /\ h.live}

\* Nobody waits for an answer to what is on the way up.
Mute(u) == \A h \in ToSet(u) : ~h.live

\* What ties what is under way to a browser, u and q, and what it has drawn, b, to the
\* log l of era x.
Kept(c, on, u, q, b, l, x) ==
    /\ Stream(q, b, l, x)
    /\ c \notin on => Mute(u)
    /\ LET v == View(q, Len(q), b)
       IN  v.era = x =>
             /\ c \in on /\ Asking(u) = {} => ToSet(l) \subseteq v.rows
             /\ \A h \in Asking(u) : Covers(l, h.cursor, v.rows)
             /\ c \notin on => \A m \in 0..Len(q) :
                   View(q, m, b).era = x /\ Covers(l, View(q, m, b).at, v.rows)

\* The elements of a concatenation.
LEMMA Elements ==
    ASSUME NEW D, NEW a \in Seq(D), NEW b \in Seq(D)
    PROVE  ToSet(a \o b) = ToSet(a) \cup ToSet(b)
<1>1. ToSet(a \o b) \subseteq ToSet(a) \cup ToSet(b)
  BY ConcatElements DEF ToSet
<1>2. \A i \in DOMAIN a : i \in DOMAIN (a \o b) /\ (a \o b)[i] = a[i]
  OBVIOUS
<1>3. ASSUME NEW i \in DOMAIN b PROVE \E j \in DOMAIN (a \o b) : (a \o b)[j] = b[i]
  <2>1. Len(a) + i \in 1..(Len(a) + Len(b)) /\ Len(a) + i > Len(a) /\ (Len(a) + i) - Len(a) = i
    OBVIOUS
  <2>2. Len(a) + i \in DOMAIN (a \o b) /\ (a \o b)[Len(a) + i] = b[i]
    BY <2>1
  <2>. QED BY <2>2
<1>. QED BY <1>1, <1>2, <1>3, SMTT(20) DEF ToSet

\* The first and the others.
LEMMA TailElements ==
    ASSUME NEW D, NEW u \in Seq(D), u # <<>>
    PROVE  /\ Head(u) \in ToSet(u)
           /\ ToSet(u) = {Head(u)} \cup ToSet(Tail(u))
<1>1. /\ 1 \in DOMAIN u /\ Head(u) = u[1] /\ Len(u) \in Nat /\ DOMAIN u = 1..Len(u)
      /\ DOMAIN Tail(u) = 1..(Len(u) - 1)
      /\ \A i \in 1..(Len(u) - 1) : Tail(u)[i] = u[i + 1]
  OBVIOUS
<1>2. ASSUME NEW i \in DOMAIN u PROVE u[i] \in {Head(u)} \cup ToSet(Tail(u))
  <2>1. CASE i = 1
    BY <1>1, <2>1
  <2>2. CASE i # 1
    <3>1. i - 1 \in 1..(Len(u) - 1) /\ (i - 1) + 1 = i
      BY <1>1, <2>2
    <3>. QED BY <1>1, <3>1 DEF ToSet
  <2>. QED BY <2>1, <2>2
<1>3. ASSUME NEW i \in DOMAIN Tail(u) PROVE Tail(u)[i] \in ToSet(u)
  <2>1. i + 1 \in DOMAIN u /\ Tail(u)[i] = u[i + 1]
    BY <1>1
  <2>. QED BY <2>1 DEF ToSet
<1>. QED BY <1>1, <1>2, <1>3 DEF ToSet

\* The server takes an envelope: those that wait for an answer are the others.
LEMMA TakenFrom ==
    ASSUME NEW u \in Seq(Upward), u # <<>>
    PROVE  /\ Head(u) \in ToSet(u) /\ ToSet(Tail(u)) \subseteq ToSet(u)
           /\ Mute(u) => Mute(Tail(u)) /\ ~Head(u).live
           /\ Asking(Tail(u)) \subseteq Asking(u)
           /\ Head(u).kind # "hello" \/ ~Head(u).live => Asking(Tail(u)) = Asking(u)
           /\ Head(u).kind = "hello" /\ Head(u).live => Head(u) \in Asking(u)
<1>1. PICK h, t : h = Head(u) /\ t = Tail(u) /\ h \in ToSet(u) /\ ToSet(u) = {h} \cup ToSet(t)
  <2>1. Head(u) \in ToSet(u) /\ ToSet(u) = {Head(u)} \cup ToSet(Tail(u))
    BY TailElements
  <2>. QED BY <2>1
<1>2. Mute(u) => Mute(t) /\ ~h.live
  BY <1>1 DEF Mute
<1>3. Asking(t) \subseteq Asking(u)
  BY <1>1 DEF Asking
<1>4. h.kind # "hello" \/ ~h.live => Asking(t) = Asking(u)
  BY <1>1 DEF Asking
<1>5. h.kind = "hello" /\ h.live => h \in Asking(u)
  BY <1>1 DEF Asking
<1>. QED BY <1>1, <1>2, <1>3, <1>4, <1>5

\* The cases in which there is little to say.
LEMMA Complete ==
    ASSUME NEW c, NEW on, c \in on, NEW u, NEW q, NEW b, NEW l, NEW x,
           Stream(q, b, l, x),
           View(q, Len(q), b).era = x => ToSet(l) \subseteq View(q, Len(q), b).rows
    PROVE  Kept(c, on, u, q, b, l, x)
<1>1. PICK v : v = View(q, Len(q), b)
  OBVIOUS
<1>2. \A i \in DOMAIN l : l[i] \in ToSet(l)
  BY DEF ToSet
<1>3. v.era = x => \A h \in Asking(u) : Covers(l, h.cursor, v.rows)
  BY <1>1, <1>2 DEF Covers
<1>. QED BY <1>1, <1>3 DEF Kept

\* A browser whose last view is of another era owes nothing to this log.
LEMMA Foreign ==
    ASSUME NEW c, NEW on, NEW u, c \notin on => Mute(u), NEW q, NEW b, NEW l, NEW x,
           Stream(q, b, l, x), View(q, Len(q), b).era # x
    PROVE  Kept(c, on, u, q, b, l, x)
BY DEF Kept

\* Only the hellos on the way up matter.
LEMMA SameHellos ==
    ASSUME NEW c, NEW on, NEW u, NEW q, NEW b, NEW l, NEW x, Kept(c, on, u, q, b, l, x),
           NEW ahead, c \in ahead <=> c \in on,
           NEW w, c \notin on => Mute(w), Asking(w) = Asking(u)
    PROVE  Kept(c, ahead, w, q, b, l, x)
BY DEF Kept

\* More rows and a later head are no harm.
LEMMA StreamGrows ==
    ASSUME NEW q \in Seq(Downward), NEW b \in Views, NEW l \in Seq(Events), NEW x,
           Stream(q, b, l, x),
           NEW k \in Seq(Events), ToSet(l) \subseteq ToSet(k), Len(l) <= Len(k)
    PROVE  Stream(q, b, k, x)
<1> SUFFICES ASSUME NEW n \in 0..Len(q)
             PROVE  /\ View(q, n, b).era <= x
                    /\ \A m \in 0..n : View(q, m, b).era <= View(q, n, b).era
                    /\ View(q, n, b).era = x =>
                          View(q, n, b).rows \subseteq ToSet(k) /\ View(q, n, b).at <= Len(k)
  BY DEF Stream
<1>1. PICK v \in Views : v = View(q, n, b)
  BY ViewType
<1>2. /\ v.era <= x /\ \A m \in 0..n : View(q, m, b).era <= v.era
      /\ v.era = x => v.rows \subseteq ToSet(l) /\ v.at <= Len(l)
  BY <1>1 DEF Stream
<1>3. v.at \in Nat /\ Len(l) \in Nat /\ Len(k) \in Nat
  BY DEF Views
<1>. QED BY <1>1, <1>2, <1>3

\* The log's first entry is not broadcast, but every browser is yet to be greeted.
LEMMA FirstEntry ==
    ASSUME NEW c, NEW on, NEW u, NEW q \in Seq(Downward), NEW b \in Views, NEW x,
           Kept(c, on, u, q, b, <<>>, x), c \in on => Asking(u) # {},
           \A h \in Asking(u) : h.cursor = 0, NEW e \in Events, NEW l \in Seq(Events), l = <<e>>
    PROVE  Kept(c, on, u, q, b, l, x)
<1>1. /\ ToSet(<<>>) = {} /\ Len(<<>>) = 0 /\ ToSet(l) = {e} /\ Len(l) = 1
      /\ DOMAIN l = {1} /\ l[1] = e
  BY DEF ToSet
<1>2. Stream(q, b, <<>>, x) /\ <<>> \in Seq(Events)
  BY DEF Kept
<1>3. Stream(q, b, l, x)
  <2>1. ToSet(<<>>) \subseteq ToSet(l) /\ Len(<<>>) <= Len(l)
    BY <1>1
  <2>. QED BY <1>2, <2>1, StreamGrows
<1>4. PICK v : v = View(q, Len(q), b)
  OBVIOUS
<1>5. ASSUME NEW n \in Nat, n = 0 PROVE Covers(l, n, v.rows)
  BY <1>1, <1>5 DEF Covers
<1>6. \A h \in Asking(u) : Covers(l, h.cursor, v.rows)
  BY <1>5
<1>7. ASSUME v.era = x, c \notin on, NEW m \in 0..Len(q)
      PROVE View(q, m, b).era = x /\ Covers(l, View(q, m, b).at, v.rows)
  <2>1. View(q, m, b).era = x
    BY <1>4, <1>7 DEF Kept
  <2>2. View(q, m, b).at = 0
    <3>1. View(q, m, b).at <= 0
      BY <1>1, <1>2, <2>1 DEF Stream
    <3>2. View(q, m, b).at \in Nat
      BY ViewType DEF Views
    <3>. QED BY <3>1, <3>2
  <2>. QED BY <1>5, <2>1, <2>2
<1>. QED BY <1>3, <1>4, <1>6, <1>7 DEF Kept

\* An entry is appended to the log, and those who are connected are sent it.
LEMMA Appended ==
    ASSUME NEW c, NEW on, NEW u, NEW q \in Seq(Downward), NEW b \in Views,
           NEW l \in Seq(Events), NEW x \in Nat, Kept(c, on, u, q, b, l, x),
           NEW e \in Events, NEW more \in Seq(Downward),
           \A i \in DOMAIN more : more[i].kind # "sync_reset",
           \E i \in DOMAIN more : more[i].kind = "event" /\ more[i].event = e,
           NEW k \in Seq(Events), k = Append(l, e), Honest(more, k, x),
           NEW p, p = IF c \in on THEN q \o more ELSE q
    PROVE  Kept(c, on, u, p, b, k, x)
<1>1. /\ Len(l) \in Nat /\ Len(k) = Len(l) + 1 /\ DOMAIN k = 1..(Len(l) + 1)
      /\ DOMAIN l = 1..Len(l) /\ k[Len(l) + 1] = e /\ \A i \in 1..Len(l) : k[i] = l[i]
  OBVIOUS
<1>2. ToSet(k) = ToSet(l) \cup {e}
  <2>1. \A i \in 1..(Len(l) + 1) : i \in 1..Len(l) \/ i = Len(l) + 1
    BY <1>1
  <2>2. \A i \in 1..Len(l) : i \in 1..(Len(l) + 1)
    BY <1>1
  <2>3. Len(l) + 1 \in 1..(Len(l) + 1)
    BY <1>1
  <2>. QED BY <1>1, <2>1, <2>2, <2>3, ZenonT(30) DEF ToSet
<1>3. Stream(q, b, l, x) /\ (c \notin on => Mute(u))
  BY DEF Kept
<1>4. CASE c \in on
  <2>1. PICK r \in Seq(Downward) : p = r /\ Joined(r, q, more)
    <3>1. p \in Seq(Downward) /\ Joined(p, q, more)
      BY <1>4 DEF Joined
    <3>. QED BY <3>1
  <2>2. x = x /\ ToSet(l) \subseteq ToSet(k) /\ Len(l) <= Len(k)
    BY <1>1, <1>2
  <2>3. PICK v \in Views : v = View(q, Len(q), b)
    <3>1. Len(q) \in 0..Len(q)
      OBVIOUS
    <3>. QED BY <3>1, ViewType
  <2>10. Stream(q, b, l, x)
    BY <1>3
  <2>9. Joined(r, q, more)
    BY <2>1
  <2>11. Stream(r, b, k, x)
    BY <2>2, <2>9, <2>10, StreamAppend
  <2>12. View(r, Len(r), b) = View(more, Len(more), View(q, Len(q), b))
    BY <2>9, ViewJoined
  <2>4. View(p, Len(p), b) = View(more, Len(more), v) /\ Stream(p, b, k, x)
    BY <2>1, <2>3, <2>11, <2>12
  <2>5. PICK w : w = View(more, Len(more), v)
    OBVIOUS
  <2>6. w.era = v.era /\ v.rows \subseteq w.rows /\ e \in w.rows
    BY <2>5, Collected
  <2>7. ASSUME w.era = x, Asking(u) = {} PROVE ToSet(k) \subseteq w.rows
    <3>1. ToSet(l) \subseteq v.rows
      BY <1>4, <2>3, <2>6, <2>7 DEF Kept
    <3>. QED BY <1>2, <2>6, <3>1
  <2>8. ASSUME w.era = x, NEW h \in Asking(u) PROVE Covers(k, h.cursor, w.rows)
    <3>1. Covers(l, h.cursor, v.rows)
      BY <2>3, <2>6, <2>8 DEF Kept
    <3>2. ASSUME NEW i \in DOMAIN k, i <= h.cursor PROVE k[i] \in w.rows
      <4>1. CASE i \in 1..Len(l)
        BY <1>1, <2>6, <3>1, <3>2, <4>1 DEF Covers
      <4>2. CASE i = Len(l) + 1
        BY <1>1, <2>6, <4>2
      <4>. QED BY <1>1, <4>1, <4>2
    <3>. QED BY <3>2 DEF Covers
  <2>. QED BY <1>4, <2>4, <2>5, <2>7, <2>8 DEF Kept
<1>5. CASE c \notin on
  <2>1. p = q
    BY <1>5
  <2>2. Stream(q, b, k, x)
    <3>1. ToSet(l) \subseteq ToSet(k) /\ Len(l) <= Len(k)
      BY <1>1, <1>2
    <3>. QED BY <1>3, <3>1, StreamGrows
  <2>3. PICK v : v = View(q, Len(q), b)
    OBVIOUS
  <2>4. ASSUME v.era = x, NEW m \in 0..Len(q)
        PROVE View(q, m, b).era = x /\ Covers(k, View(q, m, b).at, v.rows)
    <3>1. PICK n : n = View(q, m, b).at
      OBVIOUS
    <3>2. View(q, m, b).era = x /\ Covers(l, n, v.rows)
      BY <1>5, <2>3, <2>4, <3>1 DEF Kept
    <3>3. n <= Len(l) /\ n \in Nat
      <4>1. n <= Len(l)
        BY <1>3, <3>1, <3>2 DEF Stream
      <4>2. n \in Nat
        BY <3>1, ViewType DEF Views
      <4>. QED BY <4>1, <4>2
    <3>4. \A i \in DOMAIN k : i <= n => i \in DOMAIN l /\ k[i] = l[i]
      BY <1>1, <3>3
    <3>. QED BY <3>1, <3>2, <3>4 DEF Covers
  <2>5. Asking(u) = {}
    BY <1>3, <1>5 DEF Asking, Mute
  <2>. QED BY <1>3, <1>5, <2>1, <2>2, <2>3, <2>4, <2>5 DEF Kept
<1>. QED BY <1>4, <1>5

\* As Joined.
Only(more, s) == more = <<s>>

\* A snapshot of the log at the end of what is under way.
LEMMA Restated ==
    ASSUME NEW q \in Seq(Downward), NEW b \in Views,
           NEW l \in Seq(Events), NEW x \in Nat, Stream(q, b, l, x),
           NEW k \in Seq(Events), NEW y \in Nat,
           x < y \/ (x = y /\ ToSet(l) \subseteq ToSet(k) /\ Len(l) <= Len(k)),
           NEW s \in Downward, s.kind = "sync_reset", s.rows = ToSet(k), s.seq = Len(k), s.era = y,
           NEW more, Only(more, s), NEW p \in Seq(Downward), Joined(p, q, more)
    PROVE  /\ Stream(p, b, k, y)
           /\ View(p, Len(p), b).rows = ToSet(k) /\ View(p, Len(p), b).era = y
<1>1. /\ more \in Seq(Downward) /\ Len(more) = 1 /\ DOMAIN more = {1} /\ more[1] = s /\ 0 < Len(more)
  BY DEF Only
<1>2. Honest(more, k, y)
  <2>1. Len(k) <= Len(k) /\ ToSet(k) \subseteq ToSet(k)
    OBVIOUS
  <2>. QED BY <1>1, <2>1 DEF Honest
<1>8. more \in Seq(Downward)
  BY <1>1
<1>9. Stream(p, b, k, y)
  BY <1>2, <1>8, StreamAppend
<1>3. View(p, Len(p), b) = View(more, Len(more), View(q, Len(q), b))
  BY <1>8, ViewJoined
<1>4. PICK v \in Views : v = View(q, Len(q), b)
  <2>1. Len(q) \in 0..Len(q)
    OBVIOUS
  <2>. QED BY <2>1, ViewType
<1>5. View(more, 0 + 1, v) = Drawn(v, s)
  BY <1>1, ViewNext, ViewStart
<1>6. Drawn(v, s).rows = ToSet(k) /\ Drawn(v, s).era = y
  BY DEF Drawn
<1>7. View(p, Len(p), b) = Drawn(v, s)
  <2>1. 0 + 1 = 1
    OBVIOUS
  <2>2. View(p, Len(p), b) = View(more, 0 + 1, v)
    BY <1>1, <1>3, <1>4, <2>1
  <2>. QED BY <1>5, <2>2
<1>. QED BY <1>6, <1>7, <1>9

-------------------------------------------------------------------------------
(* The invariant, and what its steps have in common. *)

\* Before the log has an entry, nobody has been given anything.
Idle(c) ==
    /\ c \in link => Asking(up[c]) # {}
    /\ cursor[c] = 0 /\ cache[c].cursor = 0
    /\ \A i \in DOMAIN down[c] : down[c][i].kind = "sync_reset" /\ down[c][i].seq = 0
    /\ \A h \in ToSet(up[c]) : h.kind = "hello" => h.cursor = 0

\* Kept of the browser c, and what its cache may hold.
KeptAt(c) == Kept(c, link, up[c], down[c], Seen(c), log, era)
CachedAt(c) ==
    sound[c] = era => cache[c].shown \subseteq ToSet(log) /\ cache[c].cursor <= Len(log)

\* The invariant.
Following ==
    /\ era # 0
    /\ log = <<>> => \A c \in Clients : Idle(c)
    /\ \A c \in Clients : KeptAt(c) /\ CachedAt(c)

\* What TypeOK says of one browser.
LEMMA Types ==
    ASSUME TypeOK, NEW c \in Clients
    PROVE  /\ down[c] \in Seq(Downward) /\ up[c] \in Seq(Upward) /\ Seen(c) \in Views
           /\ log \in Seq(Events) /\ era \in Nat /\ Len(log) \in Nat
           /\ Len(down[c]) \in Nat /\ Len(down[c]) \in 0..Len(down[c])
           /\ Seen(c).rows = shown[c] /\ Seen(c).at = cursor[c] /\ Seen(c).era = sound[c]
<1>1. down[c] \in Seq(Downward) /\ up[c] \in Seq(Upward) /\ log \in Seq(Events) /\ era \in Nat
  BY DEF TypeOK
<1>2. Seen(c) \in Views
  BY DEF TypeOK, Seen, Views
<1>3. Seen(c).rows = shown[c] /\ Seen(c).at = cursor[c] /\ Seen(c).era = sound[c]
  BY DEF Seen
<1>4. Len(log) \in Nat /\ Len(down[c]) \in Nat
  BY <1>1
<1>. QED BY <1>1, <1>2, <1>3, <1>4

\* A browser that a step does not touch.
LEMMA Bystander ==
    ASSUME NEW c \in Clients, KeptAt(c), CachedAt(c), log' = log, era' = era,
           up'[c] = up[c], down'[c] = down[c], shown'[c] = shown[c], cursor'[c] = cursor[c],
           sound'[c] = sound[c], cache'[c] = cache[c], c \in link' <=> c \in link
    PROVE  KeptAt(c)' /\ CachedAt(c)' /\ (Idle(c) => Idle(c)')
<1>1. Seen(c)' = Seen(c)
  BY DEF Seen
<1>2. KeptAt(c)'
  BY <1>1 DEF KeptAt, Kept
<1>3. CachedAt(c)'
  BY DEF CachedAt
<1>4. Idle(c) => Idle(c)'
  BY DEF Idle
<1>. QED BY <1>2, <1>3, <1>4

\* No browser has drawn more than there is.
LEMMA EraBound ==
    ASSUME TypeOK, NEW c \in Clients, KeptAt(c)
    PROVE  /\ Stream(down[c], Seen(c), log, era)
           /\ sound[c] <= era
           /\ View(down[c], Len(down[c]), Seen(c)) \in Views
           /\ View(down[c], Len(down[c]), Seen(c)).era <= era
           /\ c \notin link => Mute(up[c])
<1>1. Stream(down[c], Seen(c), log, era) /\ (c \notin link => Mute(up[c]))
  BY DEF KeptAt, Kept
<1>2. 0 \in 0..Len(down[c]) /\ Len(down[c]) \in 0..Len(down[c])
  BY Types
<1>3. View(down[c], 0, Seen(c)).era = sound[c]
  BY Types, ViewStart
<1>4. sound[c] <= era /\ View(down[c], Len(down[c]), Seen(c)).era <= era
  BY <1>1, <1>2, <1>3 DEF Stream
<1>. QED BY <1>1, <1>2, <1>4, Types, ViewType

\* A concatenation, by name.
LEMMA JoinedType ==
    ASSUME NEW q \in Seq(Downward), NEW more \in Seq(Downward)
    PROVE  \E p \in Seq(Downward) : p = q \o more /\ Joined(p, q, more)
<1>1. PICK p : p = q \o more
  OBVIOUS
<1>2. p \in Seq(Downward) /\ Joined(p, q, more)
  BY <1>1 DEF Joined
<1>. QED BY <1>1, <1>2

\* More of the same log.
LEMMA StreamMore ==
    ASSUME NEW q \in Seq(Downward), NEW b \in Views, NEW l \in Seq(Events), NEW x \in Nat,
           Stream(q, b, l, x), NEW more \in Seq(Downward), Honest(more, l, x),
           NEW p \in Seq(Downward), Joined(p, q, more)
    PROVE  /\ View(p, Len(p), b) \in Views
           /\ View(p, Len(p), b) = View(more, Len(more), View(q, Len(q), b))
           /\ Stream(p, b, l, x)
<1>1. ToSet(l) \subseteq ToSet(l) /\ Len(l) <= Len(l) /\ x = x
  OBVIOUS
<1>2. Stream(p, b, l, x)
  BY <1>1, StreamAppend
<1>5. View(p, Len(p), b) = View(more, Len(more), View(q, Len(q), b))
  BY ViewJoined
<1>3. Len(p) \in 0..Len(p)
  OBVIOUS
<1>4. View(p, Len(p), b) \in Views
  BY <1>2, <1>3, ViewType
<1>. QED BY <1>2, <1>4, <1>5

\* A snapshot of the present log makes it complete.
LEMMA RestatedSame ==
    ASSUME NEW q \in Seq(Downward), NEW b \in Views, NEW l \in Seq(Events), NEW x \in Nat,
           Stream(q, b, l, x),
           NEW s \in Downward, s.kind = "sync_reset", s.rows = ToSet(l), s.seq = Len(l), s.era = x,
           NEW more, Only(more, s), NEW p \in Seq(Downward), Joined(p, q, more)
    PROVE  /\ View(p, Len(p), b) \in Views
           /\ Stream(p, b, l, x)
           /\ View(p, Len(p), b).rows = ToSet(l) /\ View(p, Len(p), b).era = x
<1>1. ToSet(l) \subseteq ToSet(l) /\ Len(l) <= Len(l) /\ x = x
  OBVIOUS
<1>3. /\ Stream(p, b, l, x)
      /\ View(p, Len(p), b).rows = ToSet(l) /\ View(p, Len(p), b).era = x
  BY <1>1, Restated
<1>4. Len(p) \in 0..Len(p)
  OBVIOUS
<1>. QED BY <1>3, <1>4, ViewType

\* The snapshot, or the rest of the log, and the answers: whoever said hello has it all.
LEMMA Answered ==
    ASSUME NEW q \in Seq(Downward), NEW b \in Views, NEW l \in Seq(Events), NEW x \in Nat,
           Stream(q, b, l, x), NEW h \in Nat,
           h # 0 => (View(q, Len(q), b).era = x => Covers(l, h, View(q, Len(q), b).rows)),
           NEW s \in Downward, s.kind = "sync_reset", s.rows = ToSet(l), s.seq = Len(l), s.era = x,
           NEW state, state = IF h <= 0 THEN <<s>> ELSE Replay(l, h),
           NEW answers \in Seq(Downward),
           \A i \in DOMAIN answers : answers[i].kind = "ack" /\ answers[i].seq <= Len(l),
           NEW p, p = q \o <<HelloAck>> \o state \o answers
    PROVE  /\ Stream(p, b, l, x)
           /\ View(p, Len(p), b).era = x => ToSet(l) \subseteq View(p, Len(p), b).rows
<1>1. /\ Len(l) \in Nat /\ DOMAIN l = 1..Len(l) /\ ToSet(l) \subseteq ToSet(l)
      /\ Len(l) <= Len(l) /\ Len(q) \in 0..Len(q)
  OBVIOUS
<1>2. PICK greeting \in Seq(Downward) : greeting = <<HelloAck>>
  <2>1. PICK e \in Downward : e = HelloAck
    BY DEF HelloAck, Downward
  <2>2. <<e>> \in Seq(Downward)
    OBVIOUS
  <2>. QED BY <2>1, <2>2
<1>3. \A i \in DOMAIN greeting : greeting[i].kind = "hello_ack"
  BY <1>2 DEF HelloAck
<1>4. Honest(greeting, l, x)
  BY <1>3 DEF Honest
<1>5. PICK v0 \in Views : v0 = View(q, Len(q), b)
  BY <1>1, ViewType
<1>6. PICK q1 \in Seq(Downward), v1 \in Views :
        /\ q1 = q \o greeting /\ v1 = View(q1, Len(q1), b)
        /\ v1 = View(greeting, Len(greeting), v0)
        /\ Stream(q1, b, l, x)
  <2>1. PICK q1 \in Seq(Downward) : q1 = q \o greeting /\ Joined(q1, q, greeting)
    BY JoinedType
  <2>2. Joined(q1, q, greeting)
    BY <2>1
  <2>3. View(q1, Len(q1), b) \in Views /\ Stream(q1, b, l, x)
    BY <1>4, <2>2, StreamMore
  <2>4. View(q1, Len(q1), b) = View(greeting, Len(greeting), View(q, Len(q), b))
    BY <1>4, <2>2, StreamMore
  <2>. QED BY <1>5, <2>1, <2>3, <2>4
<1>7. v1.era = v0.era /\ v0.rows \subseteq v1.rows
  <2>1. \A i \in DOMAIN greeting : greeting[i].kind # "sync_reset"
    BY <1>3
  <2>. QED BY <1>6, <2>1, Collected, SMTT(20)
<1>8. PICK q2 \in Seq(Downward), v2 \in Views :
        /\ q2 = q1 \o state /\ v2 = View(q2, Len(q2), b)
        /\ Stream(q2, b, l, x)
        /\ v2.era = x => ToSet(l) \subseteq v2.rows
  <2>1. CASE h = 0
    <3>1. state = <<s>> /\ state \in Seq(Downward)
      BY <2>1
    <3>2. PICK q2 \in Seq(Downward) : q2 = q1 \o state /\ Joined(q2, q1, state) /\ Only(state, s)
      BY <3>1, JoinedType DEF Only
    <3>5. Joined(q2, q1, state) /\ Only(state, s) /\ Stream(q1, b, l, x)
      BY <1>6, <3>2
    <3>3. /\ Stream(q2, b, l, x)
          /\ View(q2, Len(q2), b) \in Views /\ View(q2, Len(q2), b).rows = ToSet(l)
      BY <3>5, RestatedSame
    <3>4. PICK v2 \in Views : v2 = View(q2, Len(q2), b) /\ v2.rows = ToSet(l)
      BY <3>3
    <3>. QED BY <3>2, <3>3, <3>4
  <2>2. CASE h # 0
    <3>1. PICK replay \in Seq(Downward) : replay = Replay(l, h) /\ replay = state
      <4>1. Replay(l, h) \in Seq(Downward)
        BY ReplayType
      <4>2. state = Replay(l, h)
        BY <2>2
      <4>. QED BY <4>1, <4>2
    <3>2. /\ DOMAIN replay = 1..(Len(l) - h)
          /\ \A i \in 1..(Len(l) - h) : replay[i] = Event(l[h + i], h + i)
      BY <3>1 DEF Replay
    <3>3. ASSUME NEW i \in DOMAIN replay
          PROVE  /\ h + i \in 1..Len(l) /\ replay[i].kind = "event"
                 /\ replay[i].event = l[h + i] /\ replay[i].seq = h + i
      <4>1. PICK n \in Nat : n = Len(l)
        BY <1>1
      <4>2. i \in 1..(n - h)
        BY <3>2, <4>1
      <4>3. h + i \in 1..n
        BY <4>2
      <4>4. replay[i] = Event(l[h + i], h + i)
        BY <3>2
      <4>. QED BY <4>1, <4>3, <4>4 DEF Event
    <3>4. \A i \in DOMAIN replay : replay[i].event \in ToSet(l) /\ replay[i].seq <= Len(l)
      BY <1>1, <3>3 DEF ToSet
    <3>5. Honest(replay, l, x)
      BY <3>3, <3>4 DEF Honest
    <3>6. PICK q2 \in Seq(Downward) : q2 = q1 \o replay /\ Joined(q2, q1, replay)
      BY JoinedType
    <3>13. Joined(q2, q1, replay) /\ Stream(q1, b, l, x)
      BY <1>6, <3>6
    <3>14. View(q2, Len(q2), b) \in Views /\ Stream(q2, b, l, x)
      BY <3>5, <3>13, StreamMore
    <3>15. View(q2, Len(q2), b) = View(replay, Len(replay), View(q1, Len(q1), b))
      BY <3>5, <3>13, StreamMore
    <3>7. /\ View(q2, Len(q2), b) \in Views
          /\ View(q2, Len(q2), b) = View(replay, Len(replay), View(q1, Len(q1), b))
          /\ Stream(q2, b, l, x)
      BY <3>14, <3>15
    <3>8. PICK v2 \in Views : v2 = View(q2, Len(q2), b) /\ v2 = View(replay, Len(replay), v1)
      BY <1>6, <3>7
    <3>9. /\ v2.era = v1.era /\ v1.rows \subseteq v2.rows
          /\ \A i \in DOMAIN replay : replay[i].event \in v2.rows
      <4>1. \A i \in DOMAIN replay : replay[i].kind # "sync_reset" /\ replay[i].kind = "event"
        BY <3>3
      <4>. QED BY <3>8, <4>1, Collected, ZenonT(30)
    <3>10. ASSUME v2.era = x, NEW i \in DOMAIN l PROVE l[i] \in v2.rows
      <4>1. CASE i <= h
        <5>1. Covers(l, h, v0.rows)
          BY <1>5, <1>7, <2>2, <3>9, <3>10
        <5>. QED BY <1>7, <3>9, <4>1, <5>1 DEF Covers
      <4>2. CASE i > h
        <5>1. PICK n \in Nat : n = Len(l) /\ i \in 1..n
          BY <1>1
        <5>2. i - h \in 1..(Len(l) - h) /\ h + (i - h) = i
          <6>1. i - h \in 1..(n - h) /\ h + (i - h) = i
            BY <4>2, <5>1
          <6>. QED BY <5>1, <6>1
        <5>3. i - h \in DOMAIN replay
          BY <3>2, <5>2
        <5>. QED BY <3>3, <3>9, <5>2, <5>3
      <4>3. i \in Nat
        BY <1>1
      <4>. QED BY <4>1, <4>2, <4>3
    <3>11. v2.era = x => ToSet(l) \subseteq v2.rows
      BY <3>10 DEF ToSet
    <3>12. q2 = q1 \o state
      BY <3>1, <3>6
    <3>. QED BY <3>7, <3>8, <3>11, <3>12
  <2>. QED BY <2>1, <2>2
<1>9. Honest(answers, l, x)
  <2>1. \A i \in DOMAIN answers : answers[i].kind # "event" /\ answers[i].kind # "sync_reset"
    OBVIOUS
  <2>. QED BY <2>1 DEF Honest
<1>16. PICK r \in Seq(Downward) : r = q2 \o answers /\ Joined(r, q2, answers)
  BY JoinedType
<1>17. r = p
  BY <1>2, <1>6, <1>8, <1>16
<1>18. Joined(r, q2, answers) /\ Stream(q2, b, l, x)
  BY <1>8, <1>16
<1>10. Stream(r, b, l, x)
  BY <1>9, <1>18, StreamMore
<1>11. View(r, Len(r), b) = View(answers, Len(answers), View(q2, Len(q2), b))
  BY <1>9, <1>18, StreamMore
<1>12. View(p, Len(p), b) = View(answers, Len(answers), v2) /\ Stream(p, b, l, x)
  BY <1>8, <1>10, <1>11, <1>17
<1>13. PICK v3 : v3 = View(answers, Len(answers), v2)
  OBVIOUS
<1>14. v3.era = v2.era /\ v2.rows \subseteq v3.rows
  <2>1. \A i \in DOMAIN answers : answers[i].kind # "sync_reset"
    OBVIOUS
  <2>. QED BY <1>13, <2>1, Collected
<1>15. v3.era = x => ToSet(l) \subseteq v3.rows
  BY <1>8, <1>14
<1>. QED BY <1>12, <1>13, <1>15

\* The answers to a hello are acks of positions in the log.
LEMMA AnswersAreAcks ==
    ASSUME TypeOK, LogOK, NEW ops \in Seq(Ops)
    PROVE  \A i \in DOMAIN Answers(ops) :
              Answers(ops)[i].kind = "ack" /\ Answers(ops)[i].seq <= Len(log)
<1>1. PICK known \in Seq(Ops) : known = Among(ops, {o \in Ops : acked[o] # 0})
  BY AmongElements
<1>2. ToSet(known) = ToSet(ops) \cap {o \in Ops : acked[o] # 0}
  BY <1>1, AmongElements
<1>3. Answers(ops) = [i \in DOMAIN known |-> Ack(known[i], acked[known[i]])]
  BY <1>1 DEF Answers
<1>4. ASSUME NEW i \in DOMAIN known PROVE acked[known[i]] <= Len(log)
  <2>1. PICK o \in Ops : o = known[i] /\ acked[o] # 0
    BY <1>2 DEF ToSet
  <2>2. acked[o] \in DOMAIN log /\ log \in Seq(Events)
    BY <2>1 DEF LogOK, Journal
  <2>. QED BY <2>1, <2>2
<1>. QED BY <1>3, <1>4 DEF Ack

-------------------------------------------------------------------------------
(* The server's steps. *)

\* What a browser's queue is after the server has taken an envelope from it.
LEMMA ReceivesTail ==
    ASSUME TypeOK, NEW c \in Clients, NEW kind, Receives(c, kind)
    PROVE  /\ \A d \in Clients : up'[d] = IF d = c THEN Tail(up[c]) ELSE up[d]
           /\ up[c] # <<>> /\ Head(up[c]).kind = kind
           /\ Head(up[c]) \in ToSet(up[c]) /\ ToSet(Tail(up[c])) \subseteq ToSet(up[c])
           /\ Mute(up[c]) => Mute(Tail(up[c])) /\ ~Head(up[c]).live
           /\ Asking(Tail(up[c])) \subseteq Asking(up[c])
           /\ kind # "hello" \/ ~Head(up[c]).live => Asking(Tail(up[c])) = Asking(up[c])
           /\ kind = "hello" /\ Head(up[c]).live => Head(up[c]) \in Asking(up[c])
<1>1. up[c] \in Seq(Upward) /\ up[c] # <<>> /\ Head(up[c]).kind = kind
  BY DEF TypeOK, Receives
<1>2. \A d \in Clients : up'[d] = IF d = c THEN Tail(up[c]) ELSE up[d]
  BY DEF TypeOK, Receives
<1>. QED BY <1>1, <1>2, TakenFrom

\* A server's step shows no browser anything.
LEMMA SeenSame ==
    ASSUME UNCHANGED browser, UNCHANGED sound
    PROVE  \A c \in Clients : Seen(c)' = Seen(c)
BY DEF Seen, browser

\* The command of an envelope: what waits for an answer is what waited.
LEMMA CommandAsks ==
    ASSUME TypeOK, NEW c \in Clients, Receives(c, "command")
    PROVE  \A d \in Clients : /\ Asking(up'[d]) = Asking(up[d])
                              /\ Mute(up[d]) => Mute(up'[d])
                              /\ ToSet(up'[d]) \subseteq ToSet(up[d])
<1>1. /\ \A d \in Clients : up'[d] = IF d = c THEN Tail(up[c]) ELSE up[d]
      /\ Mute(up[c]) => Mute(Tail(up[c]))
      /\ Asking(Tail(up[c])) = Asking(up[c])
      /\ ToSet(Tail(up[c])) \subseteq ToSet(up[c])
  <2>1. "command" # "hello"
    OBVIOUS
  <2>. QED BY <2>1, ReceivesTail
<1>2. ASSUME NEW d \in Clients
      PROVE  /\ Asking(up'[d]) = Asking(up[d]) /\ (Mute(up[d]) => Mute(up'[d]))
             /\ ToSet(up'[d]) \subseteq ToSet(up[d])
  <2>1. CASE d = c
    BY <1>1, <2>1
  <2>2. CASE d # c
    BY <1>1, <2>2
  <2>. QED BY <2>1, <2>2
<1>. QED BY <1>2

\* Only the queue of the envelope is shorter: nothing else.
LEMMA IgnoreFollows ==
    ASSUME TypeOK, Following, NEW c \in Clients, IgnoreDuplicate(c)
    PROVE  Following'
<1>1. /\ Receives(c, "command") /\ log' = log /\ era' = era /\ link' = link /\ down' = down
      /\ cursor' = cursor /\ cache' = cache /\ sound' = sound
      /\ UNCHANGED browser /\ UNCHANGED sound
  BY DEF IgnoreDuplicate, server, browser
<1>2. \A d \in Clients : /\ Asking(up'[d]) = Asking(up[d]) /\ (Mute(up[d]) => Mute(up'[d]))
                         /\ ToSet(up'[d]) \subseteq ToSet(up[d])
  BY <1>1, CommandAsks
<1>3. ASSUME NEW d \in Clients PROVE KeptAt(d)' /\ CachedAt(d)'
  <2>1. KeptAt(d) /\ CachedAt(d) /\ Seen(d)' = Seen(d)
    BY <1>1, SeenSame DEF Following
  <2>2. d \notin link => Mute(up[d])
    BY <2>1 DEF KeptAt, Kept
  <2>3. Kept(d, link, up'[d], down[d], Seen(d), log, era)
    BY <1>2, <2>1, <2>2, SameHellos DEF KeptAt
  <2>4. KeptAt(d)'
    BY <1>1, <2>1, <2>3 DEF KeptAt
  <2>5. CachedAt(d)'
    BY <1>1, <2>1 DEF CachedAt
  <2>. QED BY <2>4, <2>5
<1>4. ASSUME log' = <<>>, NEW d \in Clients PROVE Idle(d)'
  <2>1. Idle(d)
    BY <1>1, <1>4 DEF Following
  <2>. QED BY <1>1, <1>2, <2>1 DEF Idle
<1>. QED BY <1>1, <1>3, <1>4 DEF Following

\* What a snapshot says.
LEMMA SnapshotFields ==
    ASSUME NEW l, NEW initial, NEW n
    PROVE  /\ Snapshot(l, initial, n).kind = "sync_reset" /\ Snapshot(l, initial, n).rows = ToSet(l)
           /\ Snapshot(l, initial, n).seq = Len(l) /\ Snapshot(l, initial, n).era = n
BY DEF Snapshot

\* A refused command: its sender is given the log.
LEMMA RefuseFollows ==
    ASSUME TypeOK, Following, NEW c \in Clients, Refuse(c)
    PROVE  Following'
<1>1. /\ Receives(c, "command") /\ log' = log /\ era' = era /\ link' = link
      /\ cursor' = cursor /\ cache' = cache /\ sound' = sound
      /\ UNCHANGED browser /\ UNCHANGED sound
  BY DEF Refuse, server, browser
<1>2. PICK s \in Downward : /\ s.kind = "sync_reset" /\ s.rows = ToSet(log)
                            /\ s.seq = Len(log) /\ s.era = era
                            /\ \A d \in Clients : down'[d] =
                                  IF d = c /\ Head(up[c]).live THEN Append(down[c], s) ELSE down[d]
  <2>1. PICK b \in BOOLEAN : b = FALSE
    OBVIOUS
  <2>2. PICK s : s = Snapshot(log, b, era)
    OBVIOUS
  <2>3. s \in Downward
    <3>1. log \in Seq(Events) /\ era \in Nat
      BY DEF TypeOK
    <3>. QED BY <2>2, <3>1, SnapshotType
  <2>4. \A d \in Clients : down'[d] = IF d = c /\ Head(up[c]).live THEN Append(down[c], s) ELSE down[d]
    BY <2>1, <2>2 DEF Refuse, TypeOK
  <2>. QED BY <2>2, <2>3, <2>4, SnapshotFields
<1>3. \A d \in Clients : /\ Asking(up'[d]) = Asking(up[d]) /\ (Mute(up[d]) => Mute(up'[d]))
                         /\ ToSet(up'[d]) \subseteq ToSet(up[d])
  BY <1>1, CommandAsks
<1>4. ASSUME NEW d \in Clients PROVE KeptAt(d)' /\ CachedAt(d)'
  <2>1. KeptAt(d) /\ CachedAt(d) /\ Seen(d)' = Seen(d)
    BY <1>1, SeenSame DEF Following
  <2>2. d \notin link => Mute(up[d])
    BY <2>1 DEF KeptAt, Kept
  <2>3. CachedAt(d)'
    BY <1>1, <2>1 DEF CachedAt
  <2>4. CASE d = c /\ Head(up[c]).live
    <3>1. down'[d] = Append(down[d], s) /\ down[d] \in Seq(Downward)
      BY <1>2, <2>4 DEF TypeOK
    <3>2. PICK more \in Seq(Downward) : more = <<s>> /\ Only(more, s)
      <4>1. <<s>> \in Seq(Downward)
        OBVIOUS
      <4>. QED BY <4>1 DEF Only
    <3>3. PICK p \in Seq(Downward) : p = down[d] \o more /\ Joined(p, down[d], more)
      BY <3>1, <3>2, JoinedType
    <3>4. down'[d] = p
      BY <3>1, <3>2, <3>3
    <3>5. PICK q \in Seq(Downward), b \in Views, l \in Seq(Events), x \in Nat :
            /\ q = down[d] /\ b = Seen(d) /\ l = log /\ x = era
            /\ Stream(q, b, l, x)
      <4>1. Stream(down[d], Seen(d), log, era)
        BY <2>1, EraBound
      <4>. QED BY <4>1, Types
    <3>10. /\ s.kind = "sync_reset" /\ s.rows = ToSet(l) /\ s.seq = Len(l) /\ s.era = x
           /\ Only(more, s) /\ Joined(p, q, more)
      BY <1>2, <3>2, <3>3, <3>5
    <3>11. Stream(p, b, l, x) /\ View(p, Len(p), b).rows = ToSet(l)
      BY <3>5, <3>10, RestatedSame
    <3>6. Stream(p, Seen(d), log, era) /\ View(p, Len(p), Seen(d)).rows = ToSet(log)
      BY <3>5, <3>11
    <3>7. d \in link
      <4>1. Mute(up[c]) => ~Head(up[c]).live
        BY <1>1, ReceivesTail
      <4>. QED BY <2>2, <2>4, <4>1
    <3>8. Kept(d, link, up'[d], p, Seen(d), log, era)
      BY <3>6, <3>7, Complete
    <3>9. KeptAt(d)'
      BY <1>1, <2>1, <3>4, <3>8 DEF KeptAt
    <3>. QED BY <2>3, <3>9
  <2>5. CASE ~(d = c /\ Head(up[c]).live)
    <3>1. down'[d] = down[d]
      BY <1>2, <2>5
    <3>2. Kept(d, link, up'[d], down[d], Seen(d), log, era)
      BY <1>3, <2>1, <2>2, SameHellos DEF KeptAt
    <3>3. KeptAt(d)'
      BY <1>1, <2>1, <3>1, <3>2 DEF KeptAt
    <3>. QED BY <2>3, <3>3
  <2>. QED BY <2>4, <2>5
<1>5. ASSUME log' = <<>>, NEW d \in Clients PROVE Idle(d)'
  <2>1. Idle(d) /\ log = <<>> /\ down[d] \in Seq(Downward)
    BY <1>1, <1>5 DEF Following, TypeOK
  <2>2. s.seq = 0
    BY <1>2, <2>1
  <2>3. \A i \in DOMAIN down'[d] : down'[d][i].kind = "sync_reset" /\ down'[d][i].seq = 0
    <3>1. CASE d = c /\ Head(up[c]).live
      <4>1. down'[d] = Append(down[d], s)
        BY <1>2, <3>1
      <4>2. \A i \in DOMAIN down'[d] : down'[d][i] = s \/ \E j \in DOMAIN down[d] : down'[d][i] = down[d][j]
        BY <2>1, <4>1
      <4>. QED BY <1>2, <2>1, <2>2, <4>2 DEF Idle
    <3>2. CASE ~(d = c /\ Head(up[c]).live)
      BY <1>2, <2>1, <3>2 DEF Idle
    <3>. QED BY <3>1, <3>2
  <2>. QED BY <1>1, <1>3, <2>1, <2>3 DEF Idle
<1>. QED BY <1>1, <1>4, <1>5 DEF Following

\* A hello: whoever said it has the log, and if it was the first of all, the others
\* are yet to be answered.
LEMMA HelloFollows ==
    ASSUME TypeOK, LogOK, Following, NEW c \in Clients, HandleHello(c)
    PROVE  Following'
<1>1. /\ Receives(c, "hello") /\ era' = era /\ link' = link
      /\ cursor' = cursor /\ cache' = cache /\ sound' = sound
      /\ UNCHANGED browser /\ UNCHANGED sound
  BY DEF HandleHello, browser
<1>2. PICK hello : hello = Head(up[c])
  OBVIOUS
<1>3. /\ \A d \in Clients : up'[d] = IF d = c THEN Tail(up[c]) ELSE up[d]
      /\ hello \in ToSet(up[c]) /\ hello.kind = "hello"
      /\ Mute(up[c]) => Mute(Tail(up[c])) /\ ~hello.live
      /\ ~hello.live => Asking(Tail(up[c])) = Asking(up[c])
      /\ hello.live => hello \in Asking(up[c])
  BY <1>1, <1>2, ReceivesTail
<1>4. hello.cursor \in Nat /\ hello.unacked \in Seq(Ops)
  <2>1. hello \in Upward
    BY <1>1, <1>2, ReceivesType
  <2>. QED BY <1>3, <2>1 DEF Upward
<1>5. PICK entries \in Seq(Events) : entries = IF log = <<>> THEN <<Boot>> ELSE log
  <2>1. Boot \in Events /\ log \in Seq(Events)
    BY DEF TypeOK, Events
  <2>2. <<Boot>> \in Seq(Events)
    BY <2>1
  <2>. QED BY <2>1, <2>2
<1>15. PICK b \in BOOLEAN : b = TRUE
  OBVIOUS
<1>6. PICK s \in Downward : /\ s.kind = "sync_reset" /\ s.rows = ToSet(entries)
                            /\ s.seq = Len(entries) /\ s.era = era
                            /\ s = Snapshot(entries, b, era)
  <2>2. PICK s : s = Snapshot(entries, b, era)
    OBVIOUS
  <2>3. s \in Downward
    <3>1. era \in Nat
      BY DEF TypeOK
    <3>. QED BY <2>2, <3>1, SnapshotType
  <2>. QED BY <2>2, <2>3, SnapshotFields
<1>7. PICK state : state = IF hello.cursor <= 0 THEN <<s>> ELSE Replay(entries, hello.cursor)
  OBVIOUS
<1>8. PICK answers \in Seq(Downward) :
        /\ answers = Answers(hello.unacked)
        /\ \A i \in DOMAIN answers : answers[i].kind = "ack" /\ answers[i].seq <= Len(log)
  BY <1>4, AnswersType, AnswersAreAcks
<1>9. /\ log' = entries
      /\ \A d \in Clients : down'[d] =
            IF d = c /\ hello.live THEN down[c] \o <<HelloAck>> \o state \o answers ELSE down[d]
  BY <1>2, <1>5, <1>6, <1>7, <1>8, <1>15 DEF HandleHello, TypeOK
<1>10. Len(log) \in Nat /\ Len(entries) \in Nat /\ entries # <<>> /\ Len(log) <= Len(entries)
       /\ ToSet(log) \subseteq ToSet(entries)
  <2>1. log \in Seq(Events)
    BY DEF TypeOK
  <2>2. CASE log = <<>>
    <3>1. ToSet(<<>>) = {}
      BY DEF ToSet
    <3>. QED BY <1>5, <2>2, <3>1
  <2>3. CASE log # <<>>
    BY <1>5, <2>1, <2>3
  <2>. QED BY <2>2, <2>3
<1>11. ASSUME NEW d \in Clients PROVE Seen(d)' = Seen(d) /\ CachedAt(d)'
  <2>1. CachedAt(d) /\ Seen(d)' = Seen(d) /\ cache[d].cursor \in Nat
    BY <1>1, SeenSame DEF Following, TypeOK
  <2>2. sound[d] = era => cache[d].shown \subseteq ToSet(entries) /\ cache[d].cursor <= Len(entries)
    BY <1>10, <2>1 DEF CachedAt
  <2>. QED BY <1>1, <1>9, <2>1, <2>2 DEF CachedAt
\* Whoever the hello does not answer.
<1>12. ASSUME NEW d \in Clients, ~(d = c /\ hello.live) PROVE KeptAt(d)'
  <2>1. /\ KeptAt(d) /\ (d \notin link => Mute(up[d]))
        /\ down[d] \in Seq(Downward) /\ Seen(d) \in Views
    BY EraBound, Types DEF Following
  <2>2. Kept(d, link, up[d], down[d], Seen(d), entries, era)
    <3>1. CASE log = <<>>
      <4>1. Idle(d)
        BY <3>1 DEF Following
      <4>2. \A h \in Asking(up[d]) : h.cursor = 0
        BY <4>1 DEF Idle, Asking
      <4>3. d \in link => Asking(up[d]) # {}
        BY <4>1 DEF Idle
      <4>4. Kept(d, link, up[d], down[d], Seen(d), <<>>, era)
        BY <2>1, <3>1 DEF KeptAt
      <4>5. entries = <<Boot>> /\ Boot \in Events
        BY <1>5, <3>1 DEF Events
      <4>. QED BY <2>1, <4>2, <4>3, <4>4, <4>5, FirstEntry
    <3>2. CASE log # <<>>
      BY <1>5, <2>1, <3>2 DEF KeptAt
    <3>. QED BY <3>1, <3>2
  <2>3. Asking(up'[d]) = Asking(up[d]) /\ (Mute(up[d]) => Mute(up'[d]))
    <3>1. CASE d = c
      BY <1>3, <1>12, <3>1
    <3>2. CASE d # c
      BY <1>3, <3>2
    <3>. QED BY <3>1, <3>2
  <2>4. Kept(d, link, up'[d], down[d], Seen(d), entries, era)
    BY <2>1, <2>2, <2>3, SameHellos
  <2>5. down'[d] = down[d]
    BY <1>9, <1>12
  <2>. QED BY <1>1, <1>9, <1>11, <2>4, <2>5 DEF KeptAt
\* Whoever it does.
<1>13. ASSUME hello.live PROVE KeptAt(c)'
  <2>1. /\ KeptAt(c) /\ (c \notin link => Mute(up[c]))
        /\ down[c] \in Seq(Downward) /\ Seen(c) \in Views /\ era \in Nat
        /\ log \in Seq(Events) /\ Stream(down[c], Seen(c), log, era)
    BY EraBound, Types DEF Following
  <2>2. c \in link
    BY <1>3, <1>13, <2>1
  <2>3. Stream(down[c], Seen(c), entries, era)
    BY <1>10, <2>1, StreamGrows
  <2>4. PICK v : v = View(down[c], Len(down[c]), Seen(c))
    OBVIOUS
  <2>5. hello.cursor # 0 => (v.era = era => Covers(entries, hello.cursor, v.rows))
    <3>1. CASE log = <<>>
      <4>1. hello.cursor = 0
        BY <1>3, <3>1 DEF Following, Idle
      <4>. QED BY <4>1
    <3>2. CASE log # <<>>
      <4>1. hello \in Asking(up[c]) /\ entries = log
        BY <1>3, <1>5, <1>13, <3>2
      <4>. QED BY <2>1, <2>4, <4>1 DEF KeptAt, Kept
    <3>. QED BY <3>1, <3>2
  <2>6. \A i \in DOMAIN answers : answers[i].kind = "ack" /\ answers[i].seq <= Len(entries)
    <3>1. \A i \in DOMAIN answers : answers[i] \in Downward /\ answers[i].kind = "ack"
      BY <1>8
    <3>2. \A i \in DOMAIN answers : answers[i].seq \in Nat
      BY <3>1, DownwardFields
    <3>. QED BY <1>8, <1>10, <3>2
  <2>7. PICK h \in Nat : h = hello.cursor
    BY <1>4
  <2>8. PICK p : p = down[c] \o <<HelloAck>> \o state \o answers
    OBVIOUS
  <2>9. h # 0 => (View(down[c], Len(down[c]), Seen(c)).era = era =>
                    Covers(entries, h, View(down[c], Len(down[c]), Seen(c)).rows))
    BY <2>4, <2>5, <2>7
  <2>10. state = IF h <= 0 THEN <<s>> ELSE Replay(entries, h)
    BY <1>7, <2>7
  <2>11. /\ Stream(p, Seen(c), entries, era)
         /\ View(p, Len(p), Seen(c)).era = era =>
               ToSet(entries) \subseteq View(p, Len(p), Seen(c)).rows
    BY <1>6, <2>1, <2>3, <2>6, <2>8, <2>9, <2>10, Answered, ZenonT(30)
  <2>12. Kept(c, link, up'[c], p, Seen(c), entries, era)
    BY <2>2, <2>11, Complete
  <2>13. down'[c] = p
    BY <1>9, <1>13, <2>8
  <2>. QED BY <1>1, <1>9, <1>11, <2>12, <2>13 DEF KeptAt
<1>14. \A d \in Clients : KeptAt(d)'
  BY <1>12, <1>13
<1>. QED BY <1>1, <1>9, <1>10, <1>11, <1>14 DEF Following

\* What was drawn of an era that is over says nothing of the new one.
LEMMA StreamLater ==
    ASSUME NEW q \in Seq(Downward), NEW b \in Views, NEW l, NEW x \in Nat, Stream(q, b, l, x),
           NEW k, NEW y \in Nat, x < y
    PROVE  /\ Stream(q, b, k, y)
           /\ View(q, Len(q), b).era # y
<1>1. ASSUME NEW n \in 0..Len(q)
      PROVE  /\ View(q, n, b).era <= y /\ View(q, n, b).era # y
             /\ \A m \in 0..n : View(q, m, b).era <= View(q, n, b).era
  <2>1. View(q, n, b).era \in Nat
    BY ViewType DEF Views
  <2>2. /\ View(q, n, b).era <= x
        /\ \A m \in 0..n : View(q, m, b).era <= View(q, n, b).era
    BY DEF Stream
  <2>. QED BY <2>1, <2>2
<1>2. Len(q) \in 0..Len(q)
  OBVIOUS
<1>. QED BY <1>1, <1>2 DEF Stream

\* What is sent to everybody who is connected.
LEMMA BroadcastTo ==
    ASSUME TypeOK, NEW more \in Seq(Downward), Broadcast(more)
    PROVE  \A d \in Clients :
              /\ d \in link => /\ down'[d] = down[d] \o more
                               /\ down'[d] \in Seq(Downward) /\ Joined(down'[d], down[d], more)
              /\ d \notin link => down'[d] = down[d]
<1>1. ASSUME NEW d \in Clients, d \in link
      PROVE  /\ down'[d] = down[d] \o more /\ down'[d] \in Seq(Downward)
             /\ Joined(down'[d], down[d], more)
  <2>1. down[d] \in Seq(Downward) /\ down'[d] = down[d] \o more
    BY <1>1 DEF TypeOK, Broadcast
  <2>. QED BY <2>1 DEF Joined
<1>2. ASSUME NEW d \in Clients, d \notin link PROVE down'[d] = down[d]
  BY <1>2 DEF Broadcast
<1>. QED BY <1>1, <1>2

\* An entry is appended, and broadcast.
LEMMA GrowthFollows ==
    ASSUME TypeOK, Following, NEW e \in Events, log' = Append(log, e), era' = era, link' = link,
           UNCHANGED browser, UNCHANGED sound,
           \A d \in Clients : Asking(up'[d]) = Asking(up[d]) /\ (Mute(up[d]) => Mute(up'[d])),
           NEW more \in Seq(Downward), Broadcast(more),
           \A i \in DOMAIN more : \/ more[i].kind = "ack" /\ more[i].seq = Len(log) + 1
                                  \/ more[i].kind = "event" /\ more[i].seq = Len(log) + 1 /\ more[i].event = e,
           \E i \in DOMAIN more : more[i].kind = "event" /\ more[i].event = e
    PROVE  Following'
<1>0. log \in Seq(Events)
  BY DEF TypeOK
<1>1. PICK k \in Seq(Events) : k = Append(log, e) /\ k = log'
  <2>1. Append(log, e) \in Seq(Events)
    BY <1>0
  <2>. QED BY <2>1
<1>2. log \in Seq(Events) /\ Len(log) \in Nat /\ Len(k) = Len(log) + 1 /\ k # <<>>
  BY <1>0, <1>1, SMTT(20)
<1>3. ToSet(log) \subseteq ToSet(k) /\ e \in ToSet(k)
  <2>1. /\ \A i \in DOMAIN log : i \in DOMAIN k /\ k[i] = log[i]
        /\ Len(log) + 1 \in DOMAIN k /\ k[Len(log) + 1] = e
    BY <1>1, <1>2
  <2>. QED BY <2>1 DEF ToSet
<1>4. Honest(more, k, era)
  <2>1. \A i \in DOMAIN more :
          /\ more[i].kind # "sync_reset" /\ more[i].seq <= Len(k)
          /\ more[i].kind = "event" => more[i].event = e
    BY <1>2
  <2>. QED BY <1>3, <2>1 DEF Honest
<1>5. \A i \in DOMAIN more : more[i].kind # "sync_reset"
  OBVIOUS
<1>6. ASSUME NEW d \in Clients PROVE KeptAt(d)' /\ CachedAt(d)'
  <2>1. /\ KeptAt(d) /\ CachedAt(d) /\ Seen(d)' = Seen(d)
        /\ (d \notin link => Mute(up[d])) /\ cache[d].cursor \in Nat
        /\ cache' = cache /\ sound' = sound
    BY SeenSame, EraBound DEF Following, TypeOK, browser
  <2>2. PICK q \in Seq(Downward), b \in Views, l \in Seq(Events), x \in Nat :
          q = down[d] /\ b = Seen(d) /\ l = log /\ x = era
    BY Types
  <2>3. PICK p : p = IF d \in link THEN q \o more ELSE q
    OBVIOUS
  <2>4. down'[d] = p
    BY <2>2, <2>3, BroadcastTo
  <2>5. Kept(d, link, up[d], q, b, l, x) /\ Honest(more, k, x) /\ k = Append(l, e)
    BY <1>1, <1>4, <2>1, <2>2 DEF KeptAt
  <2>6. Kept(d, link, up[d], p, b, k, x)
    BY <1>5, <2>3, <2>5, Appended
  <2>7. Kept(d, link, up'[d], p, b, k, x)
    BY <2>1, <2>6, SameHellos
  <2>8. KeptAt(d)'
    BY <1>1, <2>1, <2>2, <2>4, <2>7 DEF KeptAt
  <2>9. sound[d] = era => cache[d].shown \subseteq ToSet(k) /\ cache[d].cursor <= Len(k)
    BY <1>2, <1>3, <2>1 DEF CachedAt
  <2>10. CachedAt(d)'
    BY <1>1, <2>1, <2>9 DEF CachedAt
  <2>. QED BY <2>8, <2>10
<1>. QED BY <1>1, <1>2, <1>6 DEF Following

\* An event of the server's own.
LEMMA EmitFollows ==
    ASSUME TypeOK, Following, NEW e \in Deltas, Emit(e)
    PROVE  Following'
<1>1. PICK n \in Nat : n = Len(log) + 1
  BY DEF TypeOK
<1>2. e \in Events
  BY DEF Events
<1>3. PICK m \in Downward : m = Event(e, n)
  BY <1>1, <1>2 DEF Event, Downward
<1>4. m.kind = "event" /\ m.event = e /\ m.seq = n
  BY <1>3 DEF Event
<1>5. PICK more \in Seq(Downward) : more = <<m>>
  <2>1. <<m>> \in Seq(Downward)
    OBVIOUS
  <2>. QED BY <2>1
<1>6. DOMAIN more = {1} /\ more[1] = m
  BY <1>5
<1>7. /\ log' = Append(log, e) /\ era' = era /\ link' = link /\ UNCHANGED browser
      /\ UNCHANGED sound /\ Broadcast(more) /\ up' = up
  BY <1>1, <1>3, <1>5 DEF Emit
<1>8. \A d \in Clients : Asking(up'[d]) = Asking(up[d]) /\ (Mute(up[d]) => Mute(up'[d]))
  BY <1>7
<1>9. \A i \in DOMAIN more : more[i].kind = "event" /\ more[i].seq = Len(log) + 1 /\ more[i].event = e
  BY <1>1, <1>4, <1>6
<1>10. \E i \in DOMAIN more : more[i].kind = "event" /\ more[i].event = e
  BY <1>4, <1>6
<1>. QED BY <1>2, <1>7, <1>8, <1>9, <1>10, GrowthFollows

\* A command that is executed: the log grows, or a new one begins.
LEMMA ExecuteFollows ==
    ASSUME TypeOK, Following, NEW c \in Clients, Execute(c)
    PROVE  Following'
<1>1. PICK o \in Ops, entries \in Seq(Events) :
        /\ entries = IF o \in ResetOps THEN <<o>> ELSE Append(log, o)
        /\ log' = entries
        /\ era' = IF o \in ResetOps THEN era + 1 ELSE era
        /\ Broadcast(<<Ack(o, Len(entries)), Event(o, Len(entries))>>)
  <2>1. \A p \in Ops : <<p>> \in Seq(Events) /\ Append(log, p) \in Seq(Events)
    BY DEF TypeOK, Events
  <2>. QED BY <2>1 DEF Execute
<1>2. /\ Receives(c, "command") /\ link' = link /\ UNCHANGED browser /\ UNCHANGED sound
  BY DEF Execute
<1>3. \A d \in Clients : /\ Asking(up'[d]) = Asking(up[d]) /\ (Mute(up[d]) => Mute(up'[d]))
  BY <1>2, CommandAsks
<1>4. o \in Events /\ log \in Seq(Events) /\ entries \in Seq(Events) /\ era \in Nat
  <2>1. o \in Events /\ log \in Seq(Events) /\ era \in Nat
    BY DEF TypeOK, Events
  <2>2. PICK e \in Events : e = o
    BY <2>1
  <2>3. <<e>> \in Seq(Events) /\ Append(log, e) \in Seq(Events)
    BY <2>1
  <2>. QED BY <1>1, <2>1, <2>2, <2>3
<1>5. PICK n \in Nat : n = Len(entries)
  BY <1>4
<1>6. PICK a \in Downward, m \in Downward : a = Ack(o, n) /\ m = Event(o, n)
  BY <1>4 DEF Ack, Event, Downward
<1>7. a.kind = "ack" /\ a.seq = n /\ m.kind = "event" /\ m.event = o /\ m.seq = n
  BY <1>6 DEF Ack, Event
<1>8. PICK more \in Seq(Downward) : more = <<a, m>>
  <2>1. <<a, m>> \in Seq(Downward)
    OBVIOUS
  <2>. QED BY <2>1
<1>9. DOMAIN more = {1, 2} /\ more[1] = a /\ more[2] = m
  BY <1>8
<1>10. Broadcast(more)
  BY <1>1, <1>5, <1>6, <1>8
<1>11. \E i \in DOMAIN more : more[i].kind = "event" /\ more[i].event = o
  BY <1>7, <1>9
<1>12. \A i \in DOMAIN more : \/ more[i].kind = "ack" /\ more[i].seq = n
                              \/ more[i].kind = "event" /\ more[i].seq = n /\ more[i].event = o
  BY <1>7, <1>9
<1>13. CASE o \notin ResetOps
  <2>1. log' = Append(log, o) /\ era' = era /\ n = Len(log) + 1
    BY <1>1, <1>4, <1>5, <1>13
  <2>2. \A i \in DOMAIN more :
            \/ more[i].kind = "ack" /\ more[i].seq = Len(log) + 1
            \/ more[i].kind = "event" /\ more[i].seq = Len(log) + 1 /\ more[i].event = o
    BY <1>12, <2>1
  <2>. QED BY <1>2, <1>3, <1>4, <1>10, <1>11, <2>1, <2>2, GrowthFollows
<1>14. CASE o \in ResetOps
  <2>1. entries = <<o>> /\ entries # <<>> /\ n = 1 /\ era' = era + 1 /\ log' = entries
    BY <1>1, <1>5, <1>14
  <2>2. PICK y \in Nat : y = era + 1 /\ y = era' /\ y # 0
    BY <1>4, <2>1
  <2>3. o \in ToSet(entries)
    <3>1. 1 \in DOMAIN entries /\ entries[1] = o
      BY <2>1
    <3>. QED BY <3>1 DEF ToSet
  <2>4. Honest(more, entries, y)
    BY <1>5, <1>12, <2>3 DEF Honest
  <2>5. \A i \in DOMAIN more : more[i].kind # "sync_reset"
    BY <1>12
  <2>6. ASSUME NEW d \in Clients PROVE KeptAt(d)' /\ CachedAt(d)'
    <3>1. /\ Seen(d)' = Seen(d) /\ (d \notin link => Mute(up[d]))
          /\ Stream(down[d], Seen(d), log, era) /\ sound[d] <= era /\ sound' = sound
          /\ sound[d] \in Nat
      BY <1>2, SeenSame, EraBound DEF Following, TypeOK
    <3>2. CachedAt(d)'
      BY <1>4, <2>2, <3>1 DEF CachedAt
    <3>3. PICK q \in Seq(Downward), b \in Views, l \in Seq(Events), x \in Nat :
            q = down[d] /\ b = Seen(d) /\ l = log /\ x = era /\ Stream(q, b, l, x) /\ x < y
      BY <1>4, <2>2, <3>1, Types
    <3>4. Stream(q, b, entries, y) /\ View(q, Len(q), b).era # y
      BY <1>4, <3>3, StreamLater
    <3>5. d \notin link => Mute(up'[d])
      BY <1>3, <3>1
    <3>6. CASE d \in link
      <4>1. PICK p \in Seq(Downward) : p = down'[d] /\ Joined(p, q, more)
        BY <1>10, <3>3, <3>6, BroadcastTo
      <4>2. x < y
        BY <3>3
      <4>3. Stream(p, b, entries, y)
        BY <1>4, <2>4, <3>3, <4>1, <4>2, StreamAppend
      <4>4. View(p, Len(p), b) = View(more, Len(more), View(q, Len(q), b))
        BY <4>1, ViewJoined
      <4>5. View(q, Len(q), b) \in Views
        <5>1. Len(q) \in 0..Len(q)
          OBVIOUS
        <5>. QED BY <5>1, ViewType
      <4>6. View(p, Len(p), b).era # y
        BY <2>5, <3>4, <4>4, <4>5, Collected
      <4>7. Kept(d, link, up'[d], p, b, entries, y)
        BY <3>5, <4>3, <4>6, Foreign
      <4>. QED BY <1>2, <2>1, <2>2, <3>1, <3>2, <3>3, <4>1, <4>7 DEF KeptAt
    <3>7. CASE d \notin link
      <4>1. down'[d] = q
        BY <1>10, <3>3, <3>7, BroadcastTo
      <4>2. Kept(d, link, up'[d], q, b, entries, y)
        BY <3>4, <3>5, Foreign
      <4>. QED BY <1>2, <2>1, <2>2, <3>1, <3>2, <3>3, <4>1, <4>2 DEF KeptAt
    <3>. QED BY <3>6, <3>7
  <2>. QED BY <2>1, <2>2, <2>6 DEF Following
<1>. QED BY <1>13, <1>14

\* A backup is restored: whoever is connected is given the new log.
LEMMA RestoreFollows ==
    ASSUME TypeOK, Following, NEW n \in DOMAIN log, RestoreBackup(n)
    PROVE  Following'
<1>1. PICK f \in BOOLEAN : f = FALSE
  OBVIOUS
<1>2. log \in Seq(Events) /\ era \in Nat /\ DOMAIN log = 1..Len(log)
  BY DEF TypeOK
<1>3. PICK entries : entries = SubSeq(log, 1, n) /\ entries = log'
  BY DEF RestoreBackup
<1>4. entries \in Seq(Events) /\ Len(entries) = n /\ entries # <<>>
  BY <1>2, <1>3
<1>5. PICK y \in Nat : y = era + 1 /\ y = era' /\ y # 0 /\ era < y
  <2>1. era' = era + 1
    BY DEF RestoreBackup
  <2>. QED BY <1>2, <2>1
<1>6. PICK s : s = Snapshot(entries, f, y)
  OBVIOUS
<1>7. /\ s \in Downward /\ s.kind = "sync_reset" /\ s.rows = ToSet(entries)
      /\ s.seq = Len(entries) /\ s.era = y
  BY <1>4, <1>6, SnapshotType, SnapshotFields
<1>8. PICK more \in Seq(Downward) : more = <<s>> /\ Only(more, s)
  <2>1. <<s>> \in Seq(Downward)
    BY <1>7
  <2>. QED BY <2>1 DEF Only
<1>9. Broadcast(more) /\ link' = link /\ up' = up /\ UNCHANGED browser /\ UNCHANGED sound
  BY <1>1, <1>3, <1>5, <1>6, <1>8 DEF RestoreBackup
<1>10. ASSUME NEW d \in Clients PROVE KeptAt(d)' /\ CachedAt(d)'
  <2>1. /\ Seen(d)' = Seen(d) /\ (d \notin link => Mute(up[d]))
        /\ Stream(down[d], Seen(d), log, era) /\ sound[d] <= era /\ sound' = sound
        /\ sound[d] \in Nat
    BY <1>9, SeenSame, EraBound DEF Following, TypeOK
  <2>2. CachedAt(d)'
    BY <1>2, <1>5, <2>1 DEF CachedAt
  <2>3. PICK q \in Seq(Downward), b \in Views, l \in Seq(Events), x \in Nat :
          q = down[d] /\ b = Seen(d) /\ l = log /\ x = era /\ Stream(q, b, l, x) /\ x < y
    BY <1>5, <2>1, Types
  <2>4. CASE d \in link
    <3>1. PICK p \in Seq(Downward) : p = down'[d] /\ Joined(p, q, more)
      BY <1>9, <2>3, <2>4, BroadcastTo
    <3>2. x < y /\ Only(more, s)
      BY <1>8, <2>3
    <3>3. Stream(p, b, entries, y) /\ View(p, Len(p), b).rows = ToSet(entries)
      BY <1>4, <1>7, <2>3, <3>1, <3>2, Restated
    <3>4. Kept(d, link, up'[d], p, b, entries, y)
      BY <2>4, <3>3, Complete
    <3>. QED BY <1>3, <1>5, <1>9, <2>1, <2>2, <2>3, <3>1, <3>4 DEF KeptAt
  <2>5. CASE d \notin link
    <3>1. Stream(q, b, entries, y) /\ View(q, Len(q), b).era # y
      BY <1>4, <2>3, StreamLater
    <3>2. down'[d] = q
      BY <1>9, <2>3, <2>5, BroadcastTo
    <3>3. Kept(d, link, up'[d], q, b, entries, y)
      BY <1>9, <2>1, <3>1, Foreign
    <3>. QED BY <1>3, <1>5, <1>9, <2>1, <2>2, <2>3, <3>2, <3>3 DEF KeptAt
  <2>. QED BY <2>4, <2>5
<1>. QED BY <1>3, <1>4, <1>5, <1>10 DEF Following

-------------------------------------------------------------------------------
(* The browsers' steps. *)

\* What the operators of the protocol compute is the view.
LEMMA AfterIs ==
    ASSUME NEW c \in Clients, NEW k
    PROVE  /\ ShownAfter(c, k) = View(down[c], k, Seen(c)).rows
           /\ CursorAfter(c, k) = View(down[c], k, Seen(c)).at
           /\ SnapshotEra(c, k) = View(down[c], k, Seen(c)).era
           /\ View(down[c], k, Seen(c)) =
                 [rows |-> ShownAfter(c, k), at |-> CursorAfter(c, k), era |-> SnapshotEra(c, k)]
<1>1. Seen(c).rows = shown[c] /\ Seen(c).at = cursor[c] /\ Seen(c).era = sound[c]
  BY DEF Seen
<1>2. \A kind : Envelopes(c, k, kind) = Of(down[c], k, kind)
  BY DEF Envelopes, Of
<1>3. ShownAfter(c, k) = RowsOf(down[c], k, Seen(c).rows)
  BY <1>1, <1>2 DEF ShownAfter, RowsOf
<1>4. CursorAfter(c, k) = PlaceOf(down[c], k, Seen(c).at)
  <2>1. PICK acks, moves, q, at : /\ acks = Of(down[c], k, "ack") /\ q = down[c] /\ at = cursor[c]
                                  /\ moves = Of(down[c], k, "sync_reset") \cup Of(down[c], k, "event")
    OBVIOUS
  <2>2. PICK from : from = IF moves = {} THEN 0 ELSE Max(moves)
    OBVIOUS
  <2>3. PICK base : base = IF from = 0 THEN at ELSE q[from].seq
    OBVIOUS
  <2>4. Moves(c, k) = moves /\ Envelopes(c, k, "ack") = acks
    BY <1>2, <2>1 DEF Moves
  <2>5. CursorAfter(c, k) = Max({base} \cup {q[i].seq : i \in {j \in acks : j > from}})
    BY <2>1, <2>2, <2>3, <2>4 DEF CursorAfter
  <2>6. PlaceOf(q, k, at) = Max({base} \cup {q[i].seq : i \in {j \in acks : j > from}})
    BY <2>1, <2>2, <2>3 DEF PlaceOf
  <2>. QED BY <1>1, <2>1, <2>5, <2>6
<1>5. SnapshotEra(c, k) = EraOf(down[c], k, Seen(c).era)
  BY <1>1, <1>2 DEF SnapshotEra, EraOf
<1>. QED BY <1>3, <1>4, <1>5 DEF View

\* What is drawn in two batches is what would be drawn in one.
LEMMA LaterKept ==
    ASSUME NEW c, NEW on, NEW u, NEW q \in Seq(Downward), NEW b \in Views, NEW l, NEW x,
           Kept(c, on, u, q, b, l, x), NEW k \in 0..Len(q),
           NEW p, p = SubSeq(q, k + 1, Len(q)), NEW v, v = View(q, k, b)
    PROVE  Kept(c, on, u, p, v, l, x)
<1>1. Stream(q, b, l, x)
  BY DEF Kept
<1>2. /\ p \in Seq(Downward) /\ Len(p) = Len(q) - k
      /\ \A m \in 0..Len(p) : View(p, m, v) = View(q, k + m, b)
      /\ Stream(p, v, l, x)
  BY <1>1, StreamSuffix
<1>3. Len(q) \in Nat /\ k \in Nat /\ Len(p) \in Nat /\ Len(p) \in 0..Len(p) /\ k + Len(p) = Len(q)
      /\ \A m \in 0..Len(p) : k + m \in 0..Len(q)
  BY <1>2
<1>4. View(p, Len(p), v) = View(q, Len(q), b)
  BY <1>2, <1>3
<1>5. PICK w : w = View(q, Len(q), b) /\ w = View(p, Len(p), v)
  BY <1>4
<1>6. w.era = x =>
             /\ c \in on /\ Asking(u) = {} => ToSet(l) \subseteq w.rows
             /\ \A h \in Asking(u) : Covers(l, h.cursor, w.rows)
             /\ c \notin on => \A m \in 0..Len(q) :
                   View(q, m, b).era = x /\ Covers(l, View(q, m, b).at, w.rows)
  BY <1>5 DEF Kept
<1>7. w.era = x /\ c \notin on => \A m \in 0..Len(p) :
                   View(p, m, v).era = x /\ Covers(l, View(p, m, v).at, w.rows)
  BY <1>2, <1>3, <1>6
<1>8. c \notin on => Mute(u)
  BY DEF Kept
<1>. QED BY <1>2, <1>5, <1>6, <1>7, <1>8 DEF Kept

\* Commands on the way up change no hello.
LEMMA CommandsAskNothing ==
    ASSUME NEW u \in Seq(Upward), NEW w \in Seq(Upward), \A h \in ToSet(w) : h.kind = "command"
    PROVE  /\ Asking(u \o w) = Asking(u)
           /\ \A h \in ToSet(u \o w) : h.kind = "hello" => h \in ToSet(u)
<1>1. ToSet(u \o w) = ToSet(u) \cup ToSet(w)
  BY Elements
<1>2. \A h \in ToSet(w) : h.kind # "hello"
  OBVIOUS
<1>3. PICK s : s = u \o w
  OBVIOUS
<1>4. Asking(s) = Asking(u)
  BY <1>1, <1>2, <1>3 DEF Asking
<1>5. \A h \in ToSet(s) : h.kind = "hello" => h \in ToSet(u)
  BY <1>1, <1>2, <1>3
<1>. QED BY <1>3, <1>4, <1>5

\* The browser draws a frame.
LEMMA FlushFollows ==
    ASSUME TypeOK, Following, NEW c \in Clients, NEW k \in DOMAIN down[c], Flush(c, k)
    PROVE  Following'
<1>1. PICK q \in Seq(Downward), b \in Views, l \in Seq(Events), x \in Nat :
        /\ q = down[c] /\ b = Seen(c) /\ l = log /\ x = era /\ Stream(q, b, l, x)
        /\ Kept(c, link, up[c], q, b, l, x)
  <2>1. KeptAt(c) /\ Stream(down[c], Seen(c), log, era)
    BY EraBound DEF Following
  <2>. QED BY <2>1, Types DEF KeptAt
<1>2. k \in 1..Len(q) /\ k \in 0..Len(q) /\ k \in Nat /\ Len(q) \in Nat
  BY <1>1
<1>3. PICK v \in Views : v = View(q, k, b)
  BY <1>2, ViewType
<1>4. /\ log' = log /\ era' = era /\ link' = link
  BY DEF Flush, server
<1>5. /\ shown' = [shown EXCEPT ![c] = v.rows]
      /\ cursor' = [cursor EXCEPT ![c] = v.at]
      /\ sound' = [sound EXCEPT ![c] = v.era]
      /\ down' = [down EXCEPT ![c] = SubSeq(down[c], k + 1, Len(down[c]))]
  BY <1>1, <1>3, AfterIs DEF Flush
<1>6. shown'[c] = v.rows /\ cursor'[c] = v.at /\ sound'[c] = v.era
      /\ down'[c] = SubSeq(q, k + 1, Len(q))
  BY <1>1, <1>5 DEF TypeOK
<1>7. Seen(c)' = v
  <2>1. Seen(c)' = [rows |-> v.rows, at |-> v.at, era |-> v.era]
    BY <1>6 DEF Seen
  <2>. QED BY <2>1 DEF Views
<1>8. PICK w \in Seq(Upward) :
        /\ up' = [up EXCEPT ![c] = up[c] \o w]
        /\ \A h \in ToSet(w) : h.kind = "command"
        /\ c \notin link => w = <<>>
  <2>1. PICK resent \in Seq(Ops) : resent = Resent(c, k)
    BY ResentType
  <2>2. PICK on \in BOOLEAN : on = TRUE
    OBVIOUS
  <2>3. PICK w : w = [i \in DOMAIN resent |-> Command(resent[i], on)]
    OBVIOUS
  <2>4. \A i \in 1..Len(resent) : Command(resent[i], on) \in Upward
    BY DEF Command, Upward
  <2>5. w \in Seq(Upward)
    <3>1. Len(resent) \in Nat /\ DOMAIN resent = 1..Len(resent)
      OBVIOUS
    <3>2. w = [i \in 1..Len(resent) |-> Command(resent[i], on)]
      BY <2>3, <3>1
    <3>. QED BY <2>4, <3>1, <3>2
  <2>6. \A h \in ToSet(w) : h.kind = "command"
    BY <2>3 DEF ToSet, Command
  <2>7. up' = [up EXCEPT ![c] = up[c] \o w]
    BY <2>1, <2>2, <2>3 DEF Flush
  <2>8. c \notin link => w = <<>>
    <3>1. c \notin link => resent = <<>>
      BY <2>1 DEF Resent
    <3>. QED BY <2>3, <3>1
  <2>. QED BY <2>5, <2>6, <2>7, <2>8
<1>9. /\ up[c] \in Seq(Upward) /\ up'[c] = up[c] \o w
      /\ Asking(up'[c]) = Asking(up[c])
      /\ \A h \in ToSet(up'[c]) : h.kind = "hello" => h \in ToSet(up[c])
      /\ c \notin link => Mute(up'[c])
  <2>1. up[c] \in Seq(Upward) /\ up'[c] = up[c] \o w
    BY <1>8 DEF TypeOK
  <2>2. /\ Asking(up'[c]) = Asking(up[c])
        /\ \A h \in ToSet(up'[c]) : h.kind = "hello" => h \in ToSet(up[c])
    BY <1>8, <2>1, CommandsAskNothing
  <2>3. c \notin link => Mute(up'[c])
    <3>1. c \notin link => Mute(up[c]) /\ up'[c] = up[c]
      BY <1>1, <1>8, <2>1 DEF Kept
    <3>. QED BY <3>1
  <2>. QED BY <2>1, <2>2, <2>3
<1>10. KeptAt(c)'
  <2>1. PICK p : p = SubSeq(q, k + 1, Len(q))
    OBVIOUS
  <2>2. Kept(c, link, up[c], p, v, l, x)
    BY <1>1, <1>2, <1>3, <2>1, LaterKept
  <2>3. Kept(c, link, up'[c], p, v, l, x)
    BY <1>9, <2>2, SameHellos
  <2>. QED BY <1>1, <1>4, <1>6, <1>7, <2>1, <2>3 DEF KeptAt
<1>11. CachedAt(c)'
  <2>1. v.era = era => v.rows \subseteq ToSet(log) /\ v.at <= Len(log)
    BY <1>1, <1>2, <1>3 DEF Stream
  <2>2. CASE Cacheable(c, k)
    <3>1. cache' = [cache EXCEPT ![c] = [shown |-> v.rows, cursor |-> v.at]]
      BY <1>6, <2>2 DEF Flush
    <3>2. cache'[c].shown = v.rows /\ cache'[c].cursor = v.at
      BY <3>1 DEF TypeOK
    <3>. QED BY <1>4, <1>6, <2>1, <3>2 DEF CachedAt
  <2>3. CASE ~Cacheable(c, k)
    <3>1. cache' = cache
      BY <2>3 DEF Flush
    <3>2. v.era = sound[c]
      <4>1. SnapshotEra(c, k) = sound[c]
        BY <2>3 DEF Cacheable, SnapshotEra
      <4>. QED BY <1>1, <1>3, <4>1, AfterIs
    <3>3. CachedAt(c)
      BY DEF Following
    <3>. QED BY <1>4, <1>6, <3>1, <3>2, <3>3 DEF CachedAt
  <2>. QED BY <2>2, <2>3
<1>12. ASSUME NEW d \in Clients, d # c
       PROVE  /\ KeptAt(d) /\ CachedAt(d) /\ up'[d] = up[d] /\ down'[d] = down[d]
              /\ shown'[d] = shown[d] /\ cursor'[d] = cursor[d] /\ sound'[d] = sound[d]
              /\ cache'[d] = cache[d]
  <2>1. up'[d] = up[d] /\ down'[d] = down[d]
        /\ shown'[d] = shown[d] /\ cursor'[d] = cursor[d] /\ sound'[d] = sound[d]
    BY <1>5, <1>8, <1>12 DEF TypeOK
  <2>2. cache'[d] = cache[d]
    BY <1>12 DEF TypeOK, Flush
  <2>. QED BY <2>1, <2>2 DEF Following
<1>13. \A d \in Clients : KeptAt(d)' /\ CachedAt(d)'
  BY <1>4, <1>10, <1>11, <1>12, Bystander
<1>14. ASSUME log' = <<>>, NEW d \in Clients PROVE Idle(d)'
  <2>1. Idle(d)
    BY <1>4, <1>14 DEF Following
  <2>2. CASE d # c
    BY <1>4, <1>12, <2>1, <2>2, Bystander
  <2>3. CASE d = c
    <3>1. v.at = 0
      <4>1. PICK j \in Nat : j + 1 = k /\ j < Len(q) /\ j \in 0..Len(q)
        <5>1. k - 1 \in Nat /\ (k - 1) + 1 = k /\ k - 1 < Len(q) /\ k - 1 \in 0..Len(q)
          BY <1>2
        <5>. QED BY <5>1
      <4>2. v = Drawn(View(q, j, b), q[k])
        BY <1>3, <4>1, ViewNext
      <4>3. q[k].kind = "sync_reset" /\ q[k].seq = 0
        BY <1>1, <1>2, <2>1, <2>3 DEF Idle
      <4>. QED BY <4>2, <4>3 DEF Drawn
    <3>2. cache'[c].cursor = 0
      <4>1. CASE Cacheable(c, k)
        <5>1. cache' = [cache EXCEPT ![c] = [shown |-> v.rows, cursor |-> v.at]]
          BY <1>6, <4>1 DEF Flush
        <5>. QED BY <3>1, <5>1 DEF TypeOK
      <4>2. CASE ~Cacheable(c, k)
        <5>1. cache' = cache
          BY <4>2 DEF Flush
        <5>. QED BY <2>1, <2>3, <5>1 DEF Idle
      <4>. QED BY <4>1, <4>2
    <3>3. \A i \in DOMAIN down'[c] : down'[c][i].kind = "sync_reset" /\ down'[c][i].seq = 0
      <4>1. \A i \in DOMAIN down'[c] : k + i \in DOMAIN q /\ down'[c][i] = q[k + i]
        BY <1>2, <1>6
      <4>. QED BY <1>1, <2>1, <2>3, <4>1 DEF Idle
    <3>4. c \in link' => Asking(up'[c]) # {}
      BY <1>4, <1>9, <2>1, <2>3 DEF Idle
    <3>5. \A h \in ToSet(up'[c]) : h.kind = "hello" => h.cursor = 0
      BY <1>9, <2>1, <2>3 DEF Idle
    <3>. QED BY <1>6, <2>3, <3>1, <3>2, <3>3, <3>4, <3>5 DEF Idle
  <2>. QED BY <2>2, <2>3
<1>. QED BY <1>4, <1>13, <1>14 DEF Following

\* What a lost socket leaves on the way up is answered nobody.
LEMMA ReceivedMute ==
    ASSUME TypeOK, NEW c \in Clients, NEW j \in 0..Len(up[c])
    PROVE  /\ Mute(Received(c, j))
           /\ \A h \in ToSet(Received(c, j)) : h.kind = "hello" =>
                 \E g \in ToSet(up[c]) : g.kind = "hello" /\ g.cursor = h.cursor
<1>1. up[c] \in Seq(Upward) /\ j \in Nat
  BY DEF TypeOK
<1>2. PICK no \in BOOLEAN : no = FALSE
  OBVIOUS
<1>3. Received(c, j) = [i \in 1..j |-> [up[c][i] EXCEPT !.live = no]]
  BY <1>2 DEF Received
<1>4. ASSUME NEW i \in 1..j
      PROVE  /\ ~Received(c, j)[i].live
             /\ Received(c, j)[i].kind = "hello" =>
                   \E g \in ToSet(up[c]) : g.kind = "hello" /\ g.cursor = Received(c, j)[i].cursor
  <2>1. PICK e \in Upward : e = up[c][i] /\ e \in ToSet(up[c])
    BY <1>1 DEF ToSet
  <2>2. PICK f : f = [e EXCEPT !.live = no]
    OBVIOUS
  <2>3. Received(c, j)[i] = f
    BY <1>3, <2>1, <2>2
  <2>4. f.live = no /\ f.kind = e.kind
    BY <2>2 DEF Upward
  <2>5. e.kind = "hello" => f.cursor = e.cursor
    BY <2>2 DEF Upward
  <2>. QED BY <1>2, <2>1, <2>3, <2>4, <2>5
<1>5. DOMAIN Received(c, j) = 1..j
  BY <1>3
<1>. QED BY <1>4, <1>5 DEF Mute, ToSet

\* What has arrived before the socket was lost, if the place never went beyond the rows.
LEMMA CutOff ==
    ASSUME NEW c, NEW on, c \notin on, NEW u, Mute(u), NEW q \in Seq(Downward), NEW b \in Views,
           NEW l \in Seq(Events), NEW x \in Nat, Stream(q, b, l, x), NEW k \in 0..Len(q),
           NEW p \in Seq(Downward), Len(p) = k, \A i \in 1..k : p[i] = q[i],
           View(q, k, b).era = b.era,
           \A m \in 0..k : Covers(l, View(q, m, b).at, View(q, k, b).rows)
    PROVE  Kept(c, on, u, p, b, l, x)
<1>1. k \in Nat /\ k <= Len(q) /\ Len(q) \in Nat
  OBVIOUS
<1>2. Stream(p, b, l, x)
  <2>1. Len(p) <= Len(q) /\ \A i \in 1..Len(p) : p[i] = q[i]
    BY <1>1
  <2>. QED BY <2>1, StreamPrefix
<1>3. \A m \in 0..k : View(p, m, b) = View(q, m, b)
  <2>1. k <= Len(p) /\ 0 + k <= Len(q) /\ \A i \in 1..k : p[i] = q[0 + i]
    BY <1>1
  <2>2. Continues(p, k, q, 0)
    BY <2>1 DEF Continues
  <2>. QED BY <1>1, <2>2, SamePrefix
<1>4. View(p, Len(p), b) = View(q, k, b)
  BY <1>1, <1>3
<1>5. ASSUME NEW m \in 0..k PROVE View(q, m, b).era = b.era
  <2>1. m \in 0..Len(q) /\ 0 \in 0..m /\ m \in 0..k /\ k \in 0..Len(q)
    BY <1>1
  <2>2. View(q, 0, b).era <= View(q, m, b).era /\ View(q, m, b).era <= View(q, k, b).era
    BY <2>1 DEF Stream
  <2>3. View(q, 0, b) = b /\ b.era \in Nat /\ View(q, m, b).era \in Nat
    BY <2>1, ViewStart, ViewType DEF Views
  <2>. QED BY <2>2, <2>3
<1>6. Asking(u) = {}
  BY DEF Asking, Mute
<1>7. PICK w : w = View(q, k, b) /\ w = View(p, Len(p), b)
  BY <1>4
<1>8. w.era = x => \A m \in 0..Len(p) : View(p, m, b).era = x /\ Covers(l, View(p, m, b).at, w.rows)
  BY <1>3, <1>5, <1>7
<1>. QED BY <1>2, <1>6, <1>7, <1>8 DEF Kept

\* Whoever has lost a socket, the others have not.
LEMMA LostFollows ==
    ASSUME TypeOK, Following, NEW c \in Clients, log' = log, era' = era, link' = link \ {c},
           \A d \in Clients : d # c => /\ up'[d] = up[d] /\ down'[d] = down[d] /\ shown'[d] = shown[d]
                                       /\ cursor'[d] = cursor[d] /\ sound'[d] = sound[d]
                                       /\ cache'[d] = cache[d],
           KeptAt(c)', CachedAt(c)',
           Idle(c) => /\ cursor'[c] = 0 /\ cache'[c].cursor = 0
                      /\ \A i \in DOMAIN down'[c] : down'[c][i].kind = "sync_reset" /\ down'[c][i].seq = 0,
           \A h \in ToSet(up'[c]) : h.kind = "hello" =>
                 \E g \in ToSet(up[c]) : g.kind = "hello" /\ g.cursor = h.cursor
    PROVE  Following'
<1>1. ASSUME NEW d \in Clients, d # c
      PROVE  KeptAt(d)' /\ CachedAt(d)' /\ (Idle(d) => Idle(d)')
  <2>1. KeptAt(d) /\ CachedAt(d) /\ (d \in link' <=> d \in link)
    BY <1>1 DEF Following
  <2>. QED BY <1>1, <2>1, Bystander
<1>2. Idle(c) => Idle(c)'
  <2>1. ASSUME Idle(c) PROVE \A h \in ToSet(up'[c]) : h.kind = "hello" => h.cursor = 0
    BY <2>1 DEF Idle
  <2>. QED BY <2>1 DEF Idle
<1>3. \A d \in Clients : KeptAt(d)' /\ CachedAt(d)'
  BY <1>1
<1>4. log' = <<>> => \A d \in Clients : Idle(d)'
  BY <1>1, <1>2 DEF Following
<1>5. era' # 0
  BY DEF Following
<1>. QED BY <1>3, <1>4, <1>5 DEF Following

\* The socket is lost.
LEMMA LoseFollows ==
    ASSUME TypeOK, Following, NEW c \in Clients, NEW j \in 0..Len(up[c]), NEW k \in 0..Len(down[c]),
           Lose(c, j, k)
    PROVE  Following'
<1>1. PICK q \in Seq(Downward), b \in Views, l \in Seq(Events), x \in Nat :
        q = down[c] /\ b = Seen(c) /\ l = log /\ x = era /\ Stream(q, b, l, x)
  <2>1. Stream(down[c], Seen(c), log, era)
    BY EraBound DEF Following
  <2>. QED BY <2>1, Types
<1>2. k \in 0..Len(q) /\ k \in Nat /\ Len(q) \in Nat
  BY <1>1
<1>3. /\ log' = log /\ era' = era /\ link' = link \ {c}
      /\ up' = [up EXCEPT ![c] = Received(c, j)]
      /\ cursor' = cursor /\ cache' = cache /\ shown' = shown
  BY DEF Lose, server, browser
<1>4. /\ up'[c] = Received(c, j) /\ Mute(up'[c])
      /\ \A h \in ToSet(up'[c]) : h.kind = "hello" =>
            \E g \in ToSet(up[c]) : g.kind = "hello" /\ g.cursor = h.cursor
  BY <1>3, ReceivedMute DEF TypeOK
<1>5. PICK cut \in BOOLEAN :
        /\ cut <=> \/ \E m \in 0..k : Overtaken(ShownAfter(c, k), CursorAfter(c, m))
                   \/ SnapshotEra(c, k) # sound[c]
        /\ sound' = IF cut THEN [sound EXCEPT ![c] = 0] ELSE sound
        /\ down' = [down EXCEPT ![c] = [i \in 1..k |->
              IF cut /\ down[c][i].kind = "sync_reset" THEN [down[c][i] EXCEPT !.era = 0]
              ELSE down[c][i]]]
  BY DEF Lose
<1>6. PICK p \in Seq(Downward) :
        /\ p = down'[c] /\ Len(p) = k
        /\ \A i \in 1..k : p[i] = IF cut /\ q[i].kind = "sync_reset" THEN [q[i] EXCEPT !.era = 0]
                                  ELSE q[i]
  <2>1. down' \in [Clients -> Seq(Downward)]
    BY LoseType DEF TypeOK
  <2>2. down'[c] = [i \in 1..k |-> IF cut /\ q[i].kind = "sync_reset" THEN [q[i] EXCEPT !.era = 0]
                                   ELSE q[i]]
    BY <1>1, <1>5 DEF TypeOK
  <2>3. PICK p \in Seq(Downward) : p = down'[c]
    BY <2>1
  <2>4. DOMAIN p = 1..k
    BY <2>2, <2>3
  <2>5. Len(p) = k
    BY <1>2, <2>4
  <2>6. \A i \in 1..k : p[i] = IF cut /\ q[i].kind = "sync_reset" THEN [q[i] EXCEPT !.era = 0]
                               ELSE q[i]
    BY <2>2, <2>3
  <2>. QED BY <2>3, <2>5, <2>6
<1>7. \A i \in 1..k : /\ p[i].kind = q[i].kind
                      /\ q[i].kind = "sync_reset" => p[i].seq = q[i].seq /\ (cut => p[i].era = 0)
  <2> SUFFICES ASSUME NEW i \in 1..k
               PROVE  /\ p[i].kind = q[i].kind
                      /\ q[i].kind = "sync_reset" => p[i].seq = q[i].seq /\ (cut => p[i].era = 0)
    OBVIOUS
  <2>1. PICK e \in Downward : e = q[i]
    BY <1>2
  <2>2. CASE cut /\ e.kind = "sync_reset"
    <3>1. p[i] = [e EXCEPT !.era = 0]
      BY <1>6, <2>1, <2>2
    <3>2. [e EXCEPT !.era = 0].kind = e.kind /\ [e EXCEPT !.era = 0].seq = e.seq
          /\ [e EXCEPT !.era = 0].era = 0
      BY <2>2 DEF Downward
    <3>. QED BY <2>1, <3>1, <3>2
  <2>3. CASE ~(cut /\ e.kind = "sync_reset")
    BY <1>6, <2>1, <2>3
  <2>. QED BY <2>2, <2>3
<1>8. c \notin link'
  BY <1>3
<1>11. Idle(c) => /\ cursor'[c] = 0 /\ cache'[c].cursor = 0
                    /\ \A i \in DOMAIN down'[c] : down'[c][i].kind = "sync_reset" /\ down'[c][i].seq = 0
  <2>1. \A i \in DOMAIN p : i \in 1..k /\ i \in DOMAIN q
    BY <1>2, <1>6
  <2>2. Idle(c) => \A i \in DOMAIN p : p[i].kind = "sync_reset" /\ p[i].seq = 0
    BY <1>1, <1>7, <2>1 DEF Idle
  <2>. QED BY <1>3, <1>6, <2>2 DEF Idle
<1>12. \A d \in Clients : d # c => /\ up'[d] = up[d] /\ down'[d] = down[d] /\ shown'[d] = shown[d]
                                   /\ cursor'[d] = cursor[d] /\ sound'[d] = sound[d]
                                   /\ cache'[d] = cache[d]
  BY <1>3, <1>5 DEF TypeOK
<1>9. CASE ~cut
  <2>1. sound' = sound /\ \A i \in 1..k : p[i] = q[i]
    BY <1>5, <1>6, <1>9
  <2>2. Seen(c)' = b
    BY <1>1, <1>3, <2>1 DEF Seen
  <2>3. View(q, k, b).era = b.era
    <3>1. SnapshotEra(c, k) = sound[c] /\ b.era = sound[c]
      BY <1>1, <1>5, <1>9 DEF Seen
    <3>. QED BY <1>1, <3>1, AfterIs
  <2>4. ASSUME NEW m \in 0..k PROVE Covers(l, View(q, m, b).at, View(q, k, b).rows)
    <3>1. ~Overtaken(ShownAfter(c, k), CursorAfter(c, m))
      BY <1>5, <1>9
    <3>2. ShownAfter(c, k) = View(q, k, b).rows /\ CursorAfter(c, m) = View(q, m, b).at
      BY <1>1, AfterIs
    <3>. QED BY <1>1, <3>1, <3>2 DEF Overtaken, Covers
  <2>5. PICK on : on = link'
    OBVIOUS
  <2>6. PICK u : u = up'[c]
    OBVIOUS
  <2>7. c \notin on /\ Mute(u)
    BY <1>4, <1>8, <2>5, <2>6
  <2>8. Kept(c, on, u, p, b, l, x)
    BY <1>1, <1>2, <1>6, <2>1, <2>3, <2>4, <2>7, CutOff
  <2>9. KeptAt(c)'
    BY <1>1, <1>3, <1>6, <2>2, <2>5, <2>6, <2>8 DEF KeptAt
  <2>10. CachedAt(c)'
    <3>1. CachedAt(c)
      BY DEF Following
    <3>. QED BY <1>3, <2>1, <3>1 DEF CachedAt
  <2>. QED BY <1>3, <1>4, <1>11, <1>12, <2>9, <2>10, LostFollows
<1>10. CASE cut
  <2>1. sound' = [sound EXCEPT ![c] = 0]
    BY <1>5, <1>10
  <2>2. sound'[c] = 0 /\ \A d \in Clients : d # c => sound'[d] = sound[d]
    BY <2>1 DEF TypeOK
  <2>3. PICK a \in Views : a = Seen(c)' /\ a.era = 0
    <3>1. Seen(c)' = [rows |-> shown[c], at |-> cursor[c], era |-> 0]
      BY <1>3, <2>2 DEF Seen
    <3>2. shown[c] \in SUBSET Events /\ cursor[c] \in Nat /\ 0 \in Nat
      BY DEF TypeOK
    <3>3. [rows |-> shown[c], at |-> cursor[c], era |-> 0] \in Views
      BY <3>2 DEF Views
    <3>. QED BY <3>1, <3>3
  <2>4. x # 0
    BY <1>1 DEF Following
  <2>5. \A i \in DOMAIN p : p[i].kind = "sync_reset" => p[i].era = 0
    <3>1. DOMAIN p = 1..k
      BY <1>6
    <3>. QED BY <1>7, <1>10, <3>1
  <2>6. Stream(p, a, l, x) /\ \A n \in 0..Len(p) : View(p, n, a).era = 0
    BY <2>3, <2>4, <2>5, Erased
  <2>7. View(p, Len(p), a).era # x
    BY <2>4, <2>6
  <2>8. PICK on : on = link'
    OBVIOUS
  <2>9. PICK u : u = up'[c] /\ Mute(u)
    BY <1>4
  <2>10. Kept(c, on, u, p, a, l, x)
    BY <2>6, <2>7, <2>9, Foreign
  <2>11. KeptAt(c)'
    BY <1>1, <1>3, <1>6, <2>3, <2>8, <2>9, <2>10 DEF KeptAt
  <2>12. CachedAt(c)'
    BY <1>1, <1>3, <2>2, <2>4 DEF CachedAt
  <2>. QED BY <1>3, <1>4, <1>11, <1>12, <2>11, <2>12, LostFollows
<1>. QED BY <1>9, <1>10

\* The page is loaded again.
LEMMA ReloadFollows ==
    ASSUME TypeOK, Following, NEW c \in Clients, NEW j \in 0..Len(up[c]), Reload(c, j)
    PROVE  Following'
<1>1. /\ log' = log /\ era' = era /\ link' = link \ {c} /\ cache' = cache
      /\ up' = [up EXCEPT ![c] = Received(c, j)]
      /\ down' = [down EXCEPT ![c] = <<>>]
      /\ shown' = [shown EXCEPT ![c] = cache[c].shown]
      /\ cursor' = [cursor EXCEPT ![c] = cache[c].cursor]
  BY DEF Reload, server
<1>2. PICK cut \in BOOLEAN :
        /\ cut <=> Overtaken(cache[c].shown, cache[c].cursor)
        /\ sound' = IF cut THEN [sound EXCEPT ![c] = 0] ELSE sound
  BY DEF Reload
<1>3. /\ up'[c] = Received(c, j) /\ Mute(up'[c])
      /\ \A h \in ToSet(up'[c]) : h.kind = "hello" =>
            \E g \in ToSet(up[c]) : g.kind = "hello" /\ g.cursor = h.cursor
  BY <1>1, ReceivedMute DEF TypeOK
<1>4. \A d \in Clients : d # c => /\ up'[d] = up[d] /\ down'[d] = down[d] /\ shown'[d] = shown[d]
                                  /\ cursor'[d] = cursor[d] /\ sound'[d] = sound[d]
                                  /\ cache'[d] = cache[d]
  BY <1>1, <1>2 DEF TypeOK
<1>5. PICK p \in Seq(Downward) : p = <<>> /\ p = down'[c] /\ Len(p) = 0
  <2>1. down'[c] = <<>>
    BY <1>1 DEF TypeOK
  <2>2. PICK p \in Seq(Downward) : p = <<>> /\ Len(p) = 0
    <3>1. <<>> \in Seq(Downward) /\ Len(<<>>) = 0
      OBVIOUS
    <3>. QED BY <3>1
  <2>. QED BY <2>1, <2>2
<1>6. shown'[c] = cache[c].shown /\ cursor'[c] = cache[c].cursor
      /\ shown'[c] \in SUBSET Events /\ cursor'[c] \in Nat
  BY <1>1 DEF TypeOK
<1>7. PICK n \in Nat : n = sound'[c] /\ n = IF cut THEN 0 ELSE sound[c]
  <2>1. sound'[c] = IF cut THEN 0 ELSE sound[c]
    BY <1>2 DEF TypeOK
  <2>2. sound[c] \in Nat
    BY DEF TypeOK
  <2>. QED BY <2>1, <2>2
<1>8. PICK a \in Views : a = Seen(c)' /\ a.rows = cache[c].shown /\ a.at = cache[c].cursor /\ a.era = n
  <2>1. Seen(c)' = [rows |-> shown'[c], at |-> cursor'[c], era |-> n]
    BY <1>7 DEF Seen
  <2>2. [rows |-> shown'[c], at |-> cursor'[c], era |-> n] \in Views
    BY <1>6 DEF Views
  <2>. QED BY <1>6, <2>1, <2>2
<1>9. PICK l \in Seq(Events), x \in Nat : l = log /\ x = era /\ x # 0
  BY DEF TypeOK, Following
<1>10. PICK on : on = link' /\ c \notin on
  <2>1. c \notin link'
    BY <1>1
  <2>. QED BY <2>1
<1>11. PICK u : u = up'[c] /\ Mute(u)
  BY <1>3
<1>12. View(p, 0, a) = a /\ View(p, Len(p), a) = a
  BY <1>5, ViewStart
<1>13. CASE cut
  <2>1. a.era = 0
    BY <1>7, <1>8, <1>13
  <2>2. \A i \in DOMAIN p : p[i].kind = "sync_reset" => p[i].era = 0
    BY <1>5
  <2>3. Stream(p, a, l, x)
    BY <1>9, <2>1, <2>2, Erased
  <2>4. View(p, Len(p), a).era # x
    BY <1>9, <1>12, <2>1
  <2>5. Kept(c, on, u, p, a, l, x)
    BY <1>11, <2>3, <2>4, Foreign
  <2>6. KeptAt(c)'
    BY <1>1, <1>5, <1>8, <1>9, <1>10, <1>11, <2>5 DEF KeptAt
  <2>7. CachedAt(c)'
    BY <1>1, <1>7, <1>9, <1>13 DEF CachedAt
  <2>8. Idle(c) => /\ cursor'[c] = 0 /\ cache'[c].cursor = 0
                   /\ \A i \in DOMAIN down'[c] : down'[c][i].kind = "sync_reset" /\ down'[c][i].seq = 0
    BY <1>1, <1>5, <1>6 DEF Idle
  <2>. QED BY <1>1, <1>3, <1>4, <2>6, <2>7, <2>8, LostFollows
<1>14. CASE ~cut
  <2>1. a.era = sound[c] /\ CachedAt(c) /\ sound[c] <= x
    BY <1>7, <1>8, <1>9, <1>14, EraBound DEF Following
  <2>2. a.era <= x /\ (a.era = x => a.rows \subseteq ToSet(l) /\ a.at <= Len(l))
    BY <1>8, <1>9, <2>1 DEF CachedAt
  <2>3. Honest(p, l, x)
    BY <1>5 DEF Honest
  <2>4. Stream(p, a, l, x)
    BY <2>2, <2>3, Heard
  <2>5. Covers(l, a.at, a.rows)
    BY <1>2, <1>8, <1>9, <1>14 DEF Covers, Overtaken
  <2>6. PICK k : k = 0
    OBVIOUS
  <2>7. /\ k \in 0..Len(p) /\ Len(p) = k /\ \A i \in 1..k : p[i] = p[i]
        /\ View(p, k, a).era = a.era
        /\ \A m \in 0..k : Covers(l, View(p, m, a).at, View(p, k, a).rows)
    BY <1>5, <1>12, <2>5, <2>6
  <2>8. c \notin on /\ Mute(u)
    BY <1>10, <1>11
  <2>9. Kept(c, on, u, p, a, l, x)
    BY <2>4, <2>7, <2>8, CutOff
  <2>10. KeptAt(c)'
    BY <1>1, <1>5, <1>8, <1>9, <1>10, <1>11, <2>9 DEF KeptAt
  <2>11. CachedAt(c)'
    BY <1>1, <1>7, <1>14, <2>1 DEF CachedAt
  <2>12. Idle(c) => /\ cursor'[c] = 0 /\ cache'[c].cursor = 0
                    /\ \A i \in DOMAIN down'[c] : down'[c][i].kind = "sync_reset" /\ down'[c][i].seq = 0
    BY <1>1, <1>5, <1>6 DEF Idle
  <2>. QED BY <1>1, <1>3, <1>4, <2>10, <2>11, <2>12, LostFollows
<1>. QED BY <1>13, <1>14

\* What is sent joins what is under way.
LEMMA Sent ==
    ASSUME NEW u \in Seq(Upward), NEW h \in Upward
    PROVE  ToSet(Append(u, h)) = ToSet(u) \cup {h}
<1>1. PICK w \in Seq(Upward) : w = <<h>> /\ Append(u, h) = u \o w
  <2>1. <<h>> \in Seq(Upward) /\ Append(u, h) = u \o <<h>>
    OBVIOUS
  <2>. QED BY <2>1
<1>2. ToSet(w) = {h}
  BY <1>1 DEF ToSet
<1>3. ToSet(u \o w) = ToSet(u) \cup ToSet(w)
  BY Elements
<1>. QED BY <1>1, <1>2, <1>3

\* A socket opens.
LEMMA ConnectFollows ==
    ASSUME TypeOK, Following, NEW c \in Clients, Connect(c)
    PROVE  Following'
<1>1. /\ log' = log /\ era' = era /\ c \notin link /\ link' = link \cup {c} /\ cache' = cache
      /\ down' = down /\ shown' = shown /\ cursor' = cursor /\ sound' = sound
      /\ up' = [up EXCEPT ![c] = Append(up[c], Hello(c))]
  BY DEF Connect, server, browser
<1>2. PICK h \in Upward : h = Hello(c) /\ h.kind = "hello" /\ h.live /\ h.cursor = cursor[c]
  <2>1. PICK on \in BOOLEAN : on = TRUE
    OBVIOUS
  <2>2. PICK h : h = [kind |-> "hello", cursor |-> cursor[c], unacked |-> outbox[c], live |-> on]
    OBVIOUS
  <2>3. h = Hello(c)
    BY <2>1, <2>2 DEF Hello
  <2>4. cursor[c] \in Nat /\ outbox[c] \in Seq(Ops)
    BY DEF TypeOK
  <2>5. h \in [kind : {"hello"}, cursor : Nat, unacked : Seq(Ops), live : BOOLEAN]
    BY <2>2, <2>4
  <2>6. h \in Upward
    BY <2>5 DEF Upward
  <2>7. h.kind = "hello" /\ h.live = on /\ h.cursor = cursor[c]
    BY <2>2
  <2>. QED BY <2>1, <2>3, <2>6, <2>7
<1>3. PICK u \in Seq(Upward) : u = up[c]
  BY DEF TypeOK
<1>4. PICK w : w = up'[c] /\ ToSet(w) = ToSet(u) \cup {h}
  <2>1. up'[c] = Append(u, h)
    BY <1>1, <1>2, <1>3 DEF TypeOK
  <2>. QED BY <2>1, Sent
<1>5. KeptAt(c) /\ CachedAt(c) /\ Mute(u)
  BY <1>1, <1>3, EraBound DEF Following
<1>6. Asking(w) = {h}
  BY <1>2, <1>4, <1>5 DEF Asking, Mute
<1>7. PICK q \in Seq(Downward), b \in Views, l \in Seq(Events), x \in Nat :
        /\ q = down[c] /\ b = Seen(c) /\ l = log /\ x = era /\ b.at = cursor[c]
        /\ Kept(c, link, u, q, b, l, x)
  BY <1>3, <1>5, Types DEF KeptAt
<1>8. PICK v : v = View(q, Len(q), b)
  OBVIOUS
<1>9. v.era = x => Covers(l, cursor[c], v.rows)
  <2>1. 0 \in 0..Len(q) /\ View(q, 0, b).at = cursor[c]
    BY <1>7, ViewStart
  <2>. QED BY <1>1, <1>7, <1>8, <2>1 DEF Kept
<1>10. PICK on : on = link' /\ c \in on
  BY <1>1
<1>11. Kept(c, on, w, q, b, l, x)
  <2>1. Stream(q, b, l, x)
    BY <1>7 DEF Kept
  <2>. QED BY <1>2, <1>6, <1>8, <1>9, <1>10, <2>1 DEF Kept
<1>12. Seen(c)' = b
  BY <1>1, <1>7 DEF Seen
<1>13. KeptAt(c)'
  BY <1>1, <1>4, <1>7, <1>10, <1>11, <1>12 DEF KeptAt
<1>14. CachedAt(c)'
  BY <1>1, <1>5 DEF CachedAt
<1>15. Idle(c) => Idle(c)'
  <2>1. Idle(c) => \A g \in ToSet(w) : g.kind = "hello" => g.cursor = 0
    BY <1>2, <1>3, <1>4 DEF Idle
  <2>. QED BY <1>1, <1>4, <1>6, <2>1 DEF Idle
<1>16. ASSUME NEW d \in Clients, d # c PROVE KeptAt(d)' /\ CachedAt(d)' /\ (Idle(d) => Idle(d)')
  <2>1. KeptAt(d) /\ CachedAt(d) /\ (d \in link' <=> d \in link)
    BY <1>1, <1>16 DEF Following
  <2>2. up'[d] = up[d]
    BY <1>1, <1>16 DEF TypeOK
  <2>. QED BY <1>1, <2>1, <2>2, Bystander
<1>17. \A d \in Clients : KeptAt(d)' /\ CachedAt(d)'
  BY <1>13, <1>14, <1>16
<1>18. log' = <<>> => \A d \in Clients : Idle(d)'
  BY <1>1, <1>15, <1>16 DEF Following
<1>. QED BY <1>1, <1>17, <1>18 DEF Following

\* An operation is dispatched.
LEMMA DispatchFollows ==
    ASSUME TypeOK, Following, NEW c \in Clients, NEW o \in Ops, Dispatch(c, o)
    PROVE  Following'
<1>1. /\ log' = log /\ era' = era /\ link' = link /\ cache' = cache
      /\ down' = down /\ shown' = shown /\ cursor' = cursor /\ sound' = sound
  BY DEF Dispatch, server
<1>2. PICK h \in Upward : h.kind = "command" /\
        up' = IF c \in link THEN [up EXCEPT ![c] = Append(up[c], h)] ELSE up
  <2>1. PICK on \in BOOLEAN : on = TRUE
    OBVIOUS
  <2>2. PICK h : h = [kind |-> "command", op |-> o, live |-> on]
    OBVIOUS
  <2>3. h \in [kind : {"command"}, op : Ops, live : BOOLEAN]
    BY <2>2
  <2>4. h \in Upward /\ h.kind = "command"
    BY <2>2, <2>3 DEF Upward
  <2>5. h = Command(o, TRUE)
    BY <2>1, <2>2 DEF Command
  <2>. QED BY <2>4, <2>5 DEF Dispatch
<1>3. ASSUME NEW d \in Clients
      PROVE  /\ Asking(up'[d]) = Asking(up[d])
             /\ d \notin link => up'[d] = up[d]
             /\ \A g \in ToSet(up'[d]) : g.kind = "hello" => g \in ToSet(up[d])
  <2>1. CASE d = c /\ c \in link
    <3>1. up[c] \in Seq(Upward) /\ up'[c] = Append(up[c], h)
      BY <1>2, <2>1 DEF TypeOK
    <3>2. PICK w : w = up'[c] /\ ToSet(w) = ToSet(up[c]) \cup {h}
      BY <3>1, Sent
    <3>3. Asking(w) = Asking(up[c])
      BY <1>2, <3>2 DEF Asking
    <3>. QED BY <1>2, <2>1, <3>2, <3>3
  <2>2. CASE ~(d = c /\ c \in link)
    <3>1. up'[d] = up[d]
      BY <1>2, <2>2 DEF TypeOK
    <3>. QED BY <3>1
  <2>. QED BY <2>1, <2>2
<1>4. ASSUME NEW d \in Clients PROVE KeptAt(d)' /\ CachedAt(d)' /\ (Idle(d) => Idle(d)')
  <2>1. Seen(d)' = Seen(d) /\ down'[d] = down[d] /\ CachedAt(d)
    BY <1>1 DEF Seen, Following
  <2>2. PICK w : w = up'[d]
    OBVIOUS
  <2>3. PICK b : b = Seen(d)
    OBVIOUS
  <2>4. Kept(d, link, up[d], down[d], b, log, era) /\ (d \notin link => Mute(w))
        /\ Asking(w) = Asking(up[d])
    BY <1>3, <2>2, <2>3, EraBound DEF Following, KeptAt
  <2>5. Kept(d, link, w, down[d], b, log, era)
    BY <2>4, SameHellos
  <2>6. KeptAt(d)'
    BY <1>1, <2>1, <2>2, <2>3, <2>5 DEF KeptAt
  <2>7. CachedAt(d)'
    BY <1>1, <2>1 DEF CachedAt
  <2>8. Idle(d) => Idle(d)'
    BY <1>1, <1>3 DEF Idle
  <2>. QED BY <2>6, <2>7, <2>8
<1>5. \A d \in Clients : KeptAt(d)' /\ CachedAt(d)'
  BY <1>4
<1>6. log' = <<>> => \A d \in Clients : Idle(d)'
  BY <1>1, <1>4 DEF Following
<1>. QED BY <1>1, <1>5, <1>6 DEF Following

-------------------------------------------------------------------------------
(* What follows. *)

\* Nobody is connected, nothing is drawn.
LEMMA FollowingInit == Init => Following
<1>1. SUFFICES ASSUME Init PROVE Following
  OBVIOUS
<1>2. era = 1 /\ log = <<>> /\ link = {}
  BY <1>1 DEF Init
<1>3. ASSUME NEW c \in Clients
      PROVE  /\ up[c] = <<>> /\ down[c] = <<>> /\ cursor[c] = 0 /\ shown[c] = {} /\ sound[c] = 1
             /\ cache[c].cursor = 0 /\ cache[c].shown = {}
  BY <1>1 DEF Init, NoCache
<1>4. ASSUME NEW c \in Clients PROVE Idle(c) /\ KeptAt(c) /\ CachedAt(c)
  <2>1. PICK q \in Seq(Downward), u \in Seq(Upward) : q = <<>> /\ u = <<>> /\ Len(q) = 0 /\ DOMAIN q = {} /\ ToSet(u) = {}
    <3>1. <<>> \in Seq(Downward) /\ <<>> \in Seq(Upward) /\ Len(<<>>) = 0 /\ DOMAIN <<>> = {}
      OBVIOUS
    <3>2. ToSet(<<>>) = {}
      BY DEF ToSet
    <3>. QED BY <3>1, <3>2
  <2>2. PICK b \in Views : b = Seen(c) /\ b.at = 0 /\ b.era = 1 /\ b.rows = {}
    <3>1. Seen(c) = [rows |-> {}, at |-> 0, era |-> 1]
      BY <1>3 DEF Seen
    <3>2. [rows |-> {}, at |-> 0, era |-> 1] \in Views
      BY DEF Views
    <3>. QED BY <3>1, <3>2
  <2>3. PICK l \in Seq(Events), x \in Nat : l = log /\ x = era /\ x = 1 /\ Len(l) = 0 /\ DOMAIN l = {}
    <3>1. <<>> \in Seq(Events) /\ Len(<<>>) = 0 /\ DOMAIN <<>> = {} /\ 1 \in Nat
      OBVIOUS
    <3>. QED BY <1>2, <3>1
  <2>4. Honest(q, l, x)
    BY <2>1 DEF Honest
  <2>5. b.era <= x /\ (b.era = x => b.rows \subseteq ToSet(l) /\ b.at <= Len(l))
    BY <2>2, <2>3
  <2>6. Stream(q, b, l, x)
    BY <2>4, <2>5, Heard
  <2>7. Mute(u) /\ Asking(u) = {}
    BY <2>1 DEF Mute, Asking
  <2>8. View(q, Len(q), b) = b /\ \A m \in 0..Len(q) : View(q, m, b) = b
    BY <2>1, ViewStart
  <2>9. \A n, rows : Covers(l, n, rows)
    BY <2>3 DEF Covers
  <2>10. Kept(c, link, u, q, b, l, x)
    BY <1>2, <2>2, <2>3, <2>6, <2>7, <2>8, <2>9 DEF Kept
  <2>11. KeptAt(c)
    BY <1>3, <2>1, <2>2, <2>3, <2>10 DEF KeptAt
  <2>12. CachedAt(c)
    BY <1>2, <1>3 DEF CachedAt
  <2>13. Idle(c)
    BY <1>2, <1>3, <2>1 DEF Idle
  <2>. QED BY <2>11, <2>12, <2>13
<1>. QED BY <1>2, <1>4 DEF Following

\* Every step keeps Following.
LEMMA FollowingStep == TypeOK /\ LogOK /\ Following /\ [Next]_vars => Following'
<1>1. SUFFICES ASSUME TypeOK, LogOK, Following, [Next]_vars PROVE Following'
  OBVIOUS
<1>2. CASE UNCHANGED vars
  <2>1. /\ log' = log /\ era' = era /\ link' = link /\ up' = up /\ down' = down /\ shown' = shown
        /\ cursor' = cursor /\ sound' = sound /\ cache' = cache
    BY <1>2 DEF vars, server, browser
  <2>2. ASSUME NEW d \in Clients PROVE KeptAt(d)' /\ CachedAt(d)' /\ (Idle(d) => Idle(d)')
    <3>1. KeptAt(d) /\ CachedAt(d)
      BY <1>1 DEF Following
    <3>. QED BY <2>1, <3>1, Bystander
  <2>. QED BY <1>1, <2>1, <2>2 DEF Following
<1>3. CASE Next
  BY <1>1, <1>3, HelloFollows, ExecuteFollows, IgnoreFollows, RefuseFollows, FlushFollows,
     ConnectFollows, DispatchFollows, ReloadFollows, LoseFollows, EmitFollows, RestoreFollows
     DEF Next, Serve, Frame
<1>. QED BY <1>1, <1>2, <1>3

\* So it holds in every state, with the types and the journal it needs.
LEMMA FollowingHolds == Spec => []Following
BY FollowingInit, FollowingStep, TypesHold, JournalAgrees, PTL DEF Spec

\* With nothing under way the browser's view is what it shows.
LEMMA FollowingCatchesUp == TypeOK /\ Following => CaughtUp
<1>1. SUFFICES ASSUME TypeOK, Following, NEW c \in link,
                      up[c] = <<>>, down[c] = <<>>, sound[c] = era
               PROVE  shown[c] = ToSet(log) /\ cursor[c] <= Len(log)
  BY DEF CaughtUp
<1>2. c \in Clients
  BY <1>1 DEF TypeOK
<1>3. PICK q \in Seq(Downward), b \in Views, l \in Seq(Events), x \in Nat, u \in Seq(Upward) :
        /\ q = down[c] /\ b = Seen(c) /\ l = log /\ x = era /\ u = up[c]
        /\ b.rows = shown[c] /\ b.at = cursor[c] /\ b.era = x
        /\ Kept(c, link, u, q, b, l, x)
  BY <1>1, <1>2, Types DEF Following, KeptAt
<1>4. Len(q) = 0 /\ 0 \in 0..Len(q) /\ View(q, 0, b) = b
  BY <1>1, <1>3, ViewStart
<1>5. PICK v : v = View(q, Len(q), b) /\ v = b
  BY <1>4
<1>6. Asking(u) = {}
  BY <1>1, <1>3 DEF Asking, ToSet
<1>7. ToSet(l) \subseteq b.rows
  BY <1>1, <1>3, <1>5, <1>6 DEF Kept
<1>8. b.rows \subseteq ToSet(l) /\ b.at <= Len(l)
  BY <1>3, <1>4 DEF Kept, Stream
<1>. QED BY <1>3, <1>7, <1>8

\* A browser with nothing under way shows the log, its cursor not past the head,
\* whatever sockets and pages were lost before: unless it lost its place, or the log
\* was replaced by a reset, or by a restore that it missed, and no snapshot has come
\* since (CaughtUp, sync-adapter.ts applyEvent and applySnapshot).
THEOREM EveryoneCatchesUp == Spec => []CaughtUp
BY FollowingHolds, TypesHold, FollowingCatchesUp, PTL

===============================================================================
