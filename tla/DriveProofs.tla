----------------------------- MODULE DriveProofs -----------------------------
(***************************************************************************)
(* What is proved of the secure uploads for any number of capabilities,     *)
(* files and requests: the types, that a start capability opens one upload  *)
(* whatever fails; where completions of one file do not overlap and the     *)
(* database does not fail, that what was acknowledged is kept and what was  *)
(* deleted stays deleted; and where R2 and the Worker do not fail, that no   *)
(* object is left without a row, a session or a request of its own.          *)
(***************************************************************************)
EXTENDS DriveUploads, TLAPS

SweepPcs == {"sweep", "sweepAbort", "sweepUnregister"}
FilePcs  == Pcs \ {"idle", "sweep", "consume", "create"}

\* What a request carries at each of its steps.
Carries(q) ==
    /\ q.pc \in {"consume", "create"} => q.start \in Starts
    /\ q.pc \in FilePcs => q.file \in Files
    /\ q.pc \in SweepPcs => q.rest \subseteq Files
    /\ q.pc \in {"undo", "wrongSize"} => q.rest \subseteq Traces

ShapeOK == TypeOK /\ \A r \in Requests : Carries(reqs[r])

USE DEF Traces

LEMMA IdleIsARequest == Idle \in Request /\ Carries(Idle)
BY DEF Idle, Request, Carries, Pcs, CompletePcs, SweepPcs, FilePcs

\* Only one request moves, to something a request may carry.
LEMMA OneMoves ==
    ASSUME ShapeOK, NEW r \in Requests, NEW q, q \in Request, Carries(q),
           reqs' = [reqs EXCEPT ![r] = q]
    PROVE  reqs' \in [Requests -> Request] /\ \A p \in Requests : Carries(reqs'[p])
BY DEF ShapeOK, TypeOK, Carries

LEMMA InitShape == Init => ShapeOK
BY IdleIsARequest, UploadsAssumption DEF Init, ShapeOK, TypeOK, UploadStates, Parts

LEMMA AnswerMoves ==
    ASSUME ShapeOK, NEW r \in Requests, Answer(r)
    PROVE  reqs' \in [Requests -> Request] /\ \A p \in Requests : Carries(reqs'[p])
BY IdleIsARequest, OneMoves DEF Answer

\* A step within a request: the pc changes, what it carries does not.
LEMMA GotoMoves ==
    ASSUME ShapeOK, NEW r \in Requests, NEW pc \in Pcs, Goto(r, pc),
           Carries([reqs[r] EXCEPT !.pc = pc])
    PROVE  reqs' \in [Requests -> Request] /\ \A p \in Requests : Carries(reqs'[p])
<1>. DEFINE q == [reqs[r] EXCEPT !.pc = pc]
<1>0. reqs \in [Requests -> Request]
  BY DEF ShapeOK, TypeOK
<1>1. q \in Request
  BY <1>0 DEF Request
<1>2. reqs' = [reqs EXCEPT ![r] = q]
  BY <1>0 DEF Goto
<1>. QED  BY <1>1, <1>2, OneMoves

\* The sweep's own steps set what is left to abort.
LEMMA SweepShape ==
    ASSUME ShapeOK, NEW r \in Requests,
           CreateCommand(r) \/ SweepNext(r) \/ BeginStart(r)
    PROVE  ShapeOK'
<1>. USE DEF Request, Carries, Pcs, CompletePcs, SweepPcs, FilePcs, Idle
<1>1. ASSUME NEW q, q \in Request, Carries(q), reqs' = [reqs EXCEPT ![r] = q],
             UNCHANGED <<stores, expired, history>>
      PROVE  ShapeOK'
  BY <1>1, OneMoves DEF ShapeOK, TypeOK, stores, history
<1>2. CASE CreateCommand(r)
  <2>. DEFINE q == [Idle EXCEPT !.pc = "sweep", !.rest = sessions \cap expired]
  <2>1. q \in Request /\ Carries(q)
    BY DEF ShapeOK, TypeOK
  <2>. QED  BY <1>1, <1>2, <2>1 DEF CreateCommand
<1>3. CASE SweepNext(r)
  <2>1. PICK f \in reqs[r].rest :
            reqs' = [reqs EXCEPT ![r].pc = "sweepAbort", ![r].file = f, ![r].rest = @ \ {f}]
    BY <1>3 DEF SweepNext
  <2>. DEFINE q == [reqs[r] EXCEPT !.pc = "sweepAbort", !.file = f, !.rest = @ \ {f}]
  <2>2. reqs[r] \in Request /\ reqs[r].pc = "sweep" /\ reqs[r].rest \subseteq Files
    BY <1>3 DEF SweepNext, ShapeOK, TypeOK
  <2>3. q \in Request /\ Carries(q)
    BY <2>2
  <2>4. reqs' = [reqs EXCEPT ![r] = q]
    BY <2>1 DEF ShapeOK, TypeOK
  <2>. QED  BY <1>1, <1>3, <2>3, <2>4 DEF SweepNext
<1>4. CASE BeginStart(r)
  <2>1. PICK s \in Starts : reqs' = [reqs EXCEPT ![r] = [Idle EXCEPT !.pc = "consume", !.start = s]]
    BY <1>4 DEF BeginStart
  <2>. DEFINE q == [Idle EXCEPT !.pc = "consume", !.start = s]
  <2>2. q \in Request /\ Carries(q)
    OBVIOUS
  <2>. QED  BY <1>1, <1>4, <2>1, <2>2 DEF BeginStart
<1>. QED  BY <1>2, <1>3, <1>4

\* What is left of the type invariant when the requests are set aside.
StoresOK ==
    /\ starts \in [Starts -> {"none", "live", "consumed"}]
    /\ expired \subseteq Starts \cup Files
    /\ uploads \in [Files -> [state : UploadStates, part : Parts]]
    /\ objects \in [Files -> {"absent", "short", "whole"}]
    /\ sessions \subseteq Files
    /\ rows \subseteq Files
    /\ openedBy \in [Files -> Starts \cup {Owner, Null}]
    /\ acked \subseteq Files
    /\ removal \in [Files -> {"none", "asked", "done"}]

Moved == reqs' \in [Requests -> Request] /\ \A p \in Requests : Carries(reqs'[p])

LEMMA ShapeParts == ShapeOK' <=> StoresOK' /\ Moved
BY DEF ShapeOK, TypeOK, StoresOK, Moved

LEMMA ShapeNow == ShapeOK => StoresOK
BY DEF ShapeOK, TypeOK, StoresOK

LEMMA StartShape ==
    ASSUME ShapeOK, NEW r \in Requests,
           InsertStart(r) \/ Consume(r) \/ CreateUpload(r) \/ Register(r) \/ Release(r)
    PROVE  ShapeOK'
<1>. USE DEF UploadStates, Parts, StoresOK, history
<1>0. StoresOK /\ reqs[r] \in Request /\ Carries(reqs[r])
  BY ShapeNow DEF ShapeOK, TypeOK
<1>1. CASE InsertStart(r)
  <2>1. Moved
    BY <1>1, AnswerMoves DEF InsertStart, Moved
  <2>2. StoresOK'
    BY <1>1, <1>0 DEF InsertStart
  <2>. QED  BY <2>1, <2>2, ShapeParts
<1>2. CASE Consume(r)
  <2>1. reqs[r].pc = "consume" /\ reqs[r].start \in Starts
    BY <1>2, <1>0 DEF Consume, Carries
  <2>2. "create" \in Pcs /\ Carries([reqs[r] EXCEPT !.pc = "create"])
    BY <2>1, <1>0 DEF Pcs, Carries, Request, FilePcs, SweepPcs
  <2>3. Moved
    BY <1>2, <2>2, AnswerMoves, GotoMoves DEF Consume, Moved
  <2>4. StoresOK'
    BY <1>2, <1>0, <2>1 DEF Consume
  <2>. QED  BY <2>3, <2>4, ShapeParts
<1>3. CASE CreateUpload(r)
  <2>1. CASE Answer(r) /\ UNCHANGED <<uploads, openedBy>>
    BY <1>3, <2>1, <1>0, AnswerMoves, ShapeParts DEF CreateUpload, Moved
  <2>2. ASSUME NEW f \in Files,
               SetUpload(f, "open"), Draw(f, reqs[r].start),
               reqs' = [reqs EXCEPT ![r].pc = "register", ![r].file = f]
        PROVE  ShapeOK'
    <3>. DEFINE q == [reqs[r] EXCEPT !.pc = "register", !.file = f]
    <3>1. q \in Request /\ Carries(q)
      BY <1>0 DEF Request, Carries, Pcs, SweepPcs, FilePcs
    <3>2. reqs' = [reqs EXCEPT ![r] = q]
      BY <2>2 DEF ShapeOK, TypeOK
    <3>3. Moved
      BY <3>1, <3>2, OneMoves DEF Moved
    <3>4. reqs[r].start \in Starts
      BY <1>3, <1>0 DEF CreateUpload, Carries
    <3>5. StoresOK'
      BY <1>3, <2>2, <1>0, <3>4 DEF CreateUpload, SetUpload, Draw
    <3>. QED  BY <3>3, <3>5, ShapeParts
  <2>. QED  BY <1>3, <2>1, <2>2 DEF CreateUpload
<1>4. CASE Register(r) \/ Release(r)
  <2>1. reqs[r].pc \in {"register", "release"} /\ reqs[r].file \in Files
    BY <1>4, <1>0 DEF Register, Release, Carries, FilePcs, Pcs, CompletePcs
  <2>2. "release" \in Pcs /\ Carries([reqs[r] EXCEPT !.pc = "release"])
    BY <2>1, <1>0 DEF Pcs, Carries, Request, FilePcs, SweepPcs
  <2>3. Moved
    BY <1>4, <2>2, AnswerMoves, GotoMoves DEF Register, Release, Moved
  <2>4. StoresOK'
    BY <1>4, <1>0, <2>1 DEF Register, Release, SetUpload
  <2>. QED  BY <2>3, <2>4, ShapeParts
<1>. QED  BY <1>1, <1>2, <1>3, <1>4

\* Beginnings: a completion, an abort, a deletion of a file that exists.
LEMMA BeginShape ==
    ASSUME ShapeOK, NEW r \in Requests,
           CreateFile(r) \/ BeginComplete(r) \/ BeginAbort(r) \/ BeginDelete(r)
    PROVE  ShapeOK'
<1>0. StoresOK
  BY ShapeNow
<1>1. ASSUME NEW f \in Files, NEW pc \in {"existing", "abort", "removeObject", "insert"},
             reqs' = [reqs EXCEPT ![r] = [Idle EXCEPT !.pc = pc, !.file = f]]
      PROVE  Moved
  <2>. DEFINE q == [Idle EXCEPT !.pc = pc, !.file = f]
  <2>1. q \in Request /\ Carries(q)
    BY <1>1 DEF Idle, Request, Carries, Pcs, CompletePcs, SweepPcs, FilePcs
  <2>. QED  BY <1>1, <2>1, OneMoves DEF Moved
<1>2. CASE BeginComplete(r)
  <2>1. Moved
    BY <1>1, <1>2 DEF BeginComplete
  <2>. QED  BY <1>0, <1>2, <2>1, ShapeParts DEF BeginComplete, StoresOK, stores, history
<1>3. CASE BeginAbort(r)
  <2>1. Moved
    BY <1>1, <1>3 DEF BeginAbort
  <2>. QED  BY <1>0, <1>3, <2>1, ShapeParts DEF BeginAbort, StoresOK, stores, history
<1>4. CASE BeginDelete(r)
  <2>1. PICK f \in rows :
            /\ reqs' = [reqs EXCEPT ![r] = [Idle EXCEPT !.pc = "removeObject", !.file = f]]
            /\ removal' = [removal EXCEPT ![f] = IF @ = "none" THEN "asked" ELSE @]
    BY <1>4 DEF BeginDelete
  <2>2. f \in Files
    BY <1>0, <2>1 DEF StoresOK
  <2>3. Moved
    BY <1>1, <2>1, <2>2
  <2>4. StoresOK'
    BY <1>0, <1>4, <2>1 DEF BeginDelete, StoresOK, stores
  <2>. QED  BY <2>3, <2>4, ShapeParts
<1>5. CASE CreateFile(r)
  <2>1. PICK f \in Files :
            /\ Draw(f, Owner) /\ SetUpload(f, "single") /\ SetObject(f, "whole")
            /\ \/ reqs' = [reqs EXCEPT ![r] = [Idle EXCEPT !.pc = "insert", !.file = f]]
               \/ UNCHANGED reqs
    BY <1>5 DEF CreateFile
  <2>2. Moved
    BY <1>1, <2>1 DEF Moved, ShapeOK, TypeOK, Carries
  <2>3. uploads' \in [Files -> [state : UploadStates, part : Parts]]
    BY <1>0, <2>1 DEF StoresOK, SetUpload, UploadStates, Parts
  <2>4. /\ openedBy' \in [Files -> Starts \cup {Owner, Null}]
        /\ objects' \in [Files -> {"absent", "short", "whole"}]
    BY <1>0, <2>1 DEF StoresOK, Draw, SetObject
  <2>5. StoresOK'
    BY <1>0, <1>5, <2>3, <2>4 DEF CreateFile, StoresOK
  <2>. QED  BY <2>2, <2>5, ShapeParts
<1>. QED  BY <1>2, <1>3, <1>4, <1>5

\* A request that holds a file id holds it through the next step.
LEMMA KeepsFile ==
    ASSUME ShapeOK, NEW r \in Requests, reqs[r].pc \in FilePcs, NEW pc \in Pcs,
           pc \notin SweepPcs \cup {"undo", "wrongSize", "consume", "create"}, Goto(r, pc)
    PROVE  Moved
<1>1. Carries([reqs[r] EXCEPT !.pc = pc])
  BY DEF ShapeOK, TypeOK, Carries, Request
<1>. QED  BY <1>1, GotoMoves DEF Moved

LEMMA UndoMoves ==
    ASSUME ShapeOK, NEW r \in Requests, reqs[r].pc \in FilePcs,
           NEW pc \in {"undo", "wrongSize"}, NEW rest \in SUBSET Traces,
           reqs' = [reqs EXCEPT ![r].pc = pc, ![r].rest = rest]
    PROVE  Moved
<1>. DEFINE q == [reqs[r] EXCEPT !.pc = pc, !.rest = rest]
<1>0. reqs[r] \in Request /\ Carries(reqs[r])
  BY DEF ShapeOK, TypeOK
<1>1. /\ q.pc = pc /\ q.rest = rest /\ q.file = reqs[r].file /\ q.start = reqs[r].start
  BY <1>0 DEF Request
<1>2. pc \in Pcs /\ pc \notin SweepPcs \cup {"consume", "create"}
  BY DEF Pcs, CompletePcs, SweepPcs
<1>3. q \in Request
  BY <1>0, <1>1, <1>2 DEF Request
<1>4. Carries(q)
  BY <1>0, <1>1, <1>2 DEF Carries
<1>5. reqs' = [reqs EXCEPT ![r] = q]
  BY DEF ShapeOK, TypeOK
<1>. QED  BY <1>3, <1>4, <1>5, OneMoves DEF Moved

LEMMA MeasureMoves ==
    ASSUME ShapeOK, NEW r \in Requests, reqs[r].pc \in FilePcs, NEW o, Measure(r, o)
    PROVE  Moved
<1>1. CASE o = "whole"
  <2>1. "insert" \in Pcs \ (SweepPcs \cup {"undo", "wrongSize", "consume", "create"})
    BY DEF Pcs, CompletePcs, SweepPcs
  <2>. QED  BY <1>1, <2>1, KeepsFile DEF Measure
<1>2. CASE o # "whole"
  <2>1. TracesOf(reqs[r].file) \ {"row"} \in SUBSET Traces
    BY DEF TracesOf
  <2>. QED  BY <1>2, <2>1, UndoMoves DEF Measure
<1>. QED  BY <1>1, <1>2

LEMMA CompleteShape ==
    ASSUME ShapeOK, NEW r \in Requests, Complete(r)
    PROVE  ShapeOK'
<1>. USE DEF StoresOK
<1>0. StoresOK /\ reqs[r] \in Request /\ Carries(reqs[r])
  BY ShapeNow DEF ShapeOK, TypeOK
<1>1. reqs[r].pc \in CompletePcs
  BY DEF Complete, FindExisting, GetObject, Finish, Insert, ReadBack, Forget, Undo, CompletePcs
<1>2. reqs[r].pc \in FilePcs /\ reqs[r].file \in Files
  BY <1>0, <1>1 DEF Carries, FilePcs, Pcs, CompletePcs
<1>3. \A pc \in {"object", "finish", "readBack", "forget"} :
         pc \in Pcs \ (SweepPcs \cup {"undo", "wrongSize", "consume", "create"})
  BY DEF Pcs, CompletePcs, SweepPcs
<1>4. BeginUndo(r) => Moved
  <2>1. TracesOf(reqs[r].file) \in SUBSET Traces
    BY DEF TracesOf
  <2>. QED  BY <1>2, <2>1, UndoMoves DEF BeginUndo
<1>5. Answer(r) => Moved
  BY AnswerMoves DEF Moved
<1>6. CASE FindExisting(r)
  BY <1>0, <1>2, <1>3, <1>5, <1>6, KeepsFile, ShapeParts DEF FindExisting, AfterExisting, stores
<1>7. CASE GetObject(r)
  <2>1. Moved
    BY <1>2, <1>3, <1>5, <1>7, KeepsFile, MeasureMoves DEF GetObject
  <2>. QED  BY <1>0, <1>7, <2>1, ShapeParts DEF GetObject, stores, history
<1>8. CASE Finish(r)
  <2>1. Moved
    BY <1>2, <1>5, <1>8, MeasureMoves DEF Finish
  <2>2. /\ uploads' \in [Files -> [state : UploadStates, part : Parts]]
        /\ objects' \in [Files -> {"absent", "short", "whole"}]
    <3>1. CASE UNCHANGED <<uploads, objects>>
      BY <1>0, <3>1
    <3>2. CASE /\ uploads[reqs[r].file].part # "missing"
               /\ uploads' = [uploads EXCEPT ![reqs[r].file].state = "completed"]
               /\ objects' = [objects EXCEPT ![reqs[r].file] = uploads[reqs[r].file].part]
      BY <1>0, <1>2, <3>2 DEF UploadStates, Parts
    <3>. QED  BY <1>8, <3>1, <3>2 DEF Finish, SetUpload, SetObject
  <2>3. StoresOK'
    BY <1>0, <1>8, <2>2 DEF Finish, history
  <2>. QED  BY <2>1, <2>3, ShapeParts
<1>9. CASE Insert(r)
  <2>1. Moved
    BY <1>2, <1>3, <1>4, <1>9, KeepsFile DEF Insert
  <2>2. StoresOK'
    BY <1>0, <1>2, <1>9 DEF Insert, history
  <2>. QED  BY <2>1, <2>2, ShapeParts
<1>10. CASE ReadBack(r)
  <2>1. Moved
    BY <1>2, <1>3, <1>4, <1>5, <1>10, KeepsFile DEF ReadBack
  <2>. QED  BY <1>0, <1>2, <1>10, <2>1, ShapeParts DEF ReadBack, stores
<1>11. CASE Forget(r)
  <2>1. Moved
    BY <1>4, <1>5, <1>11 DEF Forget
  <2>2. StoresOK'
    BY <1>0, <1>2, <1>11 DEF Forget
  <2>. QED  BY <2>1, <2>2, ShapeParts
<1>12. CASE Undo(r)
  <2>1. PICK x \in reqs[r].rest :
           IF reqs[r].rest = {x} THEN Answer(r)
                                 ELSE reqs' = [reqs EXCEPT ![r].rest = @ \ {x}]
    BY <1>12 DEF Undo
  <2>2. ASSUME reqs' = [reqs EXCEPT ![r].rest = @ \ {x}] PROVE Moved
    <3>. DEFINE q == [reqs[r] EXCEPT !.rest = @ \ {x}]
    <3>1. q \in Request /\ Carries(q)
      BY <1>0, <1>12 DEF Undo, Carries, Request, SweepPcs
    <3>2. reqs' = [reqs EXCEPT ![r] = q]
      BY <2>2 DEF ShapeOK, TypeOK
    <3>. QED  BY <3>1, <3>2, OneMoves DEF Moved
  <2>3. Moved
    BY <1>5, <2>1, <2>2
  <2>4. \A trace \in reqs[r].rest : trace \in {"object", "session", "row"}
    BY <1>0, <1>12 DEF Undo, Carries
  <2>5. /\ objects' \in [Files -> {"absent", "short", "whole"}]
        /\ rows' \subseteq Files /\ sessions' \subseteq Files
    BY <1>0, <1>2, <1>12, <2>4 DEF Undo, DropObject, SetObject
  <2>6. StoresOK'
    BY <1>0, <1>12, <2>5 DEF Undo
  <2>. QED  BY <2>3, <2>6, ShapeParts
<1>. QED  BY <1>6, <1>7, <1>8, <1>9, <1>10, <1>11, <1>12 DEF Complete

LEMMA ReturnMoves ==
    ASSUME ShapeOK, NEW r \in Requests,
           reqs[r].pc \in {"abort", "unregister"} \cup SweepPcs, Return(r)
    PROVE  Moved
<1>. DEFINE q == [reqs[r] EXCEPT !.pc = "sweep", !.file = Null]
<1>1. CASE reqs[r].pc \in {"abort", "unregister"}
  BY <1>1, AnswerMoves DEF Return, Moved
<1>2. CASE reqs[r].pc \notin {"abort", "unregister"}
  <2>0. reqs[r] \in Request /\ reqs[r].rest \subseteq Files
    BY <1>2 DEF ShapeOK, TypeOK, Carries
  <2>1. q \in Request /\ Carries(q)
    BY <2>0 DEF Carries, Request, Pcs, SweepPcs, FilePcs
  <2>2. reqs' = [reqs EXCEPT ![r] = q]
    BY <1>2 DEF Return, ShapeOK, TypeOK
  <2>. QED  BY <2>1, <2>2, OneMoves DEF Moved
<1>. QED  BY <1>1, <1>2

LEMMA EndShape ==
    ASSUME ShapeOK, NEW r \in Requests,
           AbortUpload(r) \/ Unregister(r) \/ RemoveObject(r) \/ RemoveRow(r) \/ Lose(r)
    PROVE  ShapeOK'
<1>. USE DEF StoresOK, history
<1>0. StoresOK /\ reqs[r] \in Request /\ Carries(reqs[r])
  BY ShapeNow DEF ShapeOK, TypeOK
<1>1. Answer(r) => Moved
  BY AnswerMoves DEF Moved
<1>2. CASE AbortUpload(r)
  <2>1. reqs[r].pc \in {"abort", "sweepAbort"} /\ reqs[r].file \in Files
    BY <1>0, <1>2 DEF AbortUpload, Carries, FilePcs, Pcs
  <2>2. \A pc \in {"unregister", "sweepUnregister"} :
           pc \in Pcs /\ (reqs[r].pc = "sweepAbort" \/ pc \notin SweepPcs
                            => Carries([reqs[r] EXCEPT !.pc = pc]))
    BY <1>0, <2>1 DEF Pcs, Carries, Request, SweepPcs, FilePcs
  <2>3. Moved
    BY <1>1, <1>2, <2>1, <2>2, GotoMoves, ReturnMoves
    DEF AbortUpload, Unregistering, Moved, SweepPcs
  <2>4. StoresOK'
    BY <1>0, <1>2, <2>1 DEF AbortUpload, SetUpload, UploadStates, Parts
  <2>. QED  BY <2>3, <2>4, ShapeParts
<1>3. CASE Unregister(r)
  <2>1. Moved
    BY <1>3, ReturnMoves DEF Unregister, SweepPcs
  <2>2. StoresOK'
    BY <1>0, <1>3 DEF Unregister
  <2>. QED  BY <2>1, <2>2, ShapeParts
<1>4. CASE RemoveObject(r)
  <2>1. reqs[r].pc \in FilePcs /\ "removeRow" \in Pcs
        /\ "removeRow" \notin SweepPcs \cup {"undo", "wrongSize", "consume", "create"}
    BY <1>4 DEF RemoveObject, FilePcs, Pcs, SweepPcs, CompletePcs
  <2>2. Moved
    BY <1>1, <1>4, <2>1, KeepsFile DEF RemoveObject
  <2>3. StoresOK'
    BY <1>0, <1>4 DEF RemoveObject, SetObject
  <2>. QED  BY <2>2, <2>3, ShapeParts
<1>5. CASE RemoveRow(r)
  <2>1. Moved
    BY <1>1, <1>5 DEF RemoveRow
  <2>2. StoresOK'
    BY <1>0, <1>5 DEF RemoveRow
  <2>. QED  BY <2>1, <2>2, ShapeParts
<1>6. CASE Lose(r)
  BY <1>0, <1>1, <1>6, ShapeParts DEF Lose, stores
<1>. QED  BY <1>2, <1>3, <1>4, <1>5, <1>6

LEMMA StepShape == ShapeOK /\ [Next]_vars => ShapeOK'
<1> SUFFICES ASSUME ShapeOK, [Next]_vars PROVE ShapeOK'
  OBVIOUS
<1>0. StoresOK
  BY ShapeNow
<1>1. CASE Expire
  <2>1. Moved
    BY <1>1 DEF Expire, Moved, ShapeOK, TypeOK, Carries
  <2>. QED  BY <1>0, <1>1, <2>1, ShapeParts DEF Expire, StoresOK, stores, history
<1>2. ASSUME NEW f \in Files, UploadPart(f) PROVE ShapeOK'
  <2>1. Moved
    BY <1>2 DEF UploadPart, StorePart, Moved, ShapeOK, TypeOK, Carries
  <2>2. StoresOK'
    BY <1>0, <1>2 DEF UploadPart, StorePart, StoresOK, history, UploadStates, Parts
  <2>. QED  BY <2>1, <2>2, ShapeParts
<1>3. CASE UNCHANGED vars
  BY <1>3 DEF vars, stores, history, ShapeOK, TypeOK, Carries
<1>4. CASE OpenMultipart
  <2>1. Moved
    BY <1>4 DEF OpenMultipart, Moved, ShapeOK, TypeOK, Carries
  <2>2. StoresOK'
    BY <1>0, <1>4 DEF OpenMultipart, StoresOK, Draw, SetUpload, UploadStates, Parts
  <2>. QED  BY <2>1, <2>2, ShapeParts
<1>. QED  BY <1>1, <1>2, <1>3, <1>4, SweepShape, StartShape, BeginShape, CompleteShape, EndShape DEF Next

\* The types of Drive's uploads, for any faults and any overlap; and that a request
\* at each step has the capability, the file and the deletes that the step uses.
THEOREM ShapeHolds == Spec => []ShapeOK
BY InitShape, StepShape, PTL DEF Spec

THEOREM UploadTypesHold == Spec => []TypeOK
<1>1. ShapeOK => TypeOK
  BY DEF ShapeOK
<1>. QED  BY <1>1, ShapeHolds, PTL

-----------------------------------------------------------------------------
(* A start capability opens one upload.                                     *)

\* The capability with which an upload is being created is consumed, has opened
\* none, and is in no other request's hands at that step.
SingleInv ==
    /\ \A f \in Files : openedBy[f] \in Starts => starts[openedBy[f]] = "consumed"
    /\ \A r \in Requests : reqs[r].pc = "create" =>
          /\ starts[reqs[r].start] = "consumed"
          /\ \A f \in Files : openedBy[f] # reqs[r].start
    /\ \A r, q \in Requests :
          reqs[r].pc = "create" /\ reqs[q].pc = "create" /\ reqs[r].start = reqs[q].start => r = q
    /\ StartsAreSingleUse

\* A step that leaves capabilities and uploads alone and brings nobody to "create".
QuietStep ==
    /\ UNCHANGED <<starts, openedBy>>
    /\ \A p \in Requests : reqs'[p].pc = "create" => reqs'[p] = reqs[p]

LEMMA QuietIsSingle == SingleInv /\ QuietStep => SingleInv'
BY DEF SingleInv, QuietStep, StartsAreSingleUse

\* Request r goes to pc, the others stay; unless it is over it keeps its file.
Turn(r, pc) ==
    /\ \A p \in Requests : p # r => reqs'[p] = reqs[p]
    /\ reqs'[r].pc = pc
    /\ pc \notin {"idle", "sweep"} => reqs'[r].file = reqs[r].file

LEMMA Turns ==
    ASSUME ShapeOK, NEW r \in Requests
    PROVE  /\ Answer(r) => Turn(r, "idle")
           /\ \A pc \in Pcs : Goto(r, pc) => Turn(r, pc)
           /\ BeginUndo(r) => Turn(r, "undo")
           /\ \A o : Measure(r, o) => Turn(r, IF o = "whole" THEN "insert" ELSE "wrongSize")
           /\ Return(r) => Turn(r, "idle") \/ Turn(r, "sweep")
<1>0. reqs \in [Requests -> Request]
  BY DEF ShapeOK, TypeOK
<1>1. ASSUME NEW q, reqs' = [reqs EXCEPT ![r] = q]
      PROVE  reqs'[r] = q /\ \A p \in Requests : p # r => reqs'[p] = reqs[p]
  BY <1>0, <1>1
<1>2. Answer(r) => Turn(r, "idle")
  BY <1>0 DEF Answer, Turn, Idle
<1>3. ASSUME NEW pc \in Pcs, Goto(r, pc) PROVE Turn(r, pc)
  BY <1>0, <1>3 DEF Goto, Turn, Request
<1>4. ASSUME NEW pc, NEW rest, reqs' = [reqs EXCEPT ![r].pc = pc, ![r].rest = rest]
      PROVE  Turn(r, pc)
  BY <1>0, <1>4 DEF Turn, Request
<1>5. BeginUndo(r) => Turn(r, "undo")
  BY <1>4 DEF BeginUndo
<1>6. ASSUME NEW o, Measure(r, o) PROVE Turn(r, IF o = "whole" THEN "insert" ELSE "wrongSize")
  <2>1. "insert" \in Pcs
    BY DEF Pcs, CompletePcs
  <2>. QED  BY <1>3, <1>4, <1>6, <2>1 DEF Measure
<1>7. ASSUME Return(r) PROVE Turn(r, "idle") \/ Turn(r, "sweep")
  BY <1>0, <1>2, <1>7 DEF Return, Turn, Request
<1>. QED  BY <1>2, <1>3, <1>5, <1>6, <1>7

\* A request is begun on a file.
Begun(r, f, pc) ==
    /\ \A p \in Requests : p # r => reqs'[p] = reqs[p]
    /\ reqs'[r].pc = pc /\ reqs'[r].file = f

LEMMA Begins ==
    ASSUME ShapeOK, NEW r \in Requests
    PROVE  /\ BeginComplete(r) => \E f \in Files : /\ Begun(r, f, "existing")
                                                   /\ Overlap \/ f \notin At(CompletePcs)
           /\ BeginAbort(r) => \E f \in Files : Begun(r, f, "abort")
           /\ BeginDelete(r) =>
                 \E f \in Files : /\ f \in rows /\ Begun(r, f, "removeObject")
                                  /\ removal' = [removal EXCEPT ![f] = IF @ = "none" THEN "asked"
                                                                                     ELSE @]
<1>1. ASSUME NEW f, NEW pc, reqs' = [reqs EXCEPT ![r] = [Idle EXCEPT !.pc = pc, !.file = f]]
      PROVE  Begun(r, f, pc)
  BY <1>1 DEF ShapeOK, TypeOK, Idle, Begun
<1>2. rows \subseteq Files
  BY DEF ShapeOK, TypeOK
<1>. QED  BY <1>1, <1>2 DEF BeginComplete, BeginAbort, BeginDelete

LEMMA UndoTurns ==
    ASSUME ShapeOK, NEW r \in Requests, Undo(r)
    PROVE  Turn(r, "idle") \/ Turn(r, reqs[r].pc)
<1>1. PICK x \in reqs[r].rest :
        IF reqs[r].rest = {x} THEN Answer(r) ELSE reqs' = [reqs EXCEPT ![r].rest = @ \ {x}]
  BY DEF Undo
<1>2. CASE Answer(r)
  BY <1>2, Turns
<1>3. CASE reqs' = [reqs EXCEPT ![r].rest = @ \ {x}]
  BY <1>3 DEF Turn, ShapeOK, TypeOK, Request
<1>. QED  BY <1>1, <1>2, <1>3

LEMMA QuietSteps ==
    ASSUME ShapeOK, NEW r \in Requests,
           \/ CreateCommand(r) \/ SweepNext(r) \/ BeginStart(r) \/ Register(r) \/ Release(r)
           \/ BeginComplete(r) \/ Complete(r) \/ BeginAbort(r) \/ AbortUpload(r)
           \/ Unregister(r) \/ BeginDelete(r) \/ RemoveObject(r) \/ RemoveRow(r) \/ Lose(r)
    PROVE  QuietStep
<1>. USE DEF stores, history
<1>1. UNCHANGED <<starts, openedBy>>
  BY DEF CreateCommand, SweepNext, BeginStart, Register, Release, BeginComplete, BeginAbort,
         AbortUpload, Unregister, BeginDelete, RemoveObject, RemoveRow, Lose, Complete,
         FindExisting, GetObject, Finish, Insert, ReadBack, Forget, Undo
<1>2. ASSUME NEW pc \in Pcs \ {"create"}, Turn(r, pc) PROVE QuietStep
  BY <1>1, <1>2 DEF QuietStep, Turn
<1>3. ASSUME \A p \in Requests : p # r => reqs'[p] = reqs[p], reqs'[r].pc # "create"
      PROVE  QuietStep
  BY <1>1, <1>3 DEF QuietStep
<1>4. ASSUME NEW q, q.pc # "create", reqs' = [reqs EXCEPT ![r] = q] PROVE QuietStep
  BY <1>1, <1>4 DEF QuietStep, ShapeOK, TypeOK
<1>5. \A pc \in {"idle", "sweep", "release", "object", "finish", "insert", "wrongSize", "undo",
                 "readBack", "forget", "unregister", "sweepUnregister", "removeRow"} :
         pc \in Pcs \ {"create"}
  BY DEF Pcs, CompletePcs
<1>6. CASE CreateCommand(r) \/ BeginStart(r)
  BY <1>4, <1>6 DEF CreateCommand, BeginStart, Idle
<1>7. CASE SweepNext(r)
  BY <1>3, <1>7, ZenonT(30) DEF SweepNext, ShapeOK, TypeOK, Request
<1>8. CASE BeginComplete(r) \/ BeginAbort(r) \/ BeginDelete(r)
  <2>1. PICK f \in Files, pc \in {"existing", "abort", "removeObject"} : Begun(r, f, pc)
    BY <1>8, Begins
  <2>. QED  BY <1>3, <2>1 DEF Begun
<1>9. CASE Register(r) \/ Release(r)
  BY <1>2, <1>5, <1>9, Turns DEF Register, Release
<1>10. CASE AbortUpload(r) \/ Unregister(r)
  BY <1>2, <1>5, <1>10, Turns DEF AbortUpload, Unregistering, Unregister
<1>11. CASE RemoveObject(r) \/ RemoveRow(r) \/ Lose(r)
  BY <1>2, <1>5, <1>11, Turns DEF RemoveObject, RemoveRow, Lose
<1>12. CASE FindExisting(r) \/ GetObject(r) \/ Finish(r)
  BY <1>2, <1>5, <1>12, Turns DEF FindExisting, AfterExisting, GetObject, Finish
<1>13. CASE Insert(r) \/ ReadBack(r) \/ Forget(r)
  BY <1>2, <1>5, <1>13, Turns DEF Insert, ReadBack, Forget
<1>14. CASE Undo(r)
  BY <1>2, <1>5, <1>14, UndoTurns DEF Undo
<1>. QED  BY <1>6, <1>7, <1>8, <1>9, <1>10, <1>11, <1>12, <1>13, <1>14 DEF Complete

LEMMA ConsumeIsSingle ==
    ASSUME ShapeOK, SingleInv, NEW r \in Requests, Consume(r)
    PROVE  SingleInv'
<1>1. reqs[r].pc = "consume" /\ reqs[r].start \in Starts /\ UNCHANGED openedBy
  BY DEF Consume, ShapeOK, Carries, history
<1>2. CASE ~ Consumable(reqs[r].start)
  <2>1. QuietStep
    BY <1>1, <1>2 DEF Consume, QuietStep, ShapeOK, TypeOK, Answer, Idle
  <2>. QED  BY <2>1, QuietIsSingle
<1>3. CASE /\ Consumable(reqs[r].start) /\ Goto(r, "create")
           /\ starts' = [starts EXCEPT ![reqs[r].start] = "consumed"]
  <2>1. /\ starts[reqs[r].start] = "live"
        /\ starts' = [starts EXCEPT ![reqs[r].start] = "consumed"]
        /\ reqs' = [reqs EXCEPT ![r].pc = "create"]
    BY <1>1, <1>3 DEF Consumable, Goto
  <2>2. \A p \in Requests : /\ reqs'[p].start = reqs[p].start
                            /\ p # r => reqs'[p] = reqs[p]
    BY <2>1 DEF ShapeOK, TypeOK, Request
  <2>3. \A s \in Starts : starts'[s] = IF s = reqs[r].start THEN "consumed" ELSE starts[s]
    BY <2>1 DEF ShapeOK, TypeOK
  <2>4. \A p \in Requests : reqs[p].pc = "create" => reqs[p].start \in Starts
    BY DEF ShapeOK, Carries
  <2>. QED  BY <1>1, <2>1, <2>2, <2>3, <2>4 DEF SingleInv, StartsAreSingleUse
<1>4. CASE /\ Answer(r)
           /\ starts' \in {starts, [starts EXCEPT ![reqs[r].start] = "consumed"]}
  <2>1. \A p \in Requests : reqs'[p].pc = "create" => reqs'[p] = reqs[p]
    BY <1>1, <1>4 DEF ShapeOK, TypeOK, Answer, Idle
  <2>2. CASE starts' = starts
    BY <1>1, <2>1, <2>2, QuietIsSingle DEF QuietStep
  <2>3. CASE starts' = [starts EXCEPT ![reqs[r].start] = "consumed"]
    <3>1. \A s \in Starts : starts'[s] = starts[s] \/ starts'[s] = "consumed"
      BY <2>3 DEF ShapeOK, TypeOK
    <3>. QED  BY <1>1, <2>1, <3>1 DEF SingleInv, StartsAreSingleUse, ShapeOK, Carries
  <2>. QED  BY <1>4, <2>2, <2>3
<1>. QED  BY <1>2, <1>3, <1>4 DEF Consume

LEMMA CreateIsSingle ==
    ASSUME ShapeOK, SingleInv, NEW r \in Requests, CreateUpload(r)
    PROVE  SingleInv'
<1>1. reqs[r].pc = "create" /\ reqs[r].start \in Starts /\ UNCHANGED starts
  BY DEF CreateUpload, ShapeOK, Carries
<1>2. CASE Answer(r) /\ UNCHANGED openedBy
  <2>1. QuietStep
    BY <1>1, <1>2 DEF QuietStep, ShapeOK, TypeOK, Answer, Idle
  <2>. QED  BY <2>1, QuietIsSingle
<1>3. ASSUME NEW f \in Files, Draw(f, reqs[r].start),
             reqs' = [reqs EXCEPT ![r].pc = "register", ![r].file = f]
      PROVE  SingleInv'
  <2>1. \A p \in Requests : reqs'[p].pc = "create" => p # r /\ reqs'[p] = reqs[p]
    BY <1>3 DEF ShapeOK, TypeOK, Request
  <2>2. \A g \in Files : openedBy'[g] = IF g = f THEN reqs[r].start ELSE openedBy[g]
    BY <1>3 DEF Draw, ShapeOK, TypeOK
  <2>. QED  BY <1>1, <2>1, <2>2 DEF SingleInv, StartsAreSingleUse
<1>. QED  BY <1>2, <1>3 DEF CreateUpload

LEMMA OwnerIsSingle ==
    ASSUME ShapeOK, SingleInv, OpenMultipart \/ \E r \in Requests : CreateFile(r)
    PROVE  SingleInv'
<1>1. PICK f \in Files : Draw(f, Owner)
  BY DEF OpenMultipart, CreateFile
<1>2. \A g \in Files : openedBy'[g] = IF g = f THEN Owner ELSE openedBy[g]
  BY <1>1 DEF Draw, ShapeOK, TypeOK
<1>3. UNCHANGED starts /\ \A p \in Requests : reqs'[p].pc = "create" => reqs'[p] = reqs[p]
  BY ZenonT(30) DEF OpenMultipart, CreateFile, Idle, ShapeOK, TypeOK
<1>4. \A p \in Requests : reqs[p].pc = "create" => reqs[p].start \in Starts
  BY DEF ShapeOK, Carries
<1>. QED  BY <1>2, <1>3, <1>4, UploadsAssumption DEF SingleInv, StartsAreSingleUse

\* However often and however concurrently a start capability is presented, and
\* whatever fails, it opens at most one upload (secure-uploads.ts:265).
THEOREM StartsOpenOneUpload == Spec => []StartsAreSingleUse
<1>1. Init => SingleInv
  BY UploadsAssumption DEF Init, SingleInv, StartsAreSingleUse, Idle
<1>2. ShapeOK /\ SingleInv /\ [Next]_vars => SingleInv'
  <2> SUFFICES ASSUME ShapeOK, SingleInv, [Next]_vars PROVE SingleInv'
    OBVIOUS
  <2>1. ASSUME NEW r \in Requests, InsertStart(r) PROVE SingleInv'
    <3>1. \A s \in Starts : starts[s] = "consumed" => starts'[s] = "consumed"
      BY <2>1 DEF InsertStart, ShapeOK, TypeOK
    <3>2. UNCHANGED openedBy /\ \A p \in Requests : reqs'[p].pc = "create" => reqs'[p] = reqs[p]
      BY <2>1 DEF InsertStart, history, Answer, Idle, ShapeOK, TypeOK
    <3>3. \A p \in Requests : reqs[p].pc = "create" => reqs[p].start \in Starts
      BY DEF ShapeOK, Carries
    <3>. QED  BY <3>1, <3>2, <3>3 DEF SingleInv, StartsAreSingleUse
  <2>2. CASE Expire \/ \E f \in Files : UploadPart(f)
    BY <2>2, QuietIsSingle DEF Expire, UploadPart, StorePart, QuietStep, stores, history
  <2>3. CASE UNCHANGED vars
    BY <2>3, QuietIsSingle DEF QuietStep, vars, stores, history
  <2>. QED  BY <2>1, <2>2, <2>3, QuietIsSingle, QuietSteps, ConsumeIsSingle, CreateIsSingle,
               OwnerIsSingle DEF Next
<1>3. SingleInv => StartsAreSingleUse
  BY DEF SingleInv
<1>. QED  BY <1>1, <1>2, <1>3, ShapeHolds, PTL DEF Spec

-----------------------------------------------------------------------------
(* An id that nobody has drawn names no upload, and no request writes under it. *)

DrawnPcs == CompletePcs \cup {"register", "release"}

FreshInv ==
    /\ \A f \in Files : Fresh(f) => uploads[f].state = "none"
    /\ \A r \in Requests : reqs[r].pc \in DrawnPcs => ~ Fresh(reqs[r].file)

\* A step that draws no id and takes over none.
LEMMA NothingDrawn ==
    ASSUME FreshInv, UNCHANGED openedBy, NEW r \in Requests,
           \A f \in Files : Fresh(f) => uploads'[f].state = uploads[f].state,
           \A p \in Requests : p # r => reqs'[p] = reqs[p],
           reqs'[r].pc \in DrawnPcs => ~ Fresh(reqs'[r].file)
    PROVE  FreshInv'
BY DEF FreshInv, Fresh

LEMMA TurnDraws ==
    ASSUME FreshInv, UNCHANGED openedBy, NEW r \in Requests, NEW pc, Turn(r, pc),
           pc \in DrawnPcs => reqs[r].pc \in DrawnPcs,
           \A f \in Files : Fresh(f) => uploads'[f].state = uploads[f].state
    PROVE  FreshInv'
<1>1. pc \in DrawnPcs => pc \notin {"idle", "sweep"}
  BY DEF DrawnPcs, CompletePcs
<1>2. reqs'[r].pc \in DrawnPcs => ~ Fresh(reqs'[r].file)
  BY <1>1 DEF Turn, FreshInv
<1>. QED  BY <1>2, NothingDrawn DEF Turn

LEMMA DrawnKept ==
    ASSUME ShapeOK, FreshInv, NEW r \in Requests,
           \/ CreateCommand(r) \/ SweepNext(r) \/ InsertStart(r) \/ BeginStart(r) \/ Consume(r)
           \/ Register(r) \/ Release(r) \/ BeginComplete(r) \/ BeginAbort(r) \/ BeginDelete(r)
           \/ AbortUpload(r) \/ Unregister(r) \/ RemoveObject(r) \/ RemoveRow(r) \/ Lose(r)
    PROVE  FreshInv'
<1>. USE DEF stores, history
<1>0. /\ reqs \in [Requests -> Request]
      /\ uploads \in [Files -> [state : UploadStates, part : Parts]]
  BY DEF ShapeOK, TypeOK
<1>1. UNCHANGED openedBy
  BY DEF CreateCommand, SweepNext, InsertStart, BeginStart, Consume, Register, Release,
         BeginComplete, BeginAbort, BeginDelete, AbortUpload, Unregister, RemoveObject, RemoveRow,
         Lose
<1>2. \A f \in Files : Fresh(f) => uploads'[f].state = uploads[f].state
  <2>1. CASE Release(r)
    <3>1. ~ Fresh(reqs[r].file)
      BY <2>1 DEF Release, FreshInv, DrawnPcs
    <3>. QED  BY <1>0, <2>1, <3>1 DEF Release, SetUpload
  <2>2. CASE AbortUpload(r)
    <3>1. UNCHANGED uploads \/ (uploads[reqs[r].file].state = "open" /\ SetUpload(reqs[r].file, "aborted"))
      BY <2>2 DEF AbortUpload
    <3>2. \A f \in Files : uploads[f].state = "open" => ~ Fresh(f)
      BY DEF FreshInv
    <3>. QED  BY <1>0, <3>1, <3>2 DEF SetUpload
  <2>. QED  BY <2>1, <2>2 DEF CreateCommand, SweepNext, InsertStart, BeginStart, Consume, Register,
         BeginComplete, BeginAbort, BeginDelete, Unregister, RemoveObject, RemoveRow, Lose
<1>3. \A pc \in {"idle", "sweep", "sweepAbort", "consume", "create", "unregister", "sweepUnregister",
                 "removeRow", "abort", "removeObject"} : pc \in Pcs /\ pc \notin DrawnPcs
  BY DEF Pcs, CompletePcs, DrawnPcs
<1>4. ASSUME NEW pc \in Pcs, pc \notin DrawnPcs, Turn(r, pc) PROVE FreshInv'
  BY <1>1, <1>2, <1>4, TurnDraws
<1>6. CASE CreateCommand(r) \/ BeginStart(r)
  <2>1. /\ \A p \in Requests : p # r => reqs'[p] = reqs[p]
        /\ reqs'[r].pc \in {"sweep", "consume"}
    BY <1>0, <1>6 DEF CreateCommand, BeginStart, Idle
  <2>. QED  BY <1>1, <1>2, <1>3, <2>1, NothingDrawn
<1>7. CASE SweepNext(r)
  <2>1. PICK f \in reqs[r].rest :
            reqs' = [reqs EXCEPT ![r].pc = "sweepAbort", ![r].file = f, ![r].rest = @ \ {f}]
    BY <1>7 DEF SweepNext
  <2>2. /\ \A p \in Requests : p # r => reqs'[p] = reqs[p]
        /\ reqs'[r].pc = "sweepAbort"
    BY <1>0, <2>1 DEF Request
  <2>. QED  BY <1>1, <1>2, <1>3, <2>2, NothingDrawn
<1>8. CASE InsertStart(r) \/ Consume(r) \/ Unregister(r) \/ RemoveObject(r) \/ RemoveRow(r) \/ Lose(r)
  BY <1>3, <1>4, <1>8, Turns DEF InsertStart, Consume, Unregister, RemoveObject, RemoveRow, Lose
<1>9. CASE Release(r)
  BY <1>3, <1>4, <1>9, Turns DEF Release
<1>10. CASE AbortUpload(r)
  BY <1>3, <1>4, <1>10, Turns DEF AbortUpload, Unregistering
<1>11. CASE Register(r)
  <2>1. Turn(r, "idle") \/ Turn(r, "release")
    BY <1>11, Turns DEF Register, Pcs
  <2>2. reqs[r].pc \in DrawnPcs
    BY <1>11 DEF Register, DrawnPcs
  <2>. QED  BY <1>1, <1>2, <2>1, <2>2, TurnDraws
<1>12. CASE BeginComplete(r)
  <2>1. PICK f \in Files : Issued(f) /\ reqs' = [reqs EXCEPT ![r] = [Idle EXCEPT !.pc = "existing",
                                                                                !.file = f]]
    BY <1>12 DEF BeginComplete, SessionToken, UploadId
  <2>2. ~ Fresh(f)
    BY <2>1 DEF Issued, FreshInv
  <2>3. /\ \A p \in Requests : p # r => reqs'[p] = reqs[p]
        /\ reqs'[r].file = f
    BY <1>0, <2>1 DEF Idle
  <2>. QED  BY <1>1, <1>2, <2>2, <2>3, NothingDrawn
<1>13. CASE BeginAbort(r) \/ BeginDelete(r)
  <2>1. PICK f \in Files : Begun(r, f, "abort") \/ Begun(r, f, "removeObject")
    BY <1>13, Begins
  <2>. QED  BY <1>1, <1>2, <1>3, <2>1, NothingDrawn DEF Begun
<1>. QED  BY <1>6, <1>7, <1>8, <1>9, <1>10, <1>11, <1>12, <1>13

LEMMA CompletionDraws ==
    ASSUME ShapeOK, FreshInv, NEW r \in Requests, Complete(r)
    PROVE  FreshInv'
<1>. USE DEF stores, history
<1>1. UNCHANGED openedBy /\ reqs[r].pc \in DrawnPcs
  BY DEF Complete, FindExisting, GetObject, Finish, Insert, ReadBack, Forget, Undo, DrawnPcs,
         CompletePcs
<1>2. \A f \in Files : Fresh(f) => uploads'[f].state = uploads[f].state
  <2>1. UNCHANGED uploads \/ SetUpload(reqs[r].file, "completed")
    BY DEF Complete, FindExisting, GetObject, Finish, Insert, ReadBack, Forget, Undo
  <2>2. ~ Fresh(reqs[r].file)
    BY <1>1 DEF FreshInv
  <2>. QED  BY <2>1, <2>2 DEF SetUpload, ShapeOK, TypeOK
<1>3. \A pc \in {"object", "finish", "readBack", "forget"} : pc \in Pcs
  BY DEF Pcs, CompletePcs
<1>4. \E pc : Turn(r, pc)
  <2>1. CASE FindExisting(r) \/ GetObject(r) \/ Finish(r)
    BY <1>3, <2>1, Turns DEF FindExisting, AfterExisting, GetObject, Finish
  <2>2. CASE Insert(r) \/ ReadBack(r) \/ Forget(r)
    BY <1>3, <2>2, Turns DEF Insert, ReadBack, Forget
  <2>3. CASE Undo(r)
    BY <2>3, UndoTurns
  <2>. QED  BY <2>1, <2>2, <2>3 DEF Complete
<1>. QED  BY <1>1, <1>2, <1>4, TurnDraws

\* An id is drawn: by a request that opens an upload, or in the owner's browser.
LEMMA DrawFresh ==
    ASSUME ShapeOK, FreshInv,
           OpenMultipart \/ \E r \in Requests : CreateUpload(r) \/ CreateFile(r)
    PROVE  FreshInv'
<1>0. /\ reqs \in [Requests -> Request] /\ openedBy \in [Files -> Starts \cup {Owner, Null}]
      /\ uploads \in [Files -> [state : UploadStates, part : Parts]]
  BY DEF ShapeOK, TypeOK
<1>1. CASE UNCHANGED <<uploads, openedBy>> /\ \E r \in Requests : Answer(r)
  BY <1>0, <1>1 DEF FreshInv, Fresh, Answer, Idle, DrawnPcs, CompletePcs
<1>2. CASE ~ (UNCHANGED <<uploads, openedBy>> /\ \E r \in Requests : Answer(r))
  <2>1. PICK f \in Files, by \in Starts \cup {Owner}, state \in UploadStates :
            /\ Draw(f, by) /\ SetUpload(f, state)
            /\ \A p \in Requests : \/ reqs'[p] = reqs[p]
                                   \/ reqs'[p].file = f
    <3>1. CASE OpenMultipart
      BY <3>1 DEF OpenMultipart, UploadStates
    <3>2. CASE \E r \in Requests : CreateFile(r)
      <4>1. PICK r \in Requests, f \in Files :
                /\ SetUpload(f, "single") /\ Draw(f, Owner)
                /\ \/ reqs' = [reqs EXCEPT ![r] = [Idle EXCEPT !.pc = "insert", !.file = f]]
                   \/ UNCHANGED reqs
        BY <3>2 DEF CreateFile
      <4>2. \A p \in Requests : reqs'[p] = reqs[p] \/ reqs'[p].file = f
        BY <1>0, <4>1 DEF Idle
      <4>. QED  BY <4>1, <4>2 DEF UploadStates
    <3>3. CASE \E r \in Requests : CreateUpload(r)
      <4>1. PICK r \in Requests, f \in Files :
                /\ CreateUpload(r) /\ SetUpload(f, "open") /\ Draw(f, reqs[r].start)
                /\ reqs' = [reqs EXCEPT ![r].pc = "register", ![r].file = f]
        BY <1>2, <3>3 DEF CreateUpload
      <4>2. reqs[r].start \in Starts
        BY <4>1 DEF CreateUpload, ShapeOK, Carries
      <4>3. \A p \in Requests : reqs'[p] = reqs[p] \/ reqs'[p].file = f
        BY <1>0, <4>1 DEF Request
      <4>. QED  BY <4>1, <4>2, <4>3 DEF UploadStates
    <3>. QED  BY <3>1, <3>2, <3>3
  <2>2. by # Null
    BY UploadsAssumption
  <2>3. \A g : Fresh(g)' => (g \in Files => g # f) /\ Fresh(g)
    BY <1>0, <2>1, <2>2 DEF Fresh, Draw
  <2>4. ~ Fresh(f)'
    BY <1>0, <2>1, <2>2 DEF Fresh, Draw
  <2>5. \A g \in Files : Fresh(g)' => uploads'[g].state = "none"
    BY <1>0, <2>1, <2>3 DEF SetUpload, FreshInv
  <2>6. ASSUME NEW p \in Requests, reqs'[p].pc \in DrawnPcs PROVE ~ Fresh(reqs[p].file)'
    <3>1. CASE reqs'[p].file = f
      BY <2>4, <3>1 DEF Fresh
    <3>2. CASE reqs'[p] = reqs[p]
      <4>1. ~ Fresh(reqs[p].file)
        BY <2>6, <3>2 DEF FreshInv
      <4>2. openedBy'[reqs[p].file] = openedBy[reqs[p].file] \/ reqs[p].file = f
        BY <1>0, <2>1 DEF Draw
      <4>. QED  BY <2>4, <3>2, <4>1, <4>2 DEF Fresh
    <3>. QED  BY <2>1, <3>1, <3>2
  <2>. QED  BY <2>5, <2>6 DEF FreshInv
<1>. QED  BY <1>1, <1>2

LEMMA StepFresh == ShapeOK /\ FreshInv /\ [Next]_vars => FreshInv'
<1> SUFFICES ASSUME ShapeOK, FreshInv, [Next]_vars PROVE FreshInv'
  OBVIOUS
<1>1. CASE Expire \/ UNCHANGED vars
  BY <1>1 DEF Expire, vars, stores, history, FreshInv, Fresh
<1>2. ASSUME NEW f \in Files, UploadPart(f) PROVE FreshInv'
  <2>1. \A g \in Files : uploads'[g].state = uploads[g].state
    BY <1>2 DEF UploadPart, StorePart, ShapeOK, TypeOK
  <2>. QED  BY <1>2, <2>1 DEF UploadPart, StorePart, history, FreshInv, Fresh
<1>. QED  BY <1>1, <1>2, DrawnKept, CompletionDraws, DrawFresh DEF Next

LEMMA FreshHolds == Spec => [](ShapeOK /\ FreshInv)
<1>1. Init => FreshInv
  BY DEF Init, FreshInv, Idle, DrawnPcs, CompletePcs
<1>. QED  BY <1>1, StepFresh, InitShape, StepShape, PTL DEF Spec

-----------------------------------------------------------------------------
(* What is acknowledged is kept, what is deleted stays deleted: as long as  *)
(* completions of one file do not overlap and the database does not fail.   *)
(* R2 may fail, and the Worker may be lost, at any statement.               *)

Alone == Overlap = FALSE /\ "database" \notin Faults

\* Nothing will be put under this id any more.
Settled(f) == uploads[f].state \in {"completed", "single"}

USE DEF Settled

\* A row stands for a finished upload with its object, until it is being deleted.
FileFits(f) ==
    /\ f \in rows => /\ Settled(f)
                     /\ removal[f] # "done"
                     /\ removal[f] = "none" => objects[f] = "whole"
    /\ objects[f] # "absent" => Settled(f)
    /\ removal[f] # "none" => Settled(f)
    /\ removal[f] = "asked" => f \in rows
    /\ removal[f] = "done" => objects[f] = "absent"
    /\ f \in acked => f \in rows \/ removal[f] = "done"

\* What a request knows of its file at each step.
RequestFits(q) ==
    LET f == q.file
    IN  /\ q.pc # "release"
        /\ q.pc \in {"object", "finish", "insert", "wrongSize"} => f \notin rows
        /\ q.pc \in {"insert", "wrongSize"} => Settled(f)
        /\ q.pc = "insert" => removal[f] = "none" /\ objects[f] = "whole"
        /\ q.pc = "wrongSize" => objects[f] # "whole"
        /\ q.pc \in {"readBack", "forget"} => f \in rows \/ removal[f] = "done"
        /\ q.pc = "undo" => removal[f] = "done"
        /\ q.pc \in {"removeObject", "removeRow"} => removal[f] # "none"
        /\ q.pc = "removeRow" => objects[f] = "absent"

OneCompletes ==
    \A r, q \in Requests :
        reqs[r].pc \in CompletePcs /\ reqs[q].pc \in CompletePcs /\ reqs[r].file = reqs[q].file
            => r = q

KeptInv ==
    /\ \A f \in Files : FileFits(f)
    /\ \A r \in Requests : RequestFits(reqs[r])
    /\ OneCompletes

\* A step of one request that writes neither rows nor objects.
CalmStep ==
    /\ UNCHANGED <<rows, objects, removal>>
    /\ \A f \in Files : Settled(f) => Settled(f)'
    /\ \A f \in acked' : f \in acked \/ f \in rows \/ removal[f] = "done"

\* It takes over no completion that is not its own.
KeepsOut(r) ==
    reqs'[r].pc \in CompletePcs =>
        \A p \in Requests : p # r /\ reqs[p].pc \in CompletePcs => reqs[p].file # reqs'[r].file

LEMMA CalmFits ==
    ASSUME ShapeOK, KeptInv, CalmStep, NEW r \in Requests,
           \A p \in Requests : p # r => reqs'[p] = reqs[p],
           RequestFits(reqs[r])', KeepsOut(r)
    PROVE  KeptInv'
<1>1. \A f \in Files : FileFits(f)'
  BY DEF KeptInv, CalmStep, FileFits
<1>2. ASSUME NEW p \in Requests, p # r PROVE RequestFits(reqs[p])'
  <2>1. RequestFits(reqs[p]) /\ reqs'[p] = reqs[p]
    BY <1>2 DEF KeptInv
  <2>2. reqs[p].pc \in {"insert", "wrongSize"} => reqs[p].file \in Files
    BY DEF ShapeOK, TypeOK, Carries, FilePcs, Pcs, CompletePcs
  <2>. QED  BY <2>1, <2>2 DEF CalmStep, RequestFits
<1>3. OneCompletes'
  BY DEF KeptInv, OneCompletes, KeepsOut
<1>. QED  BY <1>1, <1>2, <1>3 DEF KeptInv

\* A turn within a completion keeps the others out.
LEMMA TurnKeepsOut ==
    ASSUME KeptInv, NEW r \in Requests, NEW pc, Turn(r, pc),
           pc \notin CompletePcs \/ reqs[r].pc \in CompletePcs
    PROVE  KeepsOut(r)
BY DEF KeptInv, OneCompletes, Turn, KeepsOut, CompletePcs

LEMMA CalmTurns ==
    ASSUME ShapeOK, KeptInv, CalmStep, NEW r \in Requests, NEW pc, Turn(r, pc),
           pc \notin CompletePcs \/ reqs[r].pc \in CompletePcs,
           RequestFits(reqs[r])'
    PROVE  KeptInv'
BY CalmFits, TurnKeepsOut DEF Turn

EasyPcs == SweepPcs \cup {"idle", "consume", "create", "register", "abort", "unregister"}

LEMMA EasyFits ==
    /\ \A q : q.pc \in EasyPcs \cup {"existing"} => RequestFits(q)
    /\ EasyPcs \intersect CompletePcs = {}
BY DEF EasyPcs, SweepPcs, RequestFits, CompletePcs

LEMMA EasyTurns ==
    ASSUME ShapeOK, KeptInv, CalmStep, NEW r \in Requests,
           \A p \in Requests : p # r => reqs'[p] = reqs[p], reqs'[r].pc \in EasyPcs
    PROVE  KeptInv'
<1>2. RequestFits(reqs[r])'
  BY DEF EasyPcs, SweepPcs, RequestFits
<1>3. KeepsOut(r)
  BY EasyFits DEF KeepsOut
<1>. QED  BY <1>2, <1>3, CalmFits

\* Starting an upload, and the sweep that precedes it.
LEMMA StartKeeps ==
    ASSUME Alone, ShapeOK, FreshInv, KeptInv, NEW r \in Requests,
           \/ CreateCommand(r) \/ SweepNext(r) \/ InsertStart(r)
           \/ BeginStart(r) \/ Consume(r) \/ CreateUpload(r) \/ Register(r) \/ Release(r)
    PROVE  KeptInv'
<1>. USE DEF stores, history
<1>0. reqs \in [Requests -> Request] /\ uploads \in [Files -> [state : UploadStates, part : Parts]]
  BY DEF ShapeOK, TypeOK
<1>1. ~ Release(r)
  BY DEF KeptInv, RequestFits, Release
<1>2. CalmStep
  <2>1. CASE CreateUpload(r)
    <3>1. \A f \in Files : Settled(f) => Settled(f)'
      BY <1>0, <2>1 DEF CreateUpload, SetUpload, FreshInv
    <3>. QED  BY <2>1, <3>1 DEF CreateUpload, CalmStep
  <2>. QED  BY <1>1, <2>1 DEF CalmStep, CreateCommand, SweepNext, InsertStart, BeginStart,
                              Consume, Register
<1>. DEFINE Eased == /\ \A p \in Requests : p # r => reqs'[p] = reqs[p]
                     /\ reqs'[r].pc \in EasyPcs
<1>3. Eased
  <2>. USE DEF EasyPcs, SweepPcs
  <2>1. Turn(r, "idle") \/ Turn(r, "create") => Eased
    BY DEF Turn
  <2>2. "create" \in Pcs
    BY DEF Pcs
  <2>3. CASE InsertStart(r) \/ Consume(r) \/ Register(r)
    BY <2>1, <2>2, <2>3, Turns DEF InsertStart, Consume, Register, Alone
  <2>4. CASE CreateCommand(r) \/ BeginStart(r)
    BY <1>0, <2>4 DEF CreateCommand, BeginStart, Idle
  <2>5. CASE SweepNext(r)
    BY <1>0, <2>5, ZenonT(30) DEF SweepNext, Request
  <2>6. CASE CreateUpload(r)
    <3>1. CASE Answer(r)
      BY <2>1, <3>1, Turns
    <3>2. CASE \E f \in Files : reqs' = [reqs EXCEPT ![r].pc = "register", ![r].file = f]
      BY <1>0, <3>2 DEF Request
    <3>. QED  BY <2>6, <3>1, <3>2 DEF CreateUpload
  <2>. QED  BY <1>1, <2>3, <2>4, <2>5, <2>6
<1>4. \A p \in Requests : p # r => reqs'[p] = reqs[p]
  BY <1>3 DEF Eased
<1>5. reqs'[r].pc \in EasyPcs
  BY <1>3 DEF Eased
<1>. QED  BY <1>2, <1>4, <1>5, EasyTurns

\* The steps of a completion that write no row and no object.
LEMMA CompletionReads ==
    ASSUME Alone, ShapeOK, KeptInv, NEW r \in Requests,
           FindExisting(r) \/ GetObject(r) \/ ReadBack(r) \/ Forget(r)
    PROVE  KeptInv'
<1>. USE DEF stores, history
<1>. DEFINE f == reqs[r].file
<1>1. reqs[r].pc \in CompletePcs /\ f \in Files
  BY DEF ShapeOK, TypeOK, Carries, FilePcs, Pcs, CompletePcs, FindExisting, GetObject, ReadBack,
         Forget
<1>2. FileFits(f) /\ RequestFits(reqs[r])
  BY <1>1 DEF KeptInv
<1>3. CalmStep
  BY <1>2 DEF FindExisting, AfterExisting, GetObject, ReadBack, Forget, Stored, CalmStep, RequestFits, Alone
<1>4. ASSUME Turn(r, "idle") PROVE KeptInv'
  BY <1>3, <1>4, EasyTurns DEF Turn, EasyPcs
<1>5. ASSUME NEW pc \in Pcs, Turn(r, pc), RequestFits(reqs[r])' PROVE KeptInv'
  BY <1>1, <1>3, <1>5, CalmTurns
<1>6. \A pc \in {"object", "finish", "insert", "wrongSize", "forget", "undo"} : pc \in Pcs
  BY DEF Pcs, CompletePcs
<1>7. CASE FindExisting(r)
  <2>1. CASE Answer(r)
    BY <1>4, <2>1, Turns
  <2>2. CASE ~ Stored(f) /\ Goto(r, "object")
    <3>1. Turn(r, "object")
      BY <1>6, <2>2, Turns
    <3>2. RequestFits(reqs[r])'
      BY <1>3, <2>2, <3>1 DEF Turn, RequestFits, Stored, CalmStep
    <3>. QED  BY <1>5, <1>6, <3>1, <3>2
  <2>3. CASE ~ Stored(f) /\ Goto(r, "finish")
    <3>1. Turn(r, "finish")
      BY <1>6, <2>3, Turns
    <3>2. RequestFits(reqs[r])'
      BY <1>3, <2>3, <3>1 DEF Turn, RequestFits, Stored, CalmStep
    <3>. QED  BY <1>5, <1>6, <3>1, <3>2
  <2>. QED  BY <1>7, <2>1, <2>2, <2>3 DEF FindExisting, AfterExisting
<1>8. CASE GetObject(r)
  <2>0. f \notin rows /\ UNCHANGED uploads
    BY <1>2, <1>8 DEF GetObject, RequestFits
  <2>1. CASE Answer(r)
    BY <1>4, <2>1, Turns
  <2>2. CASE Goto(r, "finish")
    <3>1. Turn(r, "finish")
      BY <1>6, <2>2, Turns
    <3>2. RequestFits(reqs[r])'
      BY <1>3, <2>0, <3>1 DEF Turn, RequestFits, CalmStep
    <3>. QED  BY <1>5, <1>6, <3>1, <3>2
  <2>3. CASE objects[f] # "absent" /\ Measure(r, objects[f])
    <3>1. Turn(r, IF objects[f] = "whole" THEN "insert" ELSE "wrongSize")
      BY <2>3, Turns
    <3>2. removal[f] \in {"none", "asked", "done"}
      BY <1>1 DEF ShapeOK, TypeOK
    <3>3. Settled(f) /\ removal[f] = "none"
      BY <1>2, <2>0, <2>3, <3>2 DEF FileFits
    <3>4. RequestFits(reqs[r])'
      BY <1>3, <2>0, <3>1, <3>3 DEF Turn, RequestFits, CalmStep
    <3>. QED  BY <1>5, <1>6, <3>1, <3>4
  <2>. QED  BY <1>8, <2>1, <2>2, <2>3 DEF GetObject
<1>9. CASE ReadBack(r)
  <2>1. CASE f \in rows /\ Goto(r, "forget")
    <3>1. Turn(r, "forget")
      BY <1>6, <2>1, Turns
    <3>2. RequestFits(reqs[r])'
      BY <1>3, <2>1, <3>1 DEF Turn, RequestFits, CalmStep
    <3>. QED  BY <1>5, <1>6, <3>1, <3>2
  <2>2. CASE f \notin rows /\ BeginUndo(r)
    <3>1. Turn(r, "undo")
      BY <2>2, Turns
    <3>2. removal[f] = "done"
      BY <1>2, <1>9, <2>2 DEF ReadBack, RequestFits
    <3>3. RequestFits(reqs[r])'
      BY <1>3, <3>1, <3>2 DEF Turn, RequestFits, CalmStep
    <3>. QED  BY <1>5, <1>6, <3>1, <3>3
  <2>. QED  BY <1>4, <1>9, <2>1, <2>2, Turns DEF ReadBack, Alone
<1>10. CASE Forget(r)
  BY <1>4, <1>10, Turns DEF Forget, Alone
<1>. QED  BY <1>7, <1>8, <1>9, <1>10

\* R2 assembles the object: only of an upload that is open, which has no row yet.
LEMMA FinishKeeps ==
    ASSUME Alone, ShapeOK, KeptInv, NEW r \in Requests, Finish(r)
    PROVE  KeptInv'
<1>. USE DEF stores, history
<1>. DEFINE f == reqs[r].file
<1>1. reqs[r].pc = "finish" /\ f \in Files /\ f \notin rows
  BY DEF ShapeOK, Carries, FilePcs, Pcs, CompletePcs, Finish, KeptInv, RequestFits
<1>2. CASE UNCHANGED <<uploads, objects>> /\ Answer(r)
  <2>1. CalmStep /\ Turn(r, "idle")
    BY <1>2, Turns DEF Finish, CalmStep
  <2>. QED  BY <2>1, EasyTurns DEF Turn, EasyPcs
<1>3. CASE /\ uploads[f].state = "open" /\ uploads[f].part # "missing"
           /\ SetUpload(f, "completed") /\ SetObject(f, uploads[f].part)
           /\ Measure(r, uploads[f].part) \/ Answer(r)
  <2>1. FileFits(f) /\ removal[f] = "none" /\ f \notin acked
    BY <1>1, <1>3 DEF KeptInv, FileFits, ShapeOK, TypeOK
  <2>2. /\ uploads'[f].state = "completed" /\ objects'[f] = uploads[f].part
        /\ \A g \in Files \ {f} : uploads'[g] = uploads[g] /\ objects'[g] = objects[g]
        /\ UNCHANGED <<rows, removal, acked>>
    BY <1>1, <1>3 DEF Finish, SetUpload, SetObject, ShapeOK, TypeOK
  <2>3. \A g \in Files : FileFits(g)'
    BY <1>1, <2>1, <2>2 DEF KeptInv, FileFits
  <2>4. ASSUME NEW p \in Requests, p # r, reqs'[p] = reqs[p] PROVE RequestFits(reqs[p])'
    <3>1. RequestFits(reqs[p])
      BY DEF KeptInv
    <3>2. reqs[p].pc \in {"insert", "wrongSize", "removeRow"} => reqs[p].file \in Files
      BY DEF ShapeOK, Carries, FilePcs, Pcs, CompletePcs
    <3>3. reqs[p].pc \in {"insert", "wrongSize", "removeRow"} => reqs[p].file # f
      BY <1>3, <2>1, <3>1 DEF RequestFits
    <3>. QED  BY <2>2, <2>4, <3>1, <3>2, <3>3 DEF RequestFits
  <2>5. CASE Answer(r)
    <3>1. Turn(r, "idle")
      BY <2>5, Turns
    <3>2. RequestFits(reqs[r])'
      BY <3>1 DEF Turn, RequestFits
    <3>3. OneCompletes'
      BY <3>1 DEF Turn, KeptInv, OneCompletes, CompletePcs
    <3>. QED  BY <2>3, <2>4, <3>1, <3>2, <3>3 DEF KeptInv, Turn
  <2>6. CASE Measure(r, uploads[f].part)
    <3>1. Turn(r, IF uploads[f].part = "whole" THEN "insert" ELSE "wrongSize")
      BY <2>6, Turns
    <3>2. RequestFits(reqs[r])'
      BY <1>1, <2>1, <2>2, <3>1 DEF Turn, RequestFits
    <3>3. OneCompletes'
      BY <1>1, <3>1 DEF Turn, KeptInv, OneCompletes, CompletePcs
    <3>. QED  BY <2>3, <2>4, <3>1, <3>2, <3>3 DEF KeptInv, Turn
  <2>. QED  BY <1>3, <2>5, <2>6
<1>. QED  BY <1>2, <1>3 DEF Finish

\* The row is written: nobody else was completing the file.
LEMMA InsertKeeps ==
    ASSUME Alone, ShapeOK, KeptInv, NEW r \in Requests, Insert(r)
    PROVE  KeptInv'
<1>. USE DEF stores, history
<1>. DEFINE f == reqs[r].file
<1>1. /\ reqs[r].pc = "insert" /\ f \in Files /\ f \notin rows
      /\ Settled(f) /\ removal[f] = "none" /\ objects[f] = "whole"
  BY DEF ShapeOK, Carries, FilePcs, Pcs, CompletePcs, Insert, KeptInv, RequestFits
<1>2. rows' = rows \cup {f} /\ Turn(r, "readBack")
  <2>1. rows' = rows \cup {f} /\ Goto(r, "readBack")
    BY <1>1 DEF Insert, Alone
  <2>. QED  BY <2>1, Turns DEF Pcs, CompletePcs
<1>3. UNCHANGED <<uploads, objects, removal, acked>>
  BY DEF Insert
<1>4. \A g \in Files : FileFits(g)'
  BY <1>1, <1>2, <1>3 DEF KeptInv, FileFits
<1>5. ASSUME NEW p \in Requests, p # r PROVE RequestFits(reqs[p])'
  <2>1. RequestFits(reqs[p]) /\ reqs'[p] = reqs[p]
    BY <1>2, <1>5 DEF KeptInv, Turn
  <2>2. reqs[p].pc \in {"object", "finish", "insert", "wrongSize"} => reqs[p].file # f
    BY <1>1, <1>5 DEF KeptInv, OneCompletes, CompletePcs
  <2>. QED  BY <1>2, <1>3, <2>1, <2>2 DEF RequestFits
<1>6. RequestFits(reqs[r])'
  BY <1>2 DEF Turn, RequestFits
<1>7. OneCompletes'
  BY <1>1, <1>2 DEF Turn, KeptInv, OneCompletes, CompletePcs
<1>. QED  BY <1>4, <1>5, <1>6, <1>7 DEF KeptInv

\* A step that takes the object or the row of a file away.
TakesAway(f) ==
    /\ UNCHANGED <<uploads, acked>>
    /\ \A g \in Files \ {f} : /\ objects'[g] = objects[g] /\ removal'[g] = removal[g]
                              /\ g \in rows' <=> g \in rows
    /\ objects'[f] \in {objects[f], "absent"}
    /\ rows' \subseteq rows

\* Who takes away from a file that is being deleted, or whose size was wrong,
\* disturbs nobody.
LEMMA TakenAway ==
    ASSUME ShapeOK, KeptInv, NEW r \in Requests, NEW f \in Files, TakesAway(f),
           \A p \in Requests : p # r => reqs'[p] = reqs[p],
           FileFits(f)', RequestFits(reqs[r])', KeepsOut(r),
           \/ removal[f] # "none" /\ removal'[f] # "none" /\ f \in rows'
           \/ removal[f] # "none" /\ removal'[f] = "done"
           \/ removal' = removal /\ f \notin rows /\ objects[f] # "whole"
    PROVE  KeptInv'
<1>1. \A g \in Files : FileFits(g)'
  BY DEF KeptInv, FileFits, TakesAway
<1>2. ASSUME NEW p \in Requests, p # r PROVE RequestFits(reqs[p])'
  <2>1. RequestFits(reqs[p]) /\ reqs'[p] = reqs[p] /\ FileFits(f)
    BY <1>2 DEF KeptInv
  <2>2. CASE reqs[p].pc \in EasyPcs \cup {"existing"}
    BY <2>1, <2>2 DEF EasyPcs, SweepPcs, RequestFits
  <2>3. CASE reqs[p].pc \notin EasyPcs \cup {"existing"}
    <3>1. reqs[p].file \in Files
      BY <2>1, <2>3 DEF ShapeOK, TypeOK, Carries, FilePcs, EasyPcs, SweepPcs, Request
    <3>2. CASE reqs[p].file # f
      BY <2>1, <3>1, <3>2 DEF RequestFits, TakesAway
    <3>3. CASE reqs[p].file = f
      BY <2>1, <3>3 DEF RequestFits, TakesAway, FileFits
    <3>. QED  BY <3>2, <3>3
  <2>. QED  BY <2>2, <2>3
<1>3. OneCompletes'
  BY DEF KeptInv, OneCompletes, KeepsOut
<1>. QED  BY <1>1, <1>2, <1>3 DEF KeptInv

LEMMA UndoKeeps ==
    ASSUME Alone, ShapeOK, KeptInv, NEW r \in Requests, Undo(r)
    PROVE  KeptInv'
<1>. USE DEF stores, history
<1>0. PICK f : f = reqs[r].file
  OBVIOUS
<1>1. reqs[r].pc \in {"undo", "wrongSize"} /\ f \in Files
  BY <1>0 DEF ShapeOK, Carries, FilePcs, Pcs, CompletePcs, Undo
<1>2. FileFits(f) /\ RequestFits(reqs[r])
  BY <1>1 DEF KeptInv
<1>3. f \notin rows
  BY <1>0, <1>1, <1>2 DEF FileFits, RequestFits
<1>4. /\ rows' = rows /\ objects' \in {objects, [objects EXCEPT ![f] = "absent"]}
      /\ UNCHANGED <<uploads, removal, acked>>
  <2>1. \A x \in reqs[r].rest : x \in {"object", "session", "row"}
    BY <1>1 DEF ShapeOK, Carries
  <2>. QED  BY <1>0, <1>3, <2>1 DEF Undo, DropObject, SetObject
<1>5. TakesAway(f)
  BY <1>1, <1>4 DEF TakesAway, ShapeOK, TypeOK
<1>6. Turn(r, "idle") \/ Turn(r, reqs[r].pc)
  BY UndoTurns
<1>7. RequestFits(reqs[r])'
  <2>1. objects'[f] # "whole" \/ objects'[f] = objects[f]
    BY <1>1, <1>5 DEF TakesAway
  <2>. QED  BY <1>0, <1>1, <1>2, <1>3, <1>4, <1>6, <2>1 DEF Turn, RequestFits
<1>8. FileFits(f)'
  BY <1>0, <1>1, <1>2, <1>3, <1>4, <1>5 DEF FileFits, TakesAway, RequestFits
<1>9. KeepsOut(r)
  BY <1>1, <1>6, TurnKeepsOut DEF CompletePcs
<1>10. \/ removal[f] # "none" /\ removal'[f] = "done"
       \/ removal' = removal /\ f \notin rows /\ objects[f] # "whole"
  BY <1>0, <1>1, <1>2, <1>3, <1>4 DEF RequestFits
<1>. QED  BY <1>1, <1>5, <1>6, <1>7, <1>8, <1>9, <1>10, TakenAway DEF Turn

\* The owner's deletion, and the abort of an upload that is open.
LEMMA DeleteKeeps ==
    ASSUME Alone, ShapeOK, KeptInv, NEW r \in Requests,
           BeginDelete(r) \/ RemoveObject(r) \/ RemoveRow(r)
    PROVE  KeptInv'
<1>. USE DEF stores, history
<1>1. CASE BeginDelete(r)
  <2>1. PICK f \in Files : /\ f \in rows /\ Begun(r, f, "removeObject")
                           /\ removal' = [removal EXCEPT ![f] = IF @ = "none" THEN "asked" ELSE @]
    BY <1>1, Begins
  <2>2. UNCHANGED <<uploads, objects, rows, acked>>
    BY <1>1 DEF BeginDelete
  <2>3. FileFits(f) /\ removal[f] \in {"none", "asked"} /\ removal'[f] = "asked"
    BY <2>1 DEF KeptInv, FileFits, ShapeOK, TypeOK
  <2>4. \A g \in Files \ {f} : removal'[g] = removal[g]
    BY <2>1 DEF ShapeOK, TypeOK
  <2>5. \A g \in Files : FileFits(g)'
    BY <2>1, <2>2, <2>3, <2>4 DEF KeptInv, FileFits
  <2>6. ASSUME NEW p \in Requests, p # r PROVE RequestFits(reqs[p])'
    <3>1. RequestFits(reqs[p]) /\ reqs'[p] = reqs[p]
      BY <2>1, <2>6 DEF KeptInv, Begun
    <3>2. reqs[p].pc \in FilePcs => reqs[p].file \in Files
      BY DEF ShapeOK, Carries
    <3>3. reqs[p].pc \in FilePcs => removal'[reqs[p].file] = removal[reqs[p].file]
                                   \/ reqs[p].file = f
      BY <2>4, <3>2
    <3>4. \A pc \in {"insert", "readBack", "forget", "undo", "removeObject", "removeRow"} :
             pc \in FilePcs
      BY DEF FilePcs, Pcs, CompletePcs
    <3>. QED  BY <2>1, <2>2, <2>3, <3>1, <3>3, <3>4 DEF RequestFits
  <2>7. RequestFits(reqs[r])'
    BY <2>1, <2>3 DEF Begun, RequestFits
  <2>8. OneCompletes'
    BY <2>1 DEF KeptInv, OneCompletes, Begun, CompletePcs
  <2>. QED  BY <2>5, <2>6, <2>7, <2>8 DEF KeptInv
<1>0. PICK f : f = reqs[r].file
  OBVIOUS
<1>2. CASE RemoveObject(r)
  <2>1. reqs[r].pc = "removeObject" /\ f \in Files /\ removal[f] # "none" /\ FileFits(f)
    BY <1>0, <1>2 DEF ShapeOK, Carries, FilePcs, Pcs, RemoveObject, KeptInv, RequestFits
  <2>2. CASE SetObject(f, "absent") /\ Goto(r, "removeRow")
    <3>1. Turn(r, "removeRow")
      BY <2>2, Turns DEF Pcs
    <3>2. /\ objects'[f] = "absent" /\ TakesAway(f)
          /\ removal'[f] = removal[f] /\ (f \in rows' <=> f \in rows)
      BY <1>2, <2>1, <2>2 DEF RemoveObject, SetObject, TakesAway, ShapeOK, TypeOK
    <3>3. RequestFits(reqs[r])'
      BY <1>0, <2>1, <3>1, <3>2 DEF Turn, RequestFits
    <3>4. FileFits(f)'
      BY <2>1, <3>2 DEF FileFits, TakesAway
    <3>5. KeepsOut(r)
      BY <3>1 DEF Turn, KeepsOut, CompletePcs
    <3>6. removal[f] \in {"asked", "done"}
      BY <2>1 DEF ShapeOK, TypeOK
    <3>7. f \in rows' \/ removal'[f] = "done"
      BY <2>1, <3>2, <3>6 DEF FileFits
    <3>. QED  BY <2>1, <3>1, <3>2, <3>3, <3>4, <3>5, <3>7, TakenAway DEF Turn
  <2>3. CASE Answer(r) /\ UNCHANGED objects
    <3>1. CalmStep /\ Turn(r, "idle")
      BY <1>2, <2>3, Turns DEF RemoveObject, CalmStep
    <3>. QED  BY <3>1, EasyTurns DEF Turn, EasyPcs
  <2>. QED  BY <1>0, <1>2, <2>2, <2>3 DEF RemoveObject
<1>3. CASE RemoveRow(r)
  <2>1. /\ reqs[r].pc = "removeRow" /\ f \in Files /\ removal[f] # "none"
        /\ objects[f] = "absent" /\ FileFits(f)
    BY <1>0, <1>3 DEF ShapeOK, Carries, FilePcs, Pcs, RemoveRow, KeptInv, RequestFits
  <2>2. /\ rows' = rows \ {f} /\ removal' = [removal EXCEPT ![f] = "done"] /\ Turn(r, "idle")
        /\ UNCHANGED <<uploads, objects, acked>>
    BY <1>0, <1>3, Turns DEF RemoveRow, Alone
  <2>3. removal'[f] = "done" /\ TakesAway(f)
    BY <2>1, <2>2 DEF TakesAway, ShapeOK, TypeOK
  <2>4. RequestFits(reqs[r])'
    BY <2>2 DEF Turn, RequestFits
  <2>5. FileFits(f)'
    BY <2>1, <2>2, <2>3 DEF FileFits
  <2>6. KeepsOut(r)
    BY <2>2 DEF Turn, KeepsOut, CompletePcs
  <2>. QED  BY <2>1, <2>2, <2>3, <2>4, <2>5, <2>6, TakenAway DEF Turn
<1>. QED  BY <1>1, <1>2, <1>3

LEMMA AbortKeeps ==
    ASSUME Alone, ShapeOK, KeptInv, NEW r \in Requests,
           BeginAbort(r) \/ BeginComplete(r) \/ AbortUpload(r) \/ Unregister(r) \/ Lose(r)
    PROVE  KeptInv'
<1>. USE DEF stores, history
<1>1. CASE BeginComplete(r)
  <2>1. PICK f \in Files : Begun(r, f, "existing") /\ f \notin At(CompletePcs)
    BY <1>1, Begins DEF Alone
  <2>2. CalmStep
    BY <1>1 DEF BeginComplete, CalmStep
  <2>3. KeepsOut(r)
    BY <2>1 DEF Begun, KeepsOut, At
  <2>4. RequestFits(reqs[r])'
    BY <2>1 DEF Begun, RequestFits
  <2>. QED  BY <2>1, <2>2, <2>3, <2>4, CalmFits DEF Begun
<1>2. CASE BeginAbort(r)
  <2>1. PICK f \in Files : Begun(r, f, "abort")
    BY <1>2, Begins
  <2>2. CalmStep
    BY <1>2 DEF BeginAbort, CalmStep
  <2>. QED  BY <2>1, <2>2, EasyTurns DEF Begun, EasyPcs
<1>3. CASE AbortUpload(r) \/ Unregister(r) \/ Lose(r)
  <2>1. CalmStep
    BY <1>3 DEF AbortUpload, Unregister, Lose, SetUpload, CalmStep, ShapeOK, TypeOK
  <2>2. \A pc \in {"unregister", "sweepUnregister"} : pc \in Pcs
    BY DEF Pcs
  <2>3. Turn(r, "idle") \/ Turn(r, "sweep") \/ Turn(r, "unregister") \/ Turn(r, "sweepUnregister")
    BY <1>3, <2>2, Turns DEF AbortUpload, Unregistering, Unregister, Lose
  <2>. QED  BY <2>1, <2>3, EasyTurns DEF Turn, EasyPcs, SweepPcs
<1>. QED  BY <1>1, <1>2, <1>3

LEMMA IdleSteps ==
    ASSUME ShapeOK, KeptInv, Expire \/ (\E f \in Files : UploadPart(f)) \/ UNCHANGED vars
    PROVE  KeptInv'
<1>. USE DEF stores, history, vars
<1>1. UNCHANGED <<rows, objects, removal, acked, reqs>>
  BY DEF Expire, UploadPart, StorePart
<1>2. \A f \in Files : uploads'[f].state = uploads[f].state
  BY DEF Expire, UploadPart, StorePart, ShapeOK, TypeOK
<1>3. \A f \in Files : FileFits(f)'
  BY <1>1, <1>2 DEF KeptInv, FileFits
<1>4. ASSUME NEW p \in Requests PROVE RequestFits(reqs[p])'
  <2>1. reqs[p].pc \in {"insert", "wrongSize"} => reqs[p].file \in Files
    BY DEF ShapeOK, Carries, FilePcs, Pcs, CompletePcs
  <2>. QED  BY <1>1, <1>2, <2>1 DEF KeptInv, RequestFits
<1>5. OneCompletes'
  BY <1>1 DEF KeptInv, OneCompletes
<1>. QED  BY <1>3, <1>4, <1>5 DEF KeptInv

\* The owner's browser draws an id of its own: nobody else writes under it.
LEMMA CreateKeeps ==
    ASSUME ShapeOK, FreshInv, KeptInv,
           OpenMultipart \/ \E r \in Requests : CreateFile(r)
    PROVE  KeptInv'
<1>. USE DEF stores, history
<1>1. PICK f \in Files, state \in {"open", "single"} :
          /\ Fresh(f) /\ SetUpload(f, state)
          /\ objects' = [objects EXCEPT ![f] = IF state = "single" THEN "whole" ELSE @]
  BY DEF OpenMultipart, CreateFile, SetObject, ShapeOK, TypeOK
<1>2. UNCHANGED <<rows, removal, acked>>
  BY DEF OpenMultipart, CreateFile
<1>3. /\ uploads[f].state = "none" /\ uploads'[f].state = state
      /\ objects'[f] = IF state = "single" THEN "whole" ELSE objects[f]
      /\ \A g \in Files : g # f => uploads'[g] = uploads[g] /\ objects'[g] = objects[g]
  BY <1>1 DEF FreshInv, SetUpload, ShapeOK, TypeOK
<1>4. FileFits(f) /\ removal[f] = "none" /\ f \notin rows
  BY <1>3 DEF KeptInv, FileFits
<1>5. \A g \in Files : FileFits(g)'
  BY <1>2, <1>3, <1>4 DEF KeptInv, FileFits
<1>6. \A p \in Requests : reqs[p].pc \in CompletePcs => reqs[p].file # f
  BY <1>1 DEF FreshInv, DrawnPcs
<1>7. ASSUME NEW p \in Requests, reqs'[p] = reqs[p] PROVE RequestFits(reqs[p])'
  <2>1. RequestFits(reqs[p])
    BY DEF KeptInv
  <2>2. reqs[p].pc \in {"insert", "wrongSize", "removeRow"} => reqs[p].file # f
    BY <1>4, <1>6, <2>1 DEF RequestFits, CompletePcs
  <2>3. reqs[p].pc \in {"insert", "wrongSize", "removeRow"} => reqs[p].file \in Files
    BY DEF ShapeOK, Carries, FilePcs, Pcs, CompletePcs
  <2>. QED  BY <1>2, <1>3, <1>7, <2>1, <2>2, <2>3 DEF RequestFits
<1>8. CASE UNCHANGED reqs
  <2>1. OneCompletes'
    BY <1>8 DEF KeptInv, OneCompletes
  <2>. QED  BY <1>5, <1>7, <1>8, <2>1 DEF KeptInv
<1>9. ASSUME NEW r \in Requests, NEW g \in Files, Fresh(g), SetUpload(g, "single"),
             SetObject(g, "whole"),
             reqs' = [reqs EXCEPT ![r] = [Idle EXCEPT !.pc = "insert", !.file = g]]
      PROVE  KeptInv'
  <2>1. g = f /\ state = "single"
    BY <1>3, <1>9 DEF SetUpload, FreshInv, ShapeOK, TypeOK
  <2>2. reqs'[r].pc = "insert" /\ reqs'[r].file = f /\ \A p \in Requests : p # r => reqs'[p] = reqs[p]
    BY <1>9, <2>1 DEF ShapeOK, TypeOK, Idle
  <2>3. RequestFits(reqs[r])'
    BY <1>2, <1>3, <1>4, <2>1, <2>2 DEF RequestFits
  <2>4. OneCompletes'
    BY <1>6, <2>2 DEF KeptInv, OneCompletes
  <2>. QED  BY <1>5, <1>7, <2>2, <2>3, <2>4 DEF KeptInv
<1>. QED  BY <1>8, <1>9 DEF OpenMultipart, CreateFile

\* One completion of a file at a time, and a database that does not fail: the order
\* of the checks is enough, whatever R2 refuses and wherever a Worker is lost.  The
\* object of a file is put once, and its row is written only while the object is
\* there and nobody has asked for its deletion.
THEOREM AloneFilesFit == Alone => (Spec => []KeptInv)
<1> SUFFICES ASSUME Alone PROVE Spec => []KeptInv
  OBVIOUS
<1>1. Init => KeptInv
  BY DEF Init, KeptInv, FileFits, RequestFits, OneCompletes, CompletePcs, Idle
<1>2. ShapeOK /\ FreshInv /\ KeptInv /\ [Next]_vars => KeptInv'
  BY CreateKeeps, StartKeeps, CompletionReads, FinishKeeps, InsertKeeps, UndoKeeps, DeleteKeeps, AbortKeeps,
     IdleSteps DEF Next, Complete
<1>. QED  BY <1>1, <1>2, FreshHolds, PTL DEF Spec

\* An acknowledged file is there, row and object, until its owner asks for its
\* deletion (secure-uploads.ts:423).
THEOREM AcknowledgedFilesAreKept == Alone => (Spec => []AcknowledgedIsKept)
<1>1. ShapeOK /\ KeptInv => AcknowledgedIsKept
  BY DEF ShapeOK, TypeOK, KeptInv, FileFits, AcknowledgedIsKept
<1>. QED  BY <1>1, AloneFilesFit, ShapeHolds, PTL

\* A file that was deleted does not come back.
THEOREM DeletedFilesStayDeleted == Alone => (Spec => []DeletedStaysDeleted)
<1>1. KeptInv => DeletedStaysDeleted
  BY DEF KeptInv, FileFits, DeletedStaysDeleted
<1>. QED  BY <1>1, AloneFilesFit, PTL

-----------------------------------------------------------------------------
(* No object is left with nobody to answer for it, as long as R2 answers and *)
(* no Worker is lost.  The database may fail at any statement, and any       *)
(* number of completions of one file may run at once.                        *)

Sturdy == Faults \subseteq {"database"}

\* A request that will yet make a file of the object, or delete it.
Claims(q) == q.pc = "insert" \/ (q.pc \in {"undo", "wrongSize"} /\ "object" \in q.rest)

Claimed(f) == \E r \in Requests : reqs[r].file = f /\ Claims(reqs[r])

\* Somebody is about to delete the session of a file whose row was written.
Forgotten(f) == \E r \in Requests : reqs[r].file = f /\ reqs[r].pc = "forget"

\* The object of a file is that of a finished upload.  Without a row it has a
\* session that nobody is about to delete, or a request that claims it.
FileClaimed(f) ==
    /\ objects[f] # "absent" \/ f \in rows => Settled(f)
    /\ objects[f] # "absent" /\ f \notin rows /\ (f \notin sessions \/ Forgotten(f)) => Claimed(f)

SettledPcs == {"insert", "readBack", "forget", "undo", "wrongSize", "removeObject", "removeRow"}
StartPcs   == {"register", "release"}

\* What a request knows of its file: who has deleted the object goes on only to
\* what is left, and only an upload that never became an object is unregistered.
RequestSettles(q) ==
    LET f == q.file
    IN  /\ q.pc \in SettledPcs => Settled(f)
        /\ q.pc = "removeRow" => objects[f] = "absent"
        /\ q.pc \in {"undo", "wrongSize"} /\ "object" \notin q.rest => objects[f] = "absent"
        /\ q.pc \in {"unregister", "sweepUnregister"} => uploads[f].state = "aborted"
        /\ q.pc \in StartPcs => uploads[f].state \in {"open", "aborted"}

\* Nobody completes an upload whose token has not been handed out.
Apart ==
    \A p, q \in Requests :
        reqs[p].pc \in StartPcs /\ reqs[q].pc \in CompletePcs => reqs[p].file # reqs[q].file

ClaimInv ==
    /\ \A f \in Files : FileClaimed(f)
    /\ \A r \in Requests : RequestSettles(reqs[r])
    /\ Apart

\* A step of r concerns one file.
OffFile(f) ==
    \A g \in Files \ {f} : /\ uploads'[g].state = uploads[g].state
                           /\ objects'[g] = objects[g]
                           /\ g \in rows' <=> g \in rows
                           /\ g \in sessions' <=> g \in sessions

\* What the other requests rely on for that file.
Keeps(f, r) ==
    /\ Settled(f) => Settled(f)' /\ (objects[f] = "absent" => objects'[f] = "absent")
    /\ uploads[f].state = "aborted" => uploads'[f].state = "aborted"
    /\ uploads[f].state = "open" => \/ uploads'[f].state \in {"open", "aborted"}
                                    \/ reqs[r].pc \in CompletePcs

\* It joins neither side of a file on whose other side somebody is.
StaysApart(r) ==
    /\ reqs'[r].pc \in CompletePcs =>
          \A p \in Requests : p # r /\ reqs[p].pc \in StartPcs => reqs[p].file # reqs'[r].file
    /\ reqs'[r].pc \in StartPcs =>
          \A p \in Requests : p # r /\ reqs[p].pc \in CompletePcs => reqs[p].file # reqs'[r].file

\* The pcs at which the file of a request matters.
BoundPcs == SettledPcs \cup StartPcs \cup {"unregister", "sweepUnregister"}

\* A step of one request on one file.
LEMMA Locally ==
    ASSUME ShapeOK, ClaimInv, NEW r \in Requests, NEW f,
           \A p \in Requests : p # r => reqs'[p] = reqs[p],
           Claims(reqs[r]) => reqs[r].file = f,
           reqs[r].pc \in CompletePcs => reqs[r].file = f,
           reqs'[r].pc = "forget" => reqs'[r].file = f,
           OffFile(f), f \in Files => Keeps(f, r) /\ FileClaimed(f)',
           RequestSettles(reqs[r])', StaysApart(r)
    PROVE  ClaimInv'
<1>1. ASSUME NEW g \in Files PROVE FileClaimed(g)'
  <2>1. CASE g = f
    BY <2>1
  <2>2. CASE g # f
    <3>1. Forgotten(g)' => Forgotten(g)
      BY <2>2 DEF Forgotten
    <3>2. Claimed(g) => Claimed(g)'
      BY <2>2 DEF Claimed, Claims
    <3>. QED  BY <2>2, <3>1, <3>2 DEF ClaimInv, FileClaimed, OffFile
  <2>. QED  BY <2>1, <2>2
<1>2. ASSUME NEW p \in Requests, p # r PROVE RequestSettles(reqs[p])'
  <2>0. RequestSettles(reqs[p]) /\ reqs'[p] = reqs[p]
    BY <1>2 DEF ClaimInv
  <2>1. CASE reqs[p].pc \notin BoundPcs
    BY <2>0, <2>1 DEF RequestSettles, BoundPcs, SettledPcs, StartPcs
  <2>2. CASE reqs[p].pc \in BoundPcs
    <3>1. reqs[p].file \in Files
      BY <2>2 DEF ShapeOK, Carries, FilePcs, Pcs, CompletePcs, BoundPcs, SettledPcs, StartPcs
    <3>2. CASE reqs[p].file # f
      BY <2>0, <3>1, <3>2 DEF RequestSettles, OffFile
    <3>3. CASE reqs[p].file = f
      <4>1. Keeps(f, r)
        BY <3>1, <3>3
      <4>2. reqs[p].pc \in StartPcs => reqs[r].pc \notin CompletePcs
        BY <3>3 DEF ClaimInv, Apart
      <4>. QED  BY <2>0, <3>3, <4>1, <4>2 DEF RequestSettles, Keeps, SettledPcs
    <3>. QED  BY <3>2, <3>3
  <2>. QED  BY <2>1, <2>2
<1>3. Apart'
  <2>1. \A p \in Requests : reqs'[p].pc \in StartPcs => reqs'[p].pc \notin CompletePcs
    BY DEF StartPcs, CompletePcs
  <2>. QED  BY <2>1 DEF ClaimInv, Apart, StaysApart
<1>. QED  BY <1>1, <1>2, <1>3 DEF ClaimInv

\* Within a completion, and within the registration of an upload, nobody joins.
LEMMA TurnStaysApart ==
    ASSUME ClaimInv, NEW r \in Requests, NEW pc, Turn(r, pc),
           pc \in CompletePcs => reqs[r].pc \in CompletePcs,
           pc \in StartPcs => reqs[r].pc \in StartPcs
    PROVE  StaysApart(r)
BY DEF ClaimInv, Apart, Turn, StaysApart, CompletePcs, StartPcs

\* A step that writes no store, of a request that claimed nothing.
LEMMA Peacefully ==
    ASSUME ShapeOK, ClaimInv, NEW r \in Requests,
           UNCHANGED <<objects, rows, sessions>>,
           \A f \in Files : uploads'[f].state = uploads[f].state,
           \A p \in Requests : p # r => reqs'[p] = reqs[p],
           ~ Claims(reqs[r]),
           reqs'[r].pc = "forget" => reqs'[r].file \in rows,
           reqs[r].pc \in CompletePcs /\ reqs'[r].pc \notin {"idle", "sweep"}
               => reqs'[r].file = reqs[r].file,
           RequestSettles(reqs[r])', StaysApart(r)
    PROVE  ClaimInv'
<1>0. PICK f : f = IF reqs[r].pc \in CompletePcs THEN reqs[r].file ELSE reqs'[r].file
  OBVIOUS
<1>1. reqs'[r].pc = "forget" => reqs'[r].file = f
  BY <1>0
<1>2. f \in Files => Keeps(f, r)
  BY DEF Keeps
<1>3. ASSUME f \in Files PROVE FileClaimed(f)'
  <2>1. Forgotten(f)' => Forgotten(f) \/ f \in rows
    BY DEF Forgotten
  <2>2. Claimed(f) => Claimed(f)'
    BY DEF Claimed, Claims
  <2>. QED  BY <1>3, <2>1, <2>2 DEF ClaimInv, FileClaimed
<1>4. OffFile(f)
  BY DEF OffFile
<1>. QED  BY <1>0, <1>1, <1>2, <1>3, <1>4, Locally

LEMMA EasySettles ==
    \A q : q.pc \in EasyPcs \ {"register", "unregister", "sweepUnregister"} => RequestSettles(q)
BY DEF EasyPcs, SweepPcs, RequestSettles, SettledPcs, StartPcs

\* Who begins, looks up or reads changes no store.
LEMMA ReadsClaim ==
    ASSUME Sturdy, ShapeOK, ClaimInv, NEW r \in Requests,
           \/ CreateCommand(r) \/ SweepNext(r) \/ InsertStart(r) \/ BeginStart(r) \/ Consume(r)
           \/ BeginComplete(r) \/ BeginAbort(r) \/ BeginDelete(r)
    PROVE  ClaimInv'
<1>. USE DEF stores, history
<1>0. reqs \in [Requests -> Request] /\ rows \subseteq Files
  BY DEF ShapeOK, TypeOK
<1>1. UNCHANGED <<uploads, objects, rows, sessions>>
  BY DEF CreateCommand, SweepNext, InsertStart, BeginStart, Consume, BeginComplete, BeginAbort,
         BeginDelete
<1>2. ~ Claims(reqs[r]) /\ reqs[r].pc \notin CompletePcs
  <2>1. reqs[r] = Idle \/ reqs[r].pc \in {"sweep", "consume"}
    BY DEF CreateCommand, SweepNext, InsertStart, BeginStart, Consume, BeginComplete, BeginAbort,
           BeginDelete
  <2>. QED  BY <2>1 DEF Idle, Claims, CompletePcs
<1>3. ASSUME \A p \in Requests : p # r => reqs'[p] = reqs[p],
             reqs'[r].pc \in {"idle", "sweep", "sweepAbort", "consume", "create", "abort"}
      PROVE  ClaimInv'
  <2>1. RequestSettles(reqs[r])'
    BY <1>3 DEF RequestSettles, SettledPcs, StartPcs
  <2>2. StaysApart(r)
    BY <1>3 DEF StaysApart, CompletePcs, StartPcs
  <2>. QED  BY <1>1, <1>2, <1>3, <2>1, <2>2, Peacefully
<1>4. CASE CreateCommand(r) \/ BeginStart(r)
  BY <1>0, <1>3, <1>4 DEF CreateCommand, BeginStart, Idle
<1>5. CASE SweepNext(r)
  BY <1>0, <1>3, <1>5, ZenonT(30) DEF SweepNext, Request
<1>6. CASE InsertStart(r) \/ Consume(r)
  <2>1. "create" \in Pcs
    BY DEF Pcs
  <2>. QED  BY <1>3, <1>6, <2>1, Turns DEF InsertStart, Consume, Turn
<1>7. CASE BeginAbort(r)
  BY <1>3, <1>7, Begins DEF Begun
<1>8. CASE BeginComplete(r)
  <2>1. PICK f \in Files : Issued(f) /\ reqs' = [reqs EXCEPT ![r] = [Idle EXCEPT !.pc = "existing",
                                                                                !.file = f]]
    BY <1>8 DEF BeginComplete, SessionToken, UploadId
  <2>2. /\ \A p \in Requests : p # r => reqs'[p] = reqs[p]
        /\ reqs'[r].file = f /\ reqs'[r].pc = "existing"
    BY <1>0, <2>1 DEF Idle
  <2>3. StaysApart(r)
    BY <2>1, <2>2 DEF Issued, At, StaysApart, StartPcs
  <2>4. RequestSettles(reqs[r])'
    BY <2>2 DEF RequestSettles, SettledPcs, StartPcs
  <2>. QED  BY <1>1, <1>2, <2>2, <2>3, <2>4, Peacefully
<1>9. CASE BeginDelete(r)
  <2>1. PICK f \in Files : f \in rows /\ Begun(r, f, "removeObject")
    BY <1>9, Begins
  <2>2. Settled(f)
    BY <2>1 DEF ClaimInv, FileClaimed
  <2>3. RequestSettles(reqs[r])'
    BY <1>1, <2>1, <2>2 DEF Begun, RequestSettles, StartPcs
  <2>4. StaysApart(r)
    BY <2>1 DEF Begun, StaysApart, CompletePcs, StartPcs
  <2>. QED  BY <1>1, <1>2, <2>1, <2>3, <2>4, Peacefully DEF Begun
<1>. QED  BY <1>4, <1>5, <1>6, <1>7, <1>8, <1>9

\* A request keeps its file when it starts to undo, and the object is the first
\* thing it will name.
LEMMA UndoClaims ==
    ASSUME ShapeOK, NEW r \in Requests
    PROVE  /\ BeginUndo(r) => "object" \in reqs'[r].rest
           /\ \A o : Measure(r, o) => Claims(reqs'[r])
<1>1. ASSUME NEW pc, NEW rest, reqs' = [reqs EXCEPT ![r].pc = pc, ![r].rest = rest]
      PROVE  reqs'[r].rest = rest /\ reqs'[r].pc = pc
  BY <1>1 DEF ShapeOK, TypeOK, Request
<1>2. "object" \in TracesOf(reqs[r].file) /\ "object" \in TracesOf(reqs[r].file) \ {"row"}
  BY DEF TracesOf
<1>3. BeginUndo(r) => "object" \in reqs'[r].rest
  BY <1>1, <1>2 DEF BeginUndo
<1>4. ASSUME NEW o, Measure(r, o) PROVE Claims(reqs'[r])
  <2>1. CASE o = "whole"
    BY <1>4, <2>1 DEF Measure, Goto, Claims, ShapeOK, TypeOK, Request
  <2>2. CASE o # "whole"
    BY <1>1, <1>2, <1>4, <2>2 DEF Measure, Claims
  <2>. QED  BY <2>1, <2>2
<1>. QED  BY <1>3, <1>4

LEMMA CompletionReadsClaim ==
    ASSUME Sturdy, ShapeOK, ClaimInv, NEW r \in Requests,
           FindExisting(r) \/ GetObject(r) \/ ReadBack(r)
    PROVE  ClaimInv'
<1>. USE DEF stores, history
<1>0. PICK f : f = reqs[r].file
  OBVIOUS
<1>1. UNCHANGED <<uploads, objects, rows, sessions>>
  BY DEF FindExisting, GetObject, ReadBack
<1>2. ~ Claims(reqs[r]) /\ reqs[r].pc \in CompletePcs /\ f \in Files
  BY <1>0 DEF FindExisting, GetObject, ReadBack, Claims, CompletePcs, ShapeOK, Carries, FilePcs, Pcs
<1>3. FileClaimed(f) /\ RequestSettles(reqs[r])
  BY <1>2 DEF ClaimInv
<1>4. ASSUME NEW pc \in CompletePcs \cup {"idle"}, Turn(r, pc), RequestSettles(reqs[r])',
             pc = "forget" => f \in rows
      PROVE  ClaimInv'
  <2>1. StaysApart(r)
    BY <1>2, <1>4, TurnStaysApart DEF StartPcs, CompletePcs
  <2>. QED  BY <1>0, <1>1, <1>2, <1>4, <2>1, Peacefully DEF Turn
<1>5. ASSUME NEW pc \in {"idle", "existing", "object", "finish"}, Turn(r, pc) PROVE ClaimInv'
  <2>1. RequestSettles(reqs[r])'
    BY <1>5 DEF Turn, RequestSettles, SettledPcs, StartPcs
  <2>. QED  BY <1>4, <1>5, <2>1 DEF CompletePcs
<1>6. ASSUME NEW pc \in {"insert", "wrongSize", "undo", "forget"}, Turn(r, pc), Settled(f),
             pc \in {"wrongSize", "undo"} => "object" \in reqs'[r].rest,
             pc = "forget" => f \in rows
      PROVE  ClaimInv'
  <2>1. RequestSettles(reqs[r])'
    BY <1>0, <1>1, <1>6 DEF Turn, RequestSettles, SettledPcs, StartPcs
  <2>. QED  BY <1>4, <1>6, <2>1 DEF CompletePcs
<1>7. CASE FindExisting(r)
  <2>1. \A pc \in {"object", "finish"} : pc \in Pcs
    BY DEF Pcs, CompletePcs
  <2>. QED  BY <1>5, <1>7, <2>1, Turns DEF FindExisting, AfterExisting
<1>8. CASE GetObject(r)
  <2>1. CASE Goto(r, "finish")
    BY <1>5, <2>1, Turns DEF Pcs, CompletePcs
  <2>2. CASE objects[f] # "absent" /\ Measure(r, objects[f])
    <3>1. Turn(r, IF objects[f] = "whole" THEN "insert" ELSE "wrongSize") /\ Claims(reqs'[r])
      BY <2>2, Turns, UndoClaims
    <3>2. Settled(f)
      BY <1>3, <2>2 DEF FileClaimed
    <3>3. reqs'[r].pc = "wrongSize" => "object" \in reqs'[r].rest
      BY <3>1 DEF Claims
    <3>. QED  BY <1>6, <3>1, <3>2, <3>3 DEF Turn
  <2>. QED  BY <1>0, <1>8, <2>1, <2>2 DEF GetObject, Sturdy
<1>9. CASE ReadBack(r)
  <2>1. Settled(f)
    BY <1>0, <1>3, <1>9 DEF ReadBack, RequestSettles, SettledPcs
  <2>2. CASE f \in rows /\ Goto(r, "forget")
    <3>1. Turn(r, "forget")
      BY <2>2, Turns DEF Pcs, CompletePcs
    <3>. QED  BY <1>6, <2>1, <2>2, <3>1
  <2>3. CASE Answer(r)
    BY <1>5, <2>3, Turns
  <2>4. CASE BeginUndo(r)
    BY <1>6, <2>1, <2>4, Turns, UndoClaims
  <2>. QED  BY <1>0, <1>9, <2>2, <2>3, <2>4 DEF ReadBack
<1>. QED  BY <1>7, <1>8, <1>9

\* A new id names no upload, and nobody is at work on it.
LEMMA DrawsClaim ==
    ASSUME Sturdy, ShapeOK, FreshInv, ClaimInv,
           OpenMultipart \/ \E r \in Requests : CreateUpload(r) \/ CreateFile(r)
    PROVE  ClaimInv'
<1>0. /\ reqs \in [Requests -> Request]
      /\ uploads \in [Files -> [state : UploadStates, part : Parts]]
      /\ objects \in [Files -> {"absent", "short", "whole"}]
  BY DEF ShapeOK, TypeOK
<1>1. UNCHANGED <<rows, sessions>>
  BY DEF OpenMultipart, CreateUpload, CreateFile
<1>2. PICK f \in Files, state \in {"open", "single"} :
          /\ Fresh(f) /\ SetUpload(f, state)
          /\ objects' = [objects EXCEPT ![f] = IF state = "single" THEN "whole" ELSE @]
          /\ \/ state = "open" /\ UNCHANGED reqs
             \/ \E r \in Requests : /\ reqs[r].pc \in {"idle", "create"}
                                   /\ Begun(r, f, IF state = "open" THEN "register" ELSE "insert")
  <2>1. ASSUME NEW r \in Requests, NEW f \in Files,
               reqs' = [reqs EXCEPT ![r].pc = "register", ![r].file = f]
        PROVE  Begun(r, f, "register")
    BY <1>0, <2>1 DEF Begun, Request
  <2>2. ASSUME NEW r \in Requests, NEW f \in Files,
               reqs' = [reqs EXCEPT ![r] = [Idle EXCEPT !.pc = "insert", !.file = f]]
        PROVE  Begun(r, f, "insert")
    BY <1>0, <2>2 DEF Begun, Idle
  <2>3. "storage" \notin Faults /\ Idle.pc = "idle"
    BY DEF Sturdy, Idle
  <2>4. CASE OpenMultipart
    BY <1>0, <2>4 DEF OpenMultipart
  <2>5. CASE \E r \in Requests : CreateUpload(r)
    BY <1>0, <2>1, <2>3, <2>5 DEF CreateUpload
  <2>6. CASE \E r \in Requests : CreateFile(r)
    BY <1>0, <2>2, <2>3, <2>6 DEF CreateFile, SetObject
  <2>. QED  BY <2>4, <2>5, <2>6
<1>3. /\ uploads[f].state = "none" /\ uploads'[f].state = state
      /\ objects'[f] = IF state = "single" THEN "whole" ELSE objects[f]
      /\ \A g \in Files : g # f => uploads'[g] = uploads[g] /\ objects'[g] = objects[g]
  BY <1>0, <1>2 DEF FreshInv, SetUpload
<1>4. OffFile(f) /\ objects[f] = "absent" /\ f \notin rows
  BY <1>1, <1>3 DEF OffFile, ClaimInv, FileClaimed
<1>5. \A p \in Requests : reqs[p].pc \in CompletePcs \cup StartPcs => reqs[p].file # f
  BY <1>2 DEF FreshInv, DrawnPcs, StartPcs
<1>6. CASE state = "open" /\ UNCHANGED reqs
  <2>1. ASSUME NEW g \in Files PROVE FileClaimed(g)'
    BY <1>1, <1>3, <1>4, <1>6 DEF ClaimInv, FileClaimed, Claimed, Forgotten
  <2>2. ASSUME NEW p \in Requests PROVE RequestSettles(reqs[p])'
    <3>1. reqs[p].pc \in BoundPcs => reqs[p].file \in Files
      BY DEF ShapeOK, Carries, FilePcs, Pcs, CompletePcs, BoundPcs, SettledPcs, StartPcs
    <3>2. RequestSettles(reqs[p])
      BY DEF ClaimInv
    <3>3. reqs[p].pc \in BoundPcs => reqs[p].file # f
      BY <1>3, <1>5, <3>2 DEF RequestSettles, BoundPcs
    <3>. QED  BY <1>3, <1>6, <3>1, <3>2, <3>3 DEF RequestSettles, BoundPcs, SettledPcs
  <2>3. Apart'
    BY <1>6 DEF ClaimInv, Apart
  <2>. QED  BY <2>1, <2>2, <2>3 DEF ClaimInv
<1>7. ASSUME NEW r \in Requests, reqs[r].pc \in {"idle", "create"},
             Begun(r, f, IF state = "open" THEN "register" ELSE "insert")
      PROVE  ClaimInv'
  <2>1. ~ Claims(reqs[r]) /\ reqs[r].pc \notin CompletePcs /\ reqs'[r].pc # "forget"
    BY <1>7 DEF Claims, CompletePcs, Begun
  <2>2. Keeps(f, r)
    BY <1>3 DEF Keeps
  <2>3. FileClaimed(f)'
    BY <1>1, <1>3, <1>4, <1>7 DEF FileClaimed, Claimed, Claims, Begun
  <2>4. RequestSettles(reqs[r])'
    BY <1>3, <1>7 DEF Begun, RequestSettles, SettledPcs, StartPcs
  <2>5. StaysApart(r)
    BY <1>5, <1>7 DEF Begun, StaysApart, CompletePcs, StartPcs
  <2>. QED  BY <1>4, <1>7, <2>1, <2>2, <2>3, <2>4, <2>5, Locally DEF Begun
<1>. QED  BY <1>2, <1>6, <1>7

\* The steps that write a store: each is a turn of the request on its own file.
LEMMA WritesClaim ==
    ASSUME ShapeOK, ClaimInv, NEW r \in Requests, NEW f \in Files, f = reqs[r].file,
           NEW pc, Turn(r, pc), OffFile(f), Keeps(f, r), FileClaimed(f)',
           pc \in CompletePcs => reqs[r].pc \in CompletePcs,
           pc \in StartPcs => reqs[r].pc \in StartPcs,
           RequestSettles(reqs[r])'
    PROVE  ClaimInv'
<1>1. StaysApart(r)
  BY TurnStaysApart
<1>2. reqs'[r].pc = "forget" => reqs'[r].file = f
  BY DEF Turn
<1>. QED  BY <1>1, <1>2, Locally DEF Turn

\* The session of a new upload, and the abort when it could not be written.
LEMMA RegistersClaim ==
    ASSUME Sturdy, ShapeOK, ClaimInv, NEW r \in Requests, Register(r) \/ Release(r)
    PROVE  ClaimInv'
<1>. USE DEF history
<1>0. PICK f : f = reqs[r].file
  OBVIOUS
<1>1. /\ reqs[r].pc \in StartPcs /\ f \in Files /\ ~ Settled(f)
      /\ uploads[f].state \in {"open", "aborted"}
  <2>1. reqs[r].pc \in StartPcs
    BY DEF Register, Release, StartPcs
  <2>2. f \in Files
    BY <1>0, <2>1 DEF ShapeOK, Carries, FilePcs, Pcs, CompletePcs, StartPcs
  <2>3. uploads[f].state \in {"open", "aborted"}
    BY <1>0, <2>1 DEF ClaimInv, RequestSettles
  <2>. QED  BY <2>1, <2>2, <2>3
<1>2. UNCHANGED <<objects, rows>> /\ objects[f] = "absent" /\ f \notin rows
  BY <1>1 DEF Register, Release, ClaimInv, FileClaimed
<1>3. /\ \A g \in Files : g # f => /\ uploads'[g] = uploads[g]
                                   /\ g \in sessions' <=> g \in sessions
      /\ uploads'[f].state \in {uploads[f].state, "aborted"}
  BY <1>0, <1>1 DEF Register, Release, SetUpload, ShapeOK, TypeOK
<1>4. OffFile(f) /\ Keeps(f, r) /\ FileClaimed(f)'
  BY <1>1, <1>2, <1>3 DEF OffFile, Keeps, FileClaimed
<1>5. PICK pc \in {"idle", "release"} : Turn(r, pc)
  BY Turns DEF Register, Release, Pcs
<1>6. RequestSettles(reqs[r])'
  BY <1>0, <1>1, <1>3, <1>5 DEF Turn, RequestSettles, SettledPcs, StartPcs
<1>7. pc \notin CompletePcs
  BY <1>5 DEF CompletePcs
<1>. QED  BY <1>0, <1>1, <1>4, <1>5, <1>6, <1>7, WritesClaim

\* R2 assembles the object: the request that asked for it claims it.
LEMMA FinishClaims ==
    ASSUME Sturdy, ShapeOK, ClaimInv, NEW r \in Requests, Finish(r)
    PROVE  ClaimInv'
<1>. USE DEF history
<1>0. PICK f : f = reqs[r].file
  OBVIOUS
<1>1. reqs[r].pc = "finish" /\ f \in Files
  BY <1>0 DEF Finish, ShapeOK, Carries, FilePcs, Pcs, CompletePcs
<1>2. CASE Answer(r) /\ UNCHANGED <<uploads, objects>>
  <2>1. Turn(r, "idle")
    BY <1>2, Turns
  <2>2. RequestSettles(reqs[r])' /\ StaysApart(r)
    BY <2>1 DEF Turn, RequestSettles, SettledPcs, StartPcs, StaysApart, CompletePcs
  <2>. QED  BY <1>1, <1>2, <2>1, <2>2, Peacefully DEF Turn, Finish, Claims
<1>3. CASE /\ uploads[f].state = "open" /\ SetUpload(f, "completed")
           /\ SetObject(f, uploads[f].part) /\ Measure(r, uploads[f].part)
  <2>1. /\ uploads'[f].state = "completed"
        /\ \A g \in Files : g # f => uploads'[g] = uploads[g] /\ objects'[g] = objects[g]
    BY <1>1, <1>3 DEF SetUpload, SetObject, ShapeOK, TypeOK
  <2>2. PICK pc \in {"insert", "wrongSize"} : Turn(r, pc) /\ Claims(reqs'[r])
    BY <1>3, Turns, UndoClaims
  <2>3. Claimed(f)'
    BY <1>0, <2>2 DEF Claimed, Turn
  <2>4. OffFile(f) /\ Keeps(f, r) /\ FileClaimed(f)'
    BY <1>1, <1>3, <2>1, <2>3 DEF Finish, OffFile, Keeps, FileClaimed, CompletePcs
  <2>5. RequestSettles(reqs[r])'
    BY <1>0, <2>1, <2>2 DEF Turn, Claims, RequestSettles, StartPcs
  <2>. QED  BY <1>0, <1>1, <2>2, <2>4, <2>5, WritesClaim DEF CompletePcs, StartPcs
<1>4. "storage" \notin Faults
  BY DEF Sturdy
<1>. QED  BY <1>0, <1>2, <1>3, <1>4 DEF Finish

\* The row takes the object over; a request that cannot write it deletes the object.
LEMMA InsertClaims ==
    ASSUME Sturdy, ShapeOK, ClaimInv, NEW r \in Requests, Insert(r)
    PROVE  ClaimInv'
<1>. USE DEF history
<1>0. PICK f : f = reqs[r].file
  OBVIOUS
<1>1. reqs[r].pc = "insert" /\ f \in Files
  BY <1>0 DEF Insert, ShapeOK, Carries, FilePcs, Pcs, CompletePcs
<1>2. Settled(f)
  BY <1>0, <1>1 DEF ClaimInv, RequestSettles, SettledPcs
<1>3. UNCHANGED <<uploads, objects, sessions>> /\ rows' \in {rows, rows \cup {f}}
  BY <1>0 DEF Insert
<1>4. PICK pc \in {"readBack", "undo"} : /\ Turn(r, pc)
                                         /\ pc = "readBack" => f \in rows'
                                         /\ pc = "undo" => "object" \in reqs'[r].rest
  <2>1. "readBack" \in Pcs
    BY DEF Pcs, CompletePcs
  <2>. QED  BY <1>0, <2>1, Turns, UndoClaims DEF Insert
<1>5. f \in rows' \/ Claimed(f)'
  BY <1>0, <1>4 DEF Claimed, Claims, Turn
<1>6. OffFile(f) /\ Keeps(f, r) /\ FileClaimed(f)'
  BY <1>1, <1>2, <1>3, <1>5 DEF OffFile, Keeps, FileClaimed
<1>7. RequestSettles(reqs[r])'
  BY <1>0, <1>2, <1>3, <1>4 DEF Turn, RequestSettles, StartPcs
<1>. QED  BY <1>0, <1>1, <1>4, <1>6, <1>7, WritesClaim DEF CompletePcs, StartPcs

\* The session is deleted only when the row, or a request, has the object.
LEMMA ForgetClaims ==
    ASSUME Sturdy, ShapeOK, ClaimInv, NEW r \in Requests, Forget(r)
    PROVE  ClaimInv'
<1>. USE DEF history
<1>0. PICK f : f = reqs[r].file
  OBVIOUS
<1>1. reqs[r].pc = "forget" /\ f \in Files
  BY <1>0 DEF Forget, ShapeOK, Carries, FilePcs, Pcs, CompletePcs
<1>2. Settled(f) /\ FileClaimed(f)
  BY <1>0, <1>1 DEF ClaimInv, RequestSettles, SettledPcs
<1>3. UNCHANGED <<uploads, objects, rows>> /\ sessions' \in {sessions, sessions \ {f}}
  BY <1>0 DEF Forget
<1>4. PICK pc \in {"idle", "undo"} : Turn(r, pc) /\ (pc = "undo" => "object" \in reqs'[r].rest)
  BY Turns, UndoClaims DEF Forget
<1>5. Forgotten(f)
  BY <1>0, <1>1 DEF Forgotten
<1>6. Claimed(f) => Claimed(f)'
  BY <1>0, <1>1, <1>4 DEF Claimed, Claims, Turn
<1>7. OffFile(f) /\ Keeps(f, r) /\ FileClaimed(f)'
  BY <1>1, <1>2, <1>3, <1>5, <1>6 DEF OffFile, Keeps, FileClaimed
<1>8. RequestSettles(reqs[r])'
  BY <1>0, <1>2, <1>3, <1>4 DEF Turn, RequestSettles, SettledPcs, StartPcs
<1>. QED  BY <1>0, <1>1, <1>4, <1>7, <1>8, WritesClaim DEF CompletePcs, StartPcs

\* What a completion deletes again: until the object is gone the request claims it.
LEMMA UndoLetsGo ==
    ASSUME Sturdy, ShapeOK, ClaimInv, NEW r \in Requests, Undo(r)
    PROVE  ClaimInv'
<1>0. PICK f : f = reqs[r].file
  OBVIOUS
<1>1. reqs[r].pc \in {"undo", "wrongSize"} /\ f \in Files
  BY <1>0 DEF Undo, ShapeOK, Carries, FilePcs, Pcs, CompletePcs
<1>2. /\ Settled(f) /\ FileClaimed(f)
      /\ "object" \notin reqs[r].rest => objects[f] = "absent"
  BY <1>0, <1>1 DEF ClaimInv, RequestSettles, SettledPcs
<1>3. UNCHANGED uploads /\ "storage" \notin Faults
  BY DEF Undo, Sturdy
<1>4. PICK x \in reqs[r].rest :
          /\ x = "object" => objects' = [objects EXCEPT ![f] = "absent"]
          /\ x # "object" => UNCHANGED objects
          /\ rows' \in {rows, rows \ {f}} /\ sessions' \in {sessions, sessions \ {f}}
          /\ IF reqs[r].rest = {x} THEN Answer(r) ELSE reqs' = [reqs EXCEPT ![r].rest = @ \ {x}]
  <2>1. \A x \in reqs[r].rest : x \in {"object", "session", "row"}
    BY <1>1 DEF ShapeOK, Carries
  <2>. QED  BY <1>0, <1>3, <2>1 DEF Undo, DropObject, SetObject
<1>5. PICK pc \in {"idle", "undo", "wrongSize"} :
          /\ Turn(r, pc)
          /\ pc = "idle" => reqs[r].rest = {x}
          /\ pc # "idle" => reqs'[r].rest = reqs[r].rest \ {x}
  <2>1. CASE reqs[r].rest = {x}
    BY <1>4, <2>1, Turns
  <2>2. CASE reqs[r].rest # {x}
    BY <1>1, <1>4, <2>2 DEF Turn, ShapeOK, TypeOK, Request
  <2>. QED  BY <2>1, <2>2
<1>6. /\ objects'[f] = "absent" \/ (objects'[f] = objects[f] /\ x # "object")
      /\ \A g \in Files : g # f => objects'[g] = objects[g]
  BY <1>1, <1>4 DEF ShapeOK, TypeOK
<1>7. objects'[f] # "absent" => Claims(reqs'[r])
  BY <1>2, <1>4, <1>5, <1>6 DEF Turn, Claims
<1>8. Claims(reqs'[r]) => Claimed(f)'
  BY <1>0, <1>5 DEF Claimed, Claims, Turn
<1>9. OffFile(f) /\ Keeps(f, r) /\ FileClaimed(f)'
  BY <1>1, <1>2, <1>3, <1>4, <1>6, <1>7, <1>8 DEF OffFile, Keeps, FileClaimed
<1>10. RequestSettles(reqs[r])'
  BY <1>0, <1>2, <1>3, <1>5, <1>7 DEF Turn, Claims, RequestSettles, SettledPcs, StartPcs
<1>11. pc \notin StartPcs /\ reqs[r].pc \in CompletePcs
  BY <1>1, <1>5 DEF CompletePcs, StartPcs
<1>. QED  BY <1>0, <1>1, <1>5, <1>9, <1>10, <1>11, WritesClaim

\* An upload is aborted, and its session deleted, only while it is open.
LEMMA AbortsClaim ==
    ASSUME Sturdy, ShapeOK, ClaimInv, NEW r \in Requests, AbortUpload(r) \/ Unregister(r)
    PROVE  ClaimInv'
<1>. USE DEF history
<1>0. PICK f : f = reqs[r].file
  OBVIOUS
<1>1. /\ reqs[r].pc \in {"abort", "sweepAbort", "unregister", "sweepUnregister"} /\ f \in Files
      /\ UNCHANGED <<objects, rows>>
  BY <1>0 DEF AbortUpload, Unregister, ShapeOK, Carries, FilePcs, Pcs
<1>2. CASE Return(r) /\ UNCHANGED <<uploads, sessions>>
  <2>1. PICK pc \in {"idle", "sweep"} : Turn(r, pc)
    BY <1>2, Turns
  <2>2. RequestSettles(reqs[r])' /\ StaysApart(r)
    BY <2>1 DEF Turn, RequestSettles, SettledPcs, StartPcs, StaysApart, CompletePcs
  <2>. QED  BY <1>1, <1>2, <2>1, <2>2, Peacefully DEF Turn, Claims, CompletePcs
<1>3. CASE ~ (Return(r) /\ UNCHANGED <<uploads, sessions>>)
  <2>1. PICK pc \in {"idle", "sweep", "unregister", "sweepUnregister"} : Turn(r, pc)
    <3>1. \A pc \in {"unregister", "sweepUnregister"} : pc \in Pcs
      BY DEF Pcs
    <3>. QED  BY <3>1, Turns DEF AbortUpload, Unregistering, Unregister
  <2>2. /\ ~ Settled(f) /\ uploads'[f].state = "aborted"
        /\ \A g \in Files : g # f => /\ uploads'[g] = uploads[g]
                                     /\ g \in sessions' <=> g \in sessions
    <3>1. CASE AbortUpload(r)
      BY <1>0, <1>1, <1>3, <3>1 DEF AbortUpload, SetUpload, ShapeOK, TypeOK
    <3>2. CASE Unregister(r)
      BY <1>0, <3>2 DEF Unregister, ClaimInv, RequestSettles
    <3>. QED  BY <3>1, <3>2
  <2>3. objects[f] = "absent" /\ f \notin rows
    BY <1>1, <2>2 DEF ClaimInv, FileClaimed
  <2>4. OffFile(f) /\ Keeps(f, r) /\ FileClaimed(f)'
    BY <1>1, <2>2, <2>3 DEF OffFile, Keeps, FileClaimed
  <2>5. RequestSettles(reqs[r])'
    BY <1>0, <2>1, <2>2 DEF Turn, RequestSettles, SettledPcs, StartPcs
  <2>. QED  BY <1>0, <1>1, <2>1, <2>4, <2>5, WritesClaim DEF CompletePcs, StartPcs
<1>. QED  BY <1>2, <1>3

\* The owner's deletion takes the object first.
LEMMA DeletesClaim ==
    ASSUME Sturdy, ShapeOK, ClaimInv, NEW r \in Requests, RemoveObject(r) \/ RemoveRow(r)
    PROVE  ClaimInv'
<1>. USE DEF history
<1>0. PICK f : f = reqs[r].file
  OBVIOUS
<1>1. /\ reqs[r].pc \in {"removeObject", "removeRow"} /\ f \in Files
      /\ UNCHANGED <<uploads, sessions>>
  BY <1>0 DEF RemoveObject, RemoveRow, ShapeOK, Carries, FilePcs, Pcs
<1>2. Settled(f) /\ (reqs[r].pc = "removeRow" => objects[f] = "absent")
  BY <1>0, <1>1 DEF ClaimInv, RequestSettles, SettledPcs
<1>3. PICK pc \in {"idle", "removeRow"} : Turn(r, pc)
  BY Turns DEF RemoveObject, RemoveRow, Pcs
<1>4. /\ objects'[f] = "absent"
      /\ \A g \in Files : g # f => objects'[g] = objects[g] /\ (g \in rows' <=> g \in rows)
  BY <1>0, <1>1, <1>2 DEF RemoveObject, RemoveRow, SetObject, Sturdy, ShapeOK, TypeOK
<1>5. OffFile(f) /\ Keeps(f, r) /\ FileClaimed(f)'
  BY <1>1, <1>2, <1>4 DEF OffFile, Keeps, FileClaimed
<1>6. RequestSettles(reqs[r])'
  BY <1>0, <1>1, <1>2, <1>3, <1>4 DEF Turn, RequestSettles, SettledPcs, StartPcs
<1>7. pc \notin CompletePcs \cup StartPcs
  BY <1>3 DEF CompletePcs, StartPcs
<1>. QED  BY <1>0, <1>1, <1>3, <1>5, <1>6, <1>7, WritesClaim

LEMMA RestClaims ==
    ASSUME ShapeOK, ClaimInv, Expire \/ (\E f \in Files : UploadPart(f)) \/ UNCHANGED vars
    PROVE  ClaimInv'
<1>. USE DEF stores, history, vars
<1>1. /\ UNCHANGED <<rows, objects, sessions, reqs>>
      /\ \A f \in Files : uploads'[f].state = uploads[f].state
  BY DEF Expire, UploadPart, StorePart, ShapeOK, TypeOK
<1>2. \A f \in Files : FileClaimed(f)'
  BY <1>1 DEF ClaimInv, FileClaimed, Claimed, Forgotten
<1>3. ASSUME NEW p \in Requests PROVE RequestSettles(reqs[p])'
  <2>1. reqs[p].pc \in BoundPcs => reqs[p].file \in Files
    BY DEF ShapeOK, Carries, FilePcs, Pcs, CompletePcs, BoundPcs, SettledPcs, StartPcs
  <2>. QED  BY <1>1, <2>1 DEF ClaimInv, RequestSettles, BoundPcs
<1>. QED  BY <1>1, <1>2, <1>3 DEF ClaimInv, Apart

\* An object without a row is in somebody's hands, whatever statement D1 fails and
\* however many completions of the file run at once (secure-uploads.ts:504, 470).
THEOREM ObjectsStayClaimed == Sturdy => (Spec => []ObjectsAreClaimed)
<1> SUFFICES ASSUME Sturdy PROVE Spec => []ObjectsAreClaimed
  OBVIOUS
<1>1. Init => ClaimInv
  BY DEF Init, ClaimInv, FileClaimed, RequestSettles, Apart, SettledPcs, StartPcs, Idle
<1>2. ShapeOK /\ FreshInv /\ ClaimInv /\ [Next]_vars => ClaimInv'
  <2>1. \A r \in Requests : ~ Lose(r)
    BY DEF Lose, Sturdy
  <2>. QED  BY <2>1, ReadsClaim, CompletionReadsClaim, DrawsClaim, RegistersClaim, FinishClaims,
               InsertClaims, ForgetClaims, UndoLetsGo, AbortsClaim, DeletesClaim, RestClaims
            DEF Next, Complete
<1>3. ClaimInv => ObjectsAreClaimed
  BY DEF ClaimInv, FileClaimed, Claimed, ObjectsAreClaimed
<1>. QED  BY <1>1, <1>2, <1>3, FreshHolds, PTL DEF Spec

=============================================================================
