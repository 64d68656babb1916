----------------------------- MODULE DriveUploads -----------------------------
(***************************************************************************)
(* How a file comes into Drive and leaves it.  A secure upload has a start *)
(* capability, the R2 multipart upload it opens, the session that tracks   *)
(* it, and the row that makes the object a file; the owner's browser puts  *)
(* an object in one request, or in parts with no session.  R2 and D1 are   *)
(* two stores with no transaction between them; every statement of a       *)
(* request is a step, and a statement may fail, or succeed without the     *)
(* Worker hearing of it.                                                   *)
(*                                                                         *)
(* An upload, its object, its session and its row all carry one file id,   *)
(* drawn once.  Sizes are abstracted to whether the part stored is whole;  *)
(* time to the moments at which a capability expires.                      *)
(***************************************************************************)
EXTENDS FiniteSets

CONSTANTS
    Starts,     \* nonces of start capabilities
    Files,      \* file ids
    Requests,   \* requests the Worker is running
    Faults,     \* subset of {"storage", "database", "isolate"}
    Overlap,    \* TRUE: two completions of one file may run at once
    Owner,      \* the owner's browser, which draws file ids without a capability
    Null

ASSUME UploadsAssumption ==
    /\ Faults \subseteq {"storage", "database", "isolate"}
    /\ Overlap \in BOOLEAN
    /\ Null \notin Starts \cup Files \cup {Owner}
    /\ Owner \notin Starts

VARIABLES
    starts,     \* secure_upload_start_capabilities
    expired,    \* start capabilities and upload sessions that are past expires_at
    uploads,    \* R2 multipart uploads, with the part last stored; "single": one put
    objects,    \* R2 objects
    sessions,   \* file ids in secure_upload_sessions
    rows,       \* file ids in files
    reqs,
    openedBy,   \* the start capability, or the owner, with which a file id was drawn
    acked,      \* files the Worker has answered to be stored
    removal     \* files the owner has asked to delete, and has been told are deleted

stores  == <<starts, uploads, objects, sessions, rows>>
history == <<openedBy, acked, removal>>
vars    == <<stores, expired, reqs, history>>

-------------------------------------------------------------------------------

Idle == [pc |-> "idle", start |-> Null, file |-> Null, rest |-> {}]

CompletePcs == {"existing", "object", "finish", "insert", "readBack", "forget", "undo",
                "wrongSize"}
Pcs == {"idle", "sweep", "sweepAbort", "sweepUnregister", "consume", "create", "register",
        "release", "abort", "unregister", "removeObject", "removeRow"} \cup CompletePcs
Traces == {"object", "session", "row"}

\* rest: what a failed completion has still to delete, or a sweep to abort
Request == [pc : Pcs, start : Starts \cup {Null}, file : Files \cup {Null},
            rest : (SUBSET Traces) \cup (SUBSET Files)]

UploadStates == {"none", "open", "completed", "aborted", "single"}
Parts        == {"missing", "short", "whole"}

TypeOK ==
    /\ starts \in [Starts -> {"none", "live", "consumed"}]
    /\ expired \subseteq Starts \cup Files
    /\ uploads \in [Files -> [state : UploadStates, part : Parts]]
    /\ objects \in [Files -> {"absent", "short", "whole"}]
    /\ sessions \subseteq Files
    /\ rows \subseteq Files
    /\ reqs \in [Requests -> Request]
    /\ openedBy \in [Files -> Starts \cup {Owner, Null}]
    /\ acked \subseteq Files
    /\ removal \in [Files -> {"none", "asked", "done"}]

Init ==
    /\ starts = [s \in Starts |-> "none"]
    /\ expired = {}
    /\ uploads = [f \in Files |-> [state |-> "none", part |-> "missing"]]
    /\ objects = [f \in Files |-> "absent"]
    /\ sessions = {} /\ rows = {}
    /\ reqs = [r \in Requests |-> Idle]
    /\ openedBy = [f \in Files |-> Null]
    /\ acked = {}
    /\ removal = [f \in Files |-> "none"]

Goto(r, pc) == reqs' = [reqs EXCEPT ![r].pc = pc]
Answer(r)   == reqs' = [reqs EXCEPT ![r] = Idle]

\* The file ids on which a request in one of the pcs works
At(pcs) == {reqs[r].file : r \in {r \in Requests : reqs[r].pc \in pcs}}

SetUpload(f, state) == uploads' = [uploads EXCEPT ![f].state = state]

SetObject(f, o) == objects' = [objects EXCEPT ![f] = o]

\* crypto.randomUUID: an id that nobody has drawn
Fresh(f) == openedBy[f] = Null

Draw(f, by) == openedBy' = [openedBy EXCEPT ![f] = by]

ByOwner(f) == openedBy[f] = Owner

-------------------------------------------------------------------------------
(* createCommand and startUpload *)

\* The command sweeps before it draws a start capability: SELECT the expired.
CreateCommand(r) ==
    /\ reqs[r] = Idle
    /\ \E s \in Starts : starts[s] = "none"
    /\ reqs' = [reqs EXCEPT ![r] = [Idle EXCEPT !.pc = "sweep",
                                               !.rest = sessions \cap expired]]
    /\ UNCHANGED <<stores, expired, history>>

SweepNext(r) ==
    /\ reqs[r].pc = "sweep"
    /\ \E f \in reqs[r].rest :
          reqs' = [reqs EXCEPT ![r].pc = "sweepAbort", ![r].file = f, ![r].rest = @ \ {f}]
    /\ UNCHANGED <<stores, expired, history>>

\* A failed INSERT shows nobody the token: it leaves no capability.
InsertStart(r) ==
    /\ reqs[r].pc = "sweep" /\ reqs[r].rest = {}
    /\ \/ \E s \in Starts : /\ starts[s] = "none"
                            /\ starts' = [starts EXCEPT ![s] = "live"]
       \/ "database" \in Faults /\ UNCHANGED starts
    /\ Answer(r)
    /\ UNCHANGED <<uploads, objects, sessions, rows, expired, history>>

\* A capability reaches its expiry; nothing is written.
Expire ==
    /\ \E x \in {s \in Starts : starts[s] # "none"} \cup sessions :
          x \notin expired /\ expired' = expired \cup {x}
    /\ UNCHANGED <<stores, reqs, history>>

\* registeredStartCapability lets a consumed capability pass.
BeginStart(r) ==
    /\ reqs[r] = Idle
    /\ \E s \in Starts : /\ starts[s] # "none" /\ s \notin expired
                         /\ reqs' = [reqs EXCEPT ![r] = [Idle EXCEPT !.pc = "consume",
                                                                     !.start = s]]
    /\ UNCHANGED <<stores, expired, history>>

\* Mutant: the update does not look at consumed_at again.
Consumable_Twice(s) == s \notin expired

Consumable(s) == starts[s] = "live" /\ s \notin expired

\* UPDATE ... SET consumed_at ... RETURNING: 409 without a row, or an error
Consume(r) ==
    LET s == reqs[r].start IN
    /\ reqs[r].pc = "consume"
    /\ \/ /\ Consumable(s)
          /\ starts' = [starts EXCEPT ![s] = "consumed"]
          /\ Goto(r, "create")
       \/ /\ ~ Consumable(s)
          /\ Answer(r) /\ UNCHANGED starts
       \/ /\ Consumable(s) /\ "database" \in Faults
          /\ starts' \in {starts, [starts EXCEPT ![s] = "consumed"]}
          /\ Answer(r)
    /\ UNCHANGED <<uploads, objects, sessions, rows, expired, history>>

CreateUpload(r) ==
    /\ reqs[r].pc = "create"
    /\ \/ \E f \in Files :
             /\ Fresh(f) /\ Draw(f, reqs[r].start)
             /\ SetUpload(f, "open")
             /\ reqs' = [reqs EXCEPT ![r].pc = "register", ![r].file = f]
       \/ /\ "storage" \in Faults
          /\ Answer(r)
          /\ UNCHANGED <<uploads, openedBy>>
    /\ UNCHANGED <<starts, objects, sessions, rows, expired, acked, removal>>

\* INSERT the session and answer 201 with its token; or abort the upload
Register(r) ==
    LET f == reqs[r].file IN
    /\ reqs[r].pc = "register"
    /\ \/ sessions' = sessions \cup {f} /\ Answer(r)
       \/ /\ "database" \in Faults
          /\ sessions' \in {sessions, sessions \cup {f}}
          /\ Goto(r, "release")
    /\ UNCHANGED <<starts, uploads, objects, rows, expired, history>>

\* upload.abort().catch(() => undefined), and 503
Release(r) ==
    /\ reqs[r].pc = "release"
    /\ \/ SetUpload(reqs[r].file, "aborted")
       \/ "storage" \in Faults /\ UNCHANGED uploads
    /\ Answer(r)
    /\ UNCHANGED <<starts, objects, sessions, rows, expired, openedBy, acked, removal>>

-------------------------------------------------------------------------------
(* The owner's browser: create, multipartCreate *)

\* FILES.put of the whole file.  An error is answered at once: if the object was
\* stored all the same, it stays.
CreateFile(r) ==
    /\ reqs[r] = Idle
    /\ \E f \in Files :
          /\ Fresh(f) /\ Draw(f, Owner)
          /\ SetUpload(f, "single") /\ SetObject(f, "whole")
          /\ \/ reqs' = [reqs EXCEPT ![r] = [Idle EXCEPT !.pc = "insert", !.file = f]]
             \/ "storage" \in Faults /\ UNCHANGED reqs
    /\ UNCHANGED <<starts, sessions, rows, expired, acked, removal>>

OpenMultipart ==
    /\ \E f \in Files : Fresh(f) /\ Draw(f, Owner) /\ SetUpload(f, "open")
    /\ UNCHANGED <<starts, objects, sessions, rows, expired, reqs, acked, removal>>

-------------------------------------------------------------------------------
(* uploadPart and completeUpload; multipartPart and multipartComplete *)

\* The token of a session, or the id of an upload, is in somebody's hands.
Issued(f) == uploads[f].state \notin {"none", "single"} /\ f \notin At({"register", "release"})

\* The token of a session lasts until the session expires, the id of an upload as
\* long as its owner is signed in.
SessionToken(f) == ~ ByOwner(f) /\ Issued(f) /\ f \notin expired

UploadId(f) == ByOwner(f) /\ Issued(f)

\* A part replaces one that was stored before it.
StorePart(f) ==
    /\ uploads[f].state = "open"
    /\ \E p \in {"short", "whole"} : uploads' = [uploads EXCEPT ![f].part = p]

UploadPart(f) ==
    /\ SessionToken(f) \/ UploadId(f)
    /\ StorePart(f)
    /\ UNCHANGED <<starts, objects, sessions, rows, expired, reqs, history>>

BeginComplete(r) ==
    /\ reqs[r] = Idle
    /\ \E f \in Files :
          /\ SessionToken(f) \/ UploadId(f)
          /\ Overlap \/ f \notin At(CompletePcs)
          /\ reqs' = [reqs EXCEPT ![r] = [Idle EXCEPT !.pc = "existing", !.file = f]]
    /\ UNCHANGED <<stores, expired, history>>

\* Mutant: a completion that is repeated is taken for a new one.
Stored_Never(f) == FALSE

Stored(f) == f \in rows

\* The owner's completion goes on without looking for an object.
AfterExisting(f) == IF ByOwner(f) THEN "finish" ELSE "object"

\* The file exists: the repeated completion is answered with it.
FindExisting(r) ==
    LET f == reqs[r].file IN
    /\ reqs[r].pc = "existing"
    /\ \/ Stored(f) /\ acked' = acked \cup {f} /\ Answer(r)
       \/ /\ ~ Stored(f) /\ UNCHANGED acked
          /\ Goto(r, AfterExisting(f))
       \/ "database" \in Faults /\ Answer(r) /\ UNCHANGED acked
    /\ UNCHANGED <<stores, expired, openedBy, removal>>

\* Of the owner's uploads there is no session.
TracesOf(f) == IF ByOwner(f) THEN Traces \ {"session"} ELSE Traces

\* What has been written is deleted again, each trace by a statement of its own.
BeginUndo(r) ==
    reqs' = [reqs EXCEPT ![r].pc = "undo", ![r].rest = TracesOf(reqs[r].file)]

\* Mutant: for a wrong size the upload, which is over, is named for the object.
Measure_Upload(r, o) ==
    IF o = "whole" THEN Goto(r, "insert")
    ELSE reqs' = [reqs EXCEPT ![r].pc = "wrongSize", ![r].rest = {"upload", "session"}]

\* The size is compared; the object of the wrong size goes, and the session.
Measure(r, o) ==
    IF o = "whole" THEN Goto(r, "insert")
    ELSE reqs' = [reqs EXCEPT ![r].pc = "wrongSize",
                              ![r].rest = TracesOf(reqs[r].file) \ {"row"}]

\* FILES.get: an object that an earlier completion left behind is adopted.
GetObject(r) ==
    LET f == reqs[r].file IN
    /\ reqs[r].pc = "object"
    /\ \/ objects[f] = "absent" /\ Goto(r, "finish")
       \/ objects[f] # "absent" /\ Measure(r, objects[f])
       \/ "storage" \in Faults /\ Answer(r)
    /\ UNCHANGED <<stores, expired, history>>

\* complete(parts): R2 knows only uploads that are open.
Finish(r) ==
    LET f == reqs[r].file  u == uploads[f] IN
    /\ reqs[r].pc = "finish"
    /\ \/ /\ u.state = "open" /\ u.part # "missing"
          /\ SetUpload(f, "completed") /\ SetObject(f, u.part)
          /\ Measure(r, u.part) \/ ("storage" \in Faults /\ Answer(r))
       \/ /\ u.state # "open" \/ u.part = "missing" \/ "storage" \in Faults
          /\ Answer(r)
          /\ UNCHANGED <<uploads, objects>>
    /\ UNCHANGED <<starts, sessions, rows, expired, history>>

\* INSERT INTO files: the id is the primary key.
Insert(r) ==
    LET f == reqs[r].file IN
    /\ reqs[r].pc = "insert"
    /\ \/ /\ f \notin rows
          /\ rows' = rows \cup {f} /\ Goto(r, "readBack")
       \/ /\ f \in rows
          /\ UNCHANGED rows /\ BeginUndo(r)
       \/ /\ "database" \in Faults
          /\ rows' \in {rows, rows \cup {f}} /\ BeginUndo(r)
    /\ UNCHANGED <<starts, uploads, objects, sessions, expired, history>>

\* The row is read for the answer, 201; of the owner's uploads nothing else is left to do.
ReadBack(r) ==
    LET f == reqs[r].file IN
    /\ reqs[r].pc = "readBack"
    /\ \/ f \in rows /\ ~ ByOwner(f) /\ Goto(r, "forget") /\ UNCHANGED acked
       \/ f \in rows /\ ByOwner(f) /\ Answer(r) /\ acked' = acked \cup {f}
       \/ (f \notin rows \/ "database" \in Faults) /\ BeginUndo(r) /\ UNCHANGED acked
    /\ UNCHANGED <<stores, expired, openedBy, removal>>

\* DELETE the session and answer 201
Forget(r) ==
    LET f == reqs[r].file IN
    /\ reqs[r].pc = "forget"
    /\ \/ sessions' = sessions \ {f} /\ acked' = acked \cup {f} /\ Answer(r)
       \/ /\ "database" \in Faults
          /\ sessions' \in {sessions, sessions \ {f}} /\ BeginUndo(r)
          /\ UNCHANGED acked
    /\ UNCHANGED <<starts, uploads, objects, rows, expired, openedBy, removal>>

\* Mutant: the row and the session are taken back, the object is not.
DropObject_Kept(f) == UNCHANGED objects

DropObject(f) == SetObject(f, "absent")

\* Promise.allSettled or Promise.all of the deletes, in any order, then the
\* error: 500 metadata_write_failed, or 400 for the wrong size
Undo(r) ==
    LET f == reqs[r].file  last(x) == reqs[r].rest = {x} IN
    /\ reqs[r].pc \in {"undo", "wrongSize"}
    /\ \E x \in reqs[r].rest :
        /\ CASE x = "object"  -> /\ DropObject(f) \/ ("storage" \in Faults /\ UNCHANGED objects)
                                 /\ UNCHANGED <<rows, sessions>>
             [] x = "row"     -> /\ rows' = rows \ {f} \/ ("database" \in Faults /\ UNCHANGED rows)
                                 /\ UNCHANGED <<objects, sessions>>
             [] x = "session" -> /\ \/ sessions' = sessions \ {f}
                                    \/ "database" \in Faults /\ UNCHANGED sessions
                                 /\ UNCHANGED <<objects, rows>>
        /\ IF last(x) THEN Answer(r) ELSE reqs' = [reqs EXCEPT ![r].rest = @ \ {x}]
    /\ UNCHANGED <<starts, uploads, expired, openedBy, acked, removal>>

-------------------------------------------------------------------------------
(* abortUpload and multipartAbort, cleanupExpiredSecureUploads, delete *)

\* The client gives up, also after expiry.
BeginAbort(r) ==
    /\ reqs[r] = Idle
    /\ \E f \in Files :
          /\ Issued(f)
          /\ reqs' = [reqs EXCEPT ![r] = [Idle EXCEPT !.pc = "abort", !.file = f]]
    /\ UNCHANGED <<stores, expired, history>>

\* abortUpload is over; the sweep goes on, also after an error.
Return(r) ==
    IF reqs[r].pc \in {"abort", "unregister"} THEN Answer(r)
    ELSE reqs' = [reqs EXCEPT ![r].pc = "sweep", ![r].file = Null]

\* What the abort goes on with: the session, where there is one.
Unregistering(r) ==
    IF ByOwner(reqs[r].file) THEN Answer(r)
    ELSE Goto(r, IF reqs[r].pc = "abort" THEN "unregister" ELSE "sweepUnregister")

\* R2 refuses to abort an upload that is not open; the session is then kept.
AbortUpload(r) ==
    LET f == reqs[r].file IN
    /\ reqs[r].pc \in {"abort", "sweepAbort"}
    /\ \/ /\ uploads[f].state = "open"
          /\ SetUpload(f, "aborted")
          /\ Unregistering(r)
       \/ /\ uploads[f].state # "open" \/ "storage" \in Faults
          /\ Return(r) /\ UNCHANGED uploads
    /\ UNCHANGED <<starts, objects, sessions, rows, expired, history>>

Unregister(r) ==
    /\ reqs[r].pc \in {"unregister", "sweepUnregister"}
    /\ \/ sessions' = sessions \ {reqs[r].file}
       \/ "database" \in Faults /\ UNCHANGED sessions
    /\ Return(r)
    /\ UNCHANGED <<starts, uploads, objects, rows, expired, history>>

\* The owner deletes a file that is listed: first the object, then the row.
BeginDelete(r) ==
    /\ reqs[r] = Idle
    /\ \E f \in rows :
          /\ reqs' = [reqs EXCEPT ![r] = [Idle EXCEPT !.pc = "removeObject", !.file = f]]
          /\ removal' = [removal EXCEPT ![f] = IF @ = "none" THEN "asked" ELSE @]
    /\ UNCHANGED <<stores, expired, openedBy, acked>>

RemoveObject(r) ==
    LET f == reqs[r].file IN
    /\ reqs[r].pc = "removeObject"
    /\ \/ SetObject(f, "absent") /\ Goto(r, "removeRow")
       \/ "storage" \in Faults /\ Answer(r) /\ UNCHANGED objects
    /\ UNCHANGED <<starts, uploads, sessions, rows, expired, history>>

RemoveRow(r) ==
    LET f == reqs[r].file IN
    /\ reqs[r].pc = "removeRow"
    /\ \/ rows' = rows \ {f} /\ removal' = [removal EXCEPT ![f] = "done"]
       \/ "database" \in Faults /\ UNCHANGED <<rows, removal>>
    /\ Answer(r)
    /\ UNCHANGED <<starts, uploads, objects, sessions, expired, openedBy, acked>>

\* The isolate is lost with the request it was running.
Lose(r) ==
    /\ "isolate" \in Faults
    /\ reqs[r] # Idle
    /\ Answer(r)
    /\ UNCHANGED <<stores, expired, history>>

-------------------------------------------------------------------------------

Complete(r) == \/ FindExisting(r) \/ GetObject(r) \/ Finish(r)
               \/ Insert(r) \/ ReadBack(r) \/ Forget(r) \/ Undo(r)

Next ==
    \/ Expire
    \/ OpenMultipart
    \/ \E f \in Files : UploadPart(f)
    \/ \E r \in Requests :
          \/ CreateCommand(r) \/ SweepNext(r) \/ InsertStart(r)
          \/ BeginStart(r) \/ Consume(r) \/ CreateUpload(r) \/ Register(r) \/ Release(r)
          \/ CreateFile(r) \/ BeginComplete(r) \/ Complete(r)
          \/ BeginAbort(r) \/ AbortUpload(r) \/ Unregister(r)
          \/ BeginDelete(r) \/ RemoveObject(r) \/ RemoveRow(r)
          \/ Lose(r)

Spec == Init /\ [][Next]_vars
-------------------------------------------------------------------------------
(* Properties *)

\* A start capability opens at most one upload, however often and however
\* concurrently it is presented (secure-uploads.ts:265; router.test.ts:710).
StartsAreSingleUse ==
    \A f, g \in Files : openedBy[f] \in Starts /\ openedBy[f] = openedBy[g] => f = g

\* A file that was acknowledged stays, row and object, until its owner asks for
\* its deletion: a completion that is repeated because its answer was lost must
\* find it and leave it alone (secure-uploads.ts:423).
AcknowledgedIsKept ==
    \A f \in acked : removal[f] = "none" => f \in rows /\ objects[f] = "whole"

\* A deleted file does not come back, though the token of its session, with
\* which it could be completed, may outlive it by hours.
DeletedStaysDeleted == \A f \in Files : removal[f] = "done" => f \notin rows

\* An object without a row is still in somebody's hands: its session is
\* registered, or a request is working on it; also where the browser has put it
\* without a session (secure-uploads.ts:504, 470; files.ts:459, 627).
ObjectsAreClaimed ==
    \A f \in Files :
        objects[f] # "absent" => \/ f \in rows \/ f \in sessions
                                 \/ \E r \in Requests : reqs[r].file = f
===============================================================================
