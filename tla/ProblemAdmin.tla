---------------------------- MODULE ProblemAdmin ----------------------------
(***************************************************************************)
(* Problems: POST and DELETE of /api/v1/problems, the table and the bucket *)
(* behind them, and the way of the problem id of a submission to the       *)
(* worker.  A problem is a row and an object, problems/<id>.zip, in two    *)
(* stores without a common transaction: the handler writes them one after  *)
(* the other and takes back what it wrote when a later write fails.  The   *)
(* id of the problem a submission is for is kept in two places as well,    *)
(* the row of the submission and the payload of its job.                   *)
(***************************************************************************)
EXTENDS Naturals, Faults

CONSTANTS
    Requests,       \* requests of administrators in progress
    Submissions,    \* submissions for a problem
    Archives,       \* uploaded zip files, as sets of entries
    MaxProblems     \* bound: ids drawn from the sequence of the table

CaseNames == {1, 2}

\* A test case file: where it is in the archive, whose case it is, and
\* whether it holds the input or the expected output.
Entries == [place : {"top", "directory", "hidden"}, name : CaseNames, ext : {"in", "out"}]

Ids == 1..MaxProblems

\* No archive that is accepted is empty.
NoObject == {}

ASSUME ProblemAssumption ==
    /\ Archives \subseteq SUBSET Entries
    /\ MaxProblems \in Nat

VARIABLES
    req,        \* req[r]: the request r; its context is live until the client goes
    row,        \* row[i]: the row of problem i
    object,     \* object[i]: the archive under problems/<i>.zip
    lastId,     \* the sequence behind problems.id
    sub,        \* sub[s]: a submission, its row and its payload
    created,    \* ids that a client was given
    deleted,    \* ids that a DELETE statement was sent for
    abandoned   \* ids whose creation was not taken back: the client or the process was
                \* gone, the database did not answer, the temporary file was unreadable

vars == <<req, row, object, lastId, sub, created, deleted, abandoned, budget>>

NoRequest == [pc |-> "idle", id |-> 0, archive |-> {}, live |-> TRUE]

\* problem: what the client asked for; column: submissions.problem_id, 0 for
\* NULL; due: its event is not delivered; payload, scan, task: the id in the
\* payload key, in the hands of the repair loop and of the worker; whole: the
\* problem was reported as created when the row was stored; repaired: the
\* repair loop wrote the payload; cases: what it was judged with.
NoSubmission == [pc |-> "idle", problem |-> 0, column |-> 0, due |-> FALSE, payload |-> {}, scan |-> {},
                 task |-> 0, whole |-> FALSE, repaired |-> FALSE, cases |-> NoObject]

Init ==
    /\ req = [r \in Requests |-> NoRequest]
    /\ row = [i \in Ids |-> "none"]
    /\ object = [i \in Ids |-> NoObject]
    /\ lastId = 0
    /\ sub = [s \in Submissions |-> NoSubmission]
    /\ created = {} /\ deleted = {} /\ abandoned = {}
    /\ FaultsInit

\* The foreign key of submissions.problem_id: ON DELETE SET NULL.
OnDeleteSetNull(i) ==
    sub' = [s \in Submissions |-> IF sub[s].column = i THEN [sub[s] EXCEPT !.column = 0] ELSE sub[s]]

---------------------------------------------------------------------------
(* HandleCreateProblem *)

\* validateZipContent looks at no hidden file, and takes the directory for a
\* part of the name: every input has its output, and there is one.
ValidateZipContent(a) ==
    LET visible(ext) == {<<e.place, e.name>> : e \in {f \in a : f.place # "hidden" /\ f.ext = ext}}
    IN  visible("in") # {} /\ visible("in") \subseteq visible("out")

Answered(r) == req' = [req EXCEPT ![r] = NoRequest]

Goto(r, pc) == req' = [req EXCEPT ![r].pc = pc]

\* A statement or a call fails when the store does, or because the context of
\* the request is gone.
Fails(r, kind) == IF req[r].live THEN Fault(kind) ELSE NoFault

\* It succeeds only with a live context.
Works(r) == req[r].live /\ NoFault

\* The form is checked and the archive copied to a temporary file.
HandleCreateProblem(r, a) ==
    /\ req[r].pc = "idle"
    /\ IF ValidateZipContent(a)
       THEN req' = [req EXCEPT ![r].pc = "insert", ![r].archive = a]
       ELSE UNCHANGED req
    /\ NoFault
    /\ UNCHANGED <<row, object, lastId, sub, created, deleted, abandoned>>

CreateProblemReusesId(r) ==
    LET i == CHOOSE n \in Ids : row[n] = "none" /\ \A m \in Ids : m < n => row[m] # "none"
    IN  /\ req[r].pc = "insert"
        /\ \E n \in Ids : row[n] = "none"
        /\ Works(r)
        /\ row' = [row EXCEPT ![i] = "no_path"]
        /\ req' = [req EXCEPT ![r].pc = "upload", ![r].id = i]
        /\ UNCHANGED <<object, lastId, sub, created, deleted, abandoned>>

\* INSERT ... RETURNING id: without the answer nothing is taken back, though
\* the row may be there.
CreateProblem(r) ==
    LET i == lastId + 1
    IN  /\ req[r].pc = "insert"
        /\ i \in Ids
        /\ lastId' = i
        /\ \/ /\ Works(r)
              /\ row' = [row EXCEPT ![i] = "no_path"]
              /\ req' = [req EXCEPT ![r].pc = "upload", ![r].id = i]
           \/ Fails(r, "insert") /\ Answered(r) /\ UNCHANGED row
           \/ Fault("insert_answer") /\ Answered(r) /\ row' = [row EXCEPT ![i] = "no_path"]
        /\ abandoned' = IF req'[r].pc = "idle" THEN abandoned \cup {i} ELSE abandoned
        /\ UNCHANGED <<object, sub, created, deleted>>

\* UploadFile: an object may be stored although the call fails.  When the
\* temporary file cannot be read again the row is not taken back.
UploadFile(r) ==
    LET stored == [object EXCEPT ![req[r].id] = req[r].archive]
    IN  /\ req[r].pc = "upload"
        /\ \/ Works(r) /\ object' = stored /\ Goto(r, "path")
           \/ Fails(r, "upload") /\ object' \in {object, stored} /\ Goto(r, "undo_row")
           \/ Fault("seek") /\ Answered(r) /\ UNCHANGED object
        /\ abandoned' = IF req'[r].pc = "idle" THEN abandoned \cup {req[r].id} ELSE abandoned
        /\ UNCHANGED <<row, lastId, sub, created, deleted>>

UpdateTestcasePathIgnoresError(r) ==
    LET i == req[r].id
    IN  /\ req[r].pc = "path"
        /\ \/ Works(r) /\ row' = IF row[i] = "none" THEN row ELSE [row EXCEPT ![i] = "path"]
           \/ Fails(r, "path") /\ UNCHANGED row
        /\ created' = created \cup {i}
        /\ Answered(r)
        /\ UNCHANGED <<object, lastId, sub, deleted, abandoned>>

\* UpdateTestcasePath: no row to update is no error.
UpdateTestcasePath(r) ==
    LET i == req[r].id
        set == IF row[i] = "none" THEN row ELSE [row EXCEPT ![i] = "path"]
    IN  /\ req[r].pc = "path"
        /\ \/ Works(r) /\ row' = set /\ created' = created \cup {i} /\ Answered(r)
           \/ Fails(r, "path") /\ row' \in {row, set} /\ Goto(r, "undo_object") /\ UNCHANGED created
        /\ UNCHANGED <<object, lastId, sub, deleted, abandoned>>

\* The error of RemoveFile is ignored, ...
RemoveFile(r) ==
    /\ req[r].pc = "undo_object"
    /\ \/ Works(r) /\ object' = [object EXCEPT ![req[r].id] = NoObject]
       \/ Fails(r, "remove") /\ UNCHANGED object
    /\ Goto(r, "undo_row")
    /\ UNCHANGED <<row, lastId, sub, created, deleted, abandoned>>

UndoRowForgotten(r) ==
    /\ req[r].pc = "undo_row"
    /\ Works(r)
    /\ Answered(r)
    /\ UNCHANGED <<row, object, lastId, sub, created, deleted, abandoned>>

\* ... and so is that of DeleteProblem.
UndoRow(r) ==
    /\ req[r].pc = "undo_row"
    /\ \/ Works(r) /\ row' = [row EXCEPT ![req[r].id] = "none"] /\ OnDeleteSetNull(req[r].id)
       \/ Fails(r, "undo") /\ UNCHANGED <<row, sub>>
    /\ abandoned' = IF row' = row THEN abandoned \cup {req[r].id} ELSE abandoned
    /\ Answered(r)
    /\ UNCHANGED <<object, lastId, created, deleted>>

---------------------------------------------------------------------------
(* HandleDeleteProblem *)

\* GetProblem; a row that is not there is a 404.
HandleDeleteProblem(r, i) ==
    /\ req[r].pc = "idle"
    /\ row[i] # "none"
    /\ req' = [req EXCEPT ![r].pc = "delete", ![r].id = i]
    /\ NoFault
    /\ UNCHANGED <<row, object, lastId, sub, created, deleted, abandoned>>

\* The row goes, and with it the problem id of its submissions; or it is gone
\* already, which is an error.  The object stays.
DeleteProblem(r) ==
    LET i == req[r].id
        gone == row' = [row EXCEPT ![i] = "none"] /\ OnDeleteSetNull(i)
    IN  /\ req[r].pc = "delete"
        /\ \/ Works(r) /\ gone
           \/ Fails(r, "delete") /\ (gone \/ UNCHANGED <<row, sub>>)
        /\ deleted' = deleted \cup {i}
        /\ Answered(r)
        /\ UNCHANGED <<object, lastId, created, abandoned>>

---------------------------------------------------------------------------
(* A submission for a problem.  JobPipeline says when its job is enqueued, *)
(* claimed and taken over; here are the steps that pass on its problem id. *)

Unchanged == UNCHANGED <<req, row, object, lastId, created, deleted, abandoned>>

\* HandleSubmit asks for the row of the problem, not for its path, ...
GetProblem(s, i) ==
    /\ sub[s].pc = "idle"
    /\ row[i] # "none"
    /\ sub' = [sub EXCEPT ![s].pc = "checked", ![s].problem = i]
    /\ NoFault /\ Unchanged

\* ... and stores the id in the row, where the foreign key refuses that of a
\* problem deleted since, and in the task of the event.
InsertSubmission(s) ==
    LET i == sub[s].problem
    IN  /\ sub[s].pc = "checked"
        /\ sub' = [sub EXCEPT ![s] =
                     IF row[i] = "none" THEN [sub[s] EXCEPT !.pc = "refused"]
                     ELSE [sub[s] EXCEPT !.pc = "stored", !.column = i, !.due = TRUE, !.whole = i \in created]]
        /\ NoFault /\ Unchanged

DispatchReadsRow(s) ==
    /\ sub[s].due
    /\ sub' = [sub EXCEPT ![s].payload = {sub[s].column}, ![s].due = FALSE]
    /\ NoFault /\ Unchanged

\* The dispatcher sets the payload to the task of the event; an event that
\* cannot be marked is dispatched again.
Dispatch(s) ==
    /\ sub[s].due
    /\ \E due \in BOOLEAN :
          /\ sub' = [sub EXCEPT ![s].payload = {sub[s].problem}, ![s].due = due]
          /\ IF due THEN Fault("mark") ELSE NoFault
    /\ Unchanged

\* fetchRepairCandidates: COALESCE(problem_id, 0) of a pending row.
FetchRepairCandidate(s) ==
    /\ sub[s].pc = "stored" /\ sub[s].scan = {}
    /\ sub' = [sub EXCEPT ![s].scan = {sub[s].column}]
    /\ NoFault /\ Unchanged

\* enqueueRepairedJob sets the payload to what was read, however long ago.
EnqueueRepairedJob(s) ==
    /\ sub[s].scan # {}
    /\ sub' = [sub EXCEPT ![s] = [sub[s] EXCEPT !.payload = sub[s].scan, !.scan = {}, !.repaired = TRUE]]
    /\ NoFault /\ Unchanged

\* The worker reads the payload, also again when it takes the job over.
TakePayload(s) ==
    /\ sub[s].pc \in {"stored", "taken"}
    /\ \E i \in sub[s].payload : sub' = [sub EXCEPT ![s].pc = "taken", ![s].task = i]
    /\ NoFault /\ Unchanged

\* Prepare: there is no problems/0.zip, and without an object the job ends
\* with a System Error.
Prepare(s) ==
    /\ sub[s].pc = "taken"
    /\ sub' = [sub EXCEPT ![s].pc = "judged",
                 ![s].cases = IF sub[s].task = 0 THEN NoObject ELSE object[sub[s].task]]
    /\ NoFault /\ Unchanged

\* The names the worker globs, hidden files among them, and only at the top.
JudgedCases(a) == {<<e.place, e.name>> : e \in {f \in a : f.place # "directory" /\ f.ext = "in"}}

HasAnswer(a, c) == [place |-> c[1], name |-> c[2], ext |-> "out"] \in a

---------------------------------------------------------------------------
(* The environment *)

\* The client goes away: every later call with the request's context fails.
Disconnect(r) ==
    /\ req[r].pc # "idle" /\ req[r].live
    /\ Fault("disconnect")
    /\ req' = [req EXCEPT ![r].live = FALSE]
    /\ abandoned' = IF req[r].pc = "delete" THEN abandoned ELSE abandoned \cup {req[r].id}
    /\ UNCHANGED <<row, object, lastId, sub, created, deleted>>

Crash(r) ==
    /\ req[r].pc # "idle"
    /\ Fault("crash")
    /\ Answered(r)
    /\ abandoned' = IF req[r].pc = "delete" THEN abandoned ELSE abandoned \cup {req[r].id}
    /\ UNCHANGED <<row, object, lastId, sub, created, deleted>>

Next ==
    \/ \E r \in Requests :
          \/ \E a \in Archives : HandleCreateProblem(r, a)
          \/ CreateProblem(r) \/ UploadFile(r) \/ UpdateTestcasePath(r)
          \/ RemoveFile(r) \/ UndoRow(r)
          \/ \E i \in Ids : HandleDeleteProblem(r, i)
          \/ DeleteProblem(r)
          \/ Disconnect(r) \/ Crash(r)
    \/ \E s \in Submissions :
          \/ InsertSubmission(s) \/ \E i \in Ids : GetProblem(s, i)
          \/ Dispatch(s) \/ FetchRepairCandidate(s) \/ EnqueueRepairedJob(s)
          \/ TakePayload(s) \/ Prepare(s)

Spec == Init /\ [][Next]_vars

---------------------------------------------------------------------------
(* Types. *)
TypeOK ==
    /\ req \in [Requests -> [pc : {"idle", "insert", "upload", "path", "undo_object", "undo_row", "delete"},
                             id : 0..MaxProblems, archive : Archives \cup {{}}, live : BOOLEAN]]
    /\ row \in [Ids -> {"none", "no_path", "path"}]
    /\ object \in [Ids -> Archives \cup {NoObject}]
    /\ lastId \in 0..MaxProblems
    /\ sub \in [Submissions ->
          [pc : {"idle", "checked", "stored", "refused", "taken", "judged"},
           problem : 0..MaxProblems, column : 0..MaxProblems, due : BOOLEAN,
           payload : SUBSET (0..MaxProblems), scan : SUBSET (0..MaxProblems), task : 0..MaxProblems,
           whole : BOOLEAN, repaired : BOOLEAN, cases : Archives \cup {NoObject}]]
    /\ created \subseteq Ids /\ deleted \subseteq Ids /\ abandoned \subseteq 0..MaxProblems
    /\ budget \in Nat
    /\ \A i \in Ids : i > lastId => row[i] = "none" /\ object[i] = NoObject

AtWork(i) == \E r \in Requests : req[r].id = i

(* A problem that was reported as created is all there, row, path and      *)
(* object, until somebody deletes it: neither a failing request of another *)
(* client nor what it takes back touches it.                               *)
CreatedIsComplete ==
    \A i \in created \ deleted : row[i] = "path" /\ object[i] # NoObject

(* A creation that failed takes back what it wrote: when no request works  *)
(* on a problem any more, its row has an object behind it, unless the      *)
(* request was abandoned before it could.                                  *)
NoHalfProblem ==
    \A i \in Ids \ abandoned : row[i] # "none" /\ ~AtWork(i) => object[i] # NoObject

(* A problem is there as a whole or not at all, although row and object    *)
(* are in two stores and other requests run, fail and undo meanwhile.      *)
WholeOrNothing == CreatedIsComplete /\ NoHalfProblem

(* Nothing is ever left of a creation that failed.                         *)
NothingHalf ==
    \A i \in Ids : row[i] # "none" /\ ~AtWork(i) => object[i] # NoObject

\* The repair loop has enqueued s, and its problem has been deleted.
MayBeOrphaned(s) == sub[s].repaired /\ sub[s].problem \in deleted

(* A submission for a problem that was all there is judged with the test   *)
(* cases of that problem and no other's, however creations, deletions,     *)
(* dispatches, repairs and takeovers interleave: a deletion while it waits *)
(* keeps the object, and the id in the payload outlives the id in the row. *)
(* Only when the repair loop has enqueued it and its problem was deleted   *)
(* may it find no test cases at all.                                       *)
JudgedByOwnCases ==
    \A s \in Submissions : sub[s].pc = "judged" /\ sub[s].whole =>
        \/ sub[s].cases = object[sub[s].problem] /\ sub[s].cases # NoObject
        \/ sub[s].cases = NoObject /\ MayBeOrphaned(s)

(* A deletion never takes the test cases from a submission that waits.     *)
DeletionKeepsCases ==
    \A s \in Submissions : sub[s].pc = "judged" /\ sub[s].whole => sub[s].cases # NoObject

(* A submission is only stored for a problem whose test cases are there.   *)
StoredIsJudgeable ==
    \A s \in Submissions : sub[s].pc = "stored" => object[sub[s].problem] # NoObject

(* What passes the validation of the API can be judged by the worker: it   *)
(* finds at least one case, and the answer to every case it finds.         *)
ValidatedIsJudgeable ==
    \A i \in Ids : object[i] # NoObject =>
        /\ JudgedCases(object[i]) # {}
        /\ \A c \in JudgedCases(object[i]) : HasAnswer(object[i], c)
=============================================================================
