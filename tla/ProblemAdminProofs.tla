------------------------- MODULE ProblemAdminProofs -------------------------
(***************************************************************************)
(* Why a problem is there as a whole or not at all.  Row and object are    *)
(* written one after the other; the argument is that every creation works  *)
(* on an id of its own, which no client has been given yet, so that what   *)
(* it writes, fails to write or takes back concerns nobody else.           *)
(***************************************************************************)
EXTENDS ProblemAdmin, TLAPS

Request == [pc : {"idle", "insert", "upload", "path", "undo_object", "undo_row", "delete"},
            id : 0..MaxProblems, archive : Archives \cup {{}}, live : BOOLEAN]

Submission == [pc : {"idle", "checked", "stored", "refused", "taken", "judged"},
               problem : 0..MaxProblems, column : 0..MaxProblems, due : BOOLEAN,
               payload : SUBSET (0..MaxProblems), scan : SUBSET (0..MaxProblems), task : 0..MaxProblems,
               whole : BOOLEAN, repaired : BOOLEAN, cases : Archives \cup {NoObject}]

\* r has inserted a row and neither answered nor taken it back yet.
Creating(r) == req[r].pc \in {"upload", "path", "undo_object", "undo_row"}

\* A creation works on an id of its own, on a valid archive, and on a row that
\* is there unless somebody asked for its deletion.
RequestOK(r) ==
    /\ req[r].id <= lastId
    /\ req[r].id = 0 <=> req[r].pc \in {"idle", "insert"}
    /\ req[r].pc = "insert" \/ Creating(r) =>
          req[r].archive \in Archives /\ ValidateZipContent(req[r].archive)
    /\ req[r].pc \in {"upload", "path"} => row[req[r].id] # "none" \/ req[r].id \in deleted
    /\ req[r].pc = "path" => object[req[r].id] # NoObject
    /\ Creating(r) => req[r].id \notin created

RequestInv ==
    /\ \A r \in Requests : RequestOK(r)
    /\ \A g, r \in Requests : g # r /\ Creating(g) /\ Creating(r) => req[g].id # req[r].id

\* What clients were given keeps its object, deleted or not.
CreatedInv ==
    \A i \in created :
        /\ i <= lastId
        /\ object[i] # NoObject
        /\ i \notin deleted => row[i] = "path"

\* A row without an object belongs to a creation, or to one that was abandoned.
HalfInv ==
    \A i \in Ids \ abandoned :
        row[i] # "none" /\ (\A r \in Requests : Creating(r) => req[r].id # i)
        => object[i] # NoObject

ProblemInv == TypeOK /\ RequestInv /\ CreatedInv /\ HalfInv

---------------------------------------------------------------------------
\* Request r becomes the given one, the others stay.
Becomes(r, pc, id, archive, live) ==
    /\ req' \in [Requests -> Request]
    /\ req'[r].pc = pc /\ req'[r].id = id /\ req'[r].archive = archive /\ req'[r].live = live
    /\ \A g \in Requests \ {r} : req'[g] = req[g]

(* What each step makes of its request. *)
LEMMA RequestAfter ==
    ASSUME req \in [Requests -> Request], NEW r \in Requests
    PROVE  /\ Answered(r) => Becomes(r, "idle", 0, {}, TRUE)
           /\ \A pc \in {"path", "undo_object", "undo_row"} :
                 Goto(r, pc) => Becomes(r, pc, req[r].id, req[r].archive, req[r].live)
           /\ \A a \in Archives :
                 req' = [req EXCEPT ![r].pc = "insert", ![r].archive = a]
                 => Becomes(r, "insert", req[r].id, a, req[r].live)
           /\ \A i \in Ids :
                 req' = [req EXCEPT ![r].pc = "upload", ![r].id = i]
                 => Becomes(r, "upload", i, req[r].archive, req[r].live)
           /\ \A i \in Ids :
                 req' = [req EXCEPT ![r].pc = "delete", ![r].id = i]
                 => Becomes(r, "delete", i, req[r].archive, req[r].live)
           /\ req' = [req EXCEPT ![r].live = FALSE]
                 => Becomes(r, req[r].pc, req[r].id, req[r].archive, FALSE)
<1>1. 0 \in 0..MaxProblems /\ Ids \subseteq 0..MaxProblems
  BY ProblemAssumption DEF Ids
<1>2. NoRequest \in Request
  BY <1>1 DEF NoRequest, Request
<1>3. Answered(r) => Becomes(r, "idle", 0, {}, TRUE)
  BY <1>2 DEF Answered, Becomes, NoRequest
<1>4. ASSUME NEW pc \in {"path", "undo_object", "undo_row"}, Goto(r, pc)
      PROVE  Becomes(r, pc, req[r].id, req[r].archive, req[r].live)
  BY <1>4 DEF Goto, Becomes, Request
<1>5. ASSUME NEW a \in Archives, req' = [req EXCEPT ![r].pc = "insert", ![r].archive = a]
      PROVE  Becomes(r, "insert", req[r].id, a, req[r].live)
  BY <1>5 DEF Becomes, Request
<1>6. ASSUME NEW i \in Ids, req' = [req EXCEPT ![r].pc = "upload", ![r].id = i]
      PROVE  Becomes(r, "upload", i, req[r].archive, req[r].live)
  BY <1>1, <1>6 DEF Becomes, Request
<1>7. ASSUME NEW i \in Ids, req' = [req EXCEPT ![r].pc = "delete", ![r].id = i]
      PROVE  Becomes(r, "delete", i, req[r].archive, req[r].live)
  BY <1>1, <1>7 DEF Becomes, Request
<1>8. ASSUME req' = [req EXCEPT ![r].live = FALSE]
      PROVE  Becomes(r, req[r].pc, req[r].id, req[r].archive, FALSE)
  BY <1>8 DEF Becomes, Request
<1> QED  BY <1>3, <1>4, <1>5, <1>6, <1>7, <1>8

(* An archive that passes the validation is not empty. *)
LEMMA ValidNotEmpty == \A a : ValidateZipContent(a) => a # NoObject
BY DEF ValidateZipContent, NoObject

(* Whether a call works or fails, what is left to fail is a number. *)
LEMMA BudgetAfter ==
    ASSUME budget \in Nat, NEW r
    PROVE  /\ NoFault => budget' \in Nat
           /\ \A kind : Fault(kind) => budget' \in Nat
           /\ \A kind : Fails(r, kind) => budget' \in Nat
           /\ Works(r) => budget' \in Nat
<1>1. NoFault => budget' \in Nat
  BY DEF NoFault
<1>2. ASSUME NEW kind, Fault(kind)  PROVE budget' \in Nat
  BY <1>2 DEF Fault
<1>3. ASSUME NEW kind, Fails(r, kind)  PROVE budget' \in Nat
  <2>1. CASE req[r].live  BY <1>2, <1>3, <2>1 DEF Fails
  <2>2. CASE ~req[r].live  BY <1>1, <1>3, <2>2 DEF Fails
  <2> QED  BY <2>1, <2>2
<1> QED  BY <1>1, <1>2, <1>3 DEF Works

(* A deletion takes the problem id from rows of submissions, and nothing   *)
(* else.                                                                   *)
LEMMA SetNullAfter ==
    ASSUME sub \in [Submissions -> Submission], NEW i, OnDeleteSetNull(i)
    PROVE  /\ sub' \in [Submissions -> Submission]
           /\ \A s \in Submissions :
                 sub'[s] = sub[s] \/ (sub[s].column = i /\ sub'[s] = [sub[s] EXCEPT !.column = 0])
<1> DEFINE null(s) == [sub[s] EXCEPT !.column = 0]
           after(s) == IF sub[s].column = i THEN null(s) ELSE sub[s]
<1>1. ASSUME NEW s \in Submissions  PROVE null(s) \in Submission
  BY ProblemAssumption DEF Submission
<1>2. ASSUME NEW s \in Submissions
      PROVE  after(s) \in Submission /\ (after(s) = sub[s] \/ (sub[s].column = i /\ after(s) = null(s)))
  <2> HIDE DEF null
  <2> QED  BY <1>1
<1>3. sub' = [s \in Submissions |-> after(s)]
  BY DEF OnDeleteSetNull
<1> HIDE DEF after
<1>4. \A s \in Submissions : sub'[s] = after(s)
  BY <1>3
<1>5. sub' \in [Submissions -> Submission]
  BY <1>2, <1>3
<1> QED  BY <1>2, <1>4, <1>5, Zenon

LEMMA ProblemInit == Init => ProblemInv
<1> SUFFICES ASSUME Init PROVE ProblemInv
  OBVIOUS
<1>1. NoRequest \in Request
  BY ProblemAssumption DEF NoRequest, Request
<1>2. TypeOK
  <2>1. NoSubmission \in Submission
    BY ProblemAssumption DEF NoSubmission, Submission
  <2>2. sub \in [Submissions -> Submission]
    BY <2>1 DEF Init
  <2> QED
    BY <1>1, <2>2, ProblemAssumption, MaxFaultsAssumption
    DEF Init, TypeOK, Request, Submission, Ids, FaultsInit, NoObject
<1>3. \A r \in Requests : req[r].pc = "idle" /\ req[r].id = 0
  BY DEF Init, NoRequest
<1>4. RequestInv
  BY <1>3, ProblemAssumption DEF Init, RequestInv, RequestOK, Creating
<1>5. CreatedInv /\ HalfInv
  BY DEF Init, CreatedInv, HalfInv
<1> QED  BY <1>2, <1>4, <1>5 DEF ProblemInv

(* What is known of the request that takes a step, by its stage. *)
LEMMA RequestFacts ==
    ASSUME ProblemInv, NEW r \in Requests
    PROVE  /\ req \in [Requests -> Request] /\ req[r] \in Request
           /\ lastId \in Nat /\ req[r].id \in Nat /\ req[r].id <= lastId
           /\ req[r].id \in {0} \cup Ids /\ req[r].id \in 0..MaxProblems
           /\ Creating(r) \/ req[r].pc = "delete" => req[r].id \in Ids
           /\ Creating(r) => /\ req[r].archive \in Archives
                             /\ ValidateZipContent(req[r].archive) /\ req[r].archive # NoObject
                             /\ req[r].id \notin created
                             /\ \A g \in Requests \ {r} : Creating(g) => req[g].id # req[r].id
<1>1. req \in [Requests -> Request] /\ req[r] \in Request
  BY DEF ProblemInv, TypeOK, Request
<1>2. lastId \in Nat /\ req[r].id \in 0..MaxProblems
  BY <1>1, ProblemAssumption DEF ProblemInv, TypeOK, Request
<1>3. req[r].id \in {0} \cup Ids /\ req[r].id \in Nat
  BY <1>2, ProblemAssumption DEF Ids
<1>4. RequestOK(r)
  BY DEF ProblemInv, RequestInv
<1>5. Creating(r) \/ req[r].pc = "delete" => req[r].id \in Ids
  BY <1>3, <1>4 DEF RequestOK, Creating
<1>6. Creating(r) => \A g \in Requests \ {r} : Creating(g) => req[g].id # req[r].id
  BY DEF ProblemInv, RequestInv
<1> QED  BY <1>1, <1>2, <1>3, <1>4, <1>5, <1>6, ValidNotEmpty DEF RequestOK

\* The types, without what TypeOK says of ids that were not drawn.
Typed ==
    /\ req \in [Requests -> Request]
    /\ row \in [Ids -> {"none", "no_path", "path"}]
    /\ object \in [Ids -> Archives \cup {NoObject}]
    /\ lastId \in 0..MaxProblems
    /\ sub \in [Submissions -> Submission]
    /\ created \subseteq Ids /\ deleted \subseteq Ids /\ abandoned \subseteq 0..MaxProblems
    /\ budget \in Nat

\* A step of r is about problem i (or about none, when i is no id).
Confined(r, i) ==
    /\ lastId <= lastId'
    /\ \A g \in Requests \ {r} : req'[g] = req[g]
    /\ \A n \in Ids \ {i} : row'[n] = row[n] /\ object'[n] = object[n]
    /\ created' \subseteq created \cup {i}
    /\ deleted \subseteq deleted' /\ abandoned \subseteq abandoned'
    /\ Creating(r) => req[r].id = i
    /\ i \in Ids => i <= lastId'

\* No other request creates problem i, or the step deletes it.
NotOthers(r, i) ==
    \A g \in Requests \ {r} : Creating(g) /\ req[g].id = i =>
        i \in deleted' /\ object'[i] = object[i] /\ i \notin created' /\ ~Creating(r)'

\* What the step makes of problem i.
ProblemOK(i) ==
    /\ i \in created => object[i] # NoObject /\ (i \notin deleted => row[i] = "path")
    /\ i \in Ids \ abandoned /\ row[i] # "none" /\ (\A g \in Requests : Creating(g) => req[g].id # i)
          => object[i] # NoObject

(* A step that is about one problem keeps the invariant of all, when it    *)
(* leaves its own request and that problem in order.                       *)
LEMMA ConfinedKeeps ==
    ASSUME ProblemInv, NEW r \in Requests, NEW i,
           Typed', Confined(r, i), NotOthers(r, i), RequestOK(r)', ProblemOK(i)',
           Creating(r)' => req'[r].id = i
    PROVE  ProblemInv'
<1>1. /\ lastId \in Nat /\ lastId' \in Nat
      /\ \A n \in Ids : n \in Nat
      /\ \A g \in Requests : /\ req[g].id \in Nat /\ RequestOK(g)
                             /\ Creating(g) => req[g].id \in Ids
  BY ProblemAssumption, RequestFacts DEF Typed, Ids, ProblemInv, RequestInv
<1>2. TypeOK'
  <2>1. \A n \in Ids : n > lastId' => row'[n] = "none" /\ object'[n] = NoObject
    BY <1>1 DEF Confined, ProblemInv, TypeOK
  <2> QED  BY <2>1 DEF Typed, TypeOK, Request, Submission
<1>3. RequestInv'
  <2>1. ASSUME NEW g \in Requests, g # r  PROVE RequestOK(g)'
    <3>1. req'[g] = req[g] /\ RequestOK(g) /\ req[g].id <= lastId'
      BY <1>1, <2>1 DEF Confined, RequestOK
    <3>2. CASE Creating(g)
      <4>1. object'[req[g].id] = object[req[g].id] /\ req[g].id \notin created'
        BY <1>1, <2>1, <3>2 DEF Confined, NotOthers, RequestOK
      <4>2. row'[req[g].id] = row[req[g].id] \/ req[g].id \in deleted'
        BY <1>1, <2>1, <3>2 DEF Confined, NotOthers
      <4> QED  BY <3>1, <4>1, <4>2 DEF RequestOK, Creating, Confined
    <3>3. CASE ~Creating(g)
      BY <3>1, <3>3 DEF RequestOK, Creating
    <3> QED  BY <3>2, <3>3
  <2>2. ASSUME NEW g \in Requests, NEW q \in Requests, g # q, Creating(g)', Creating(q)'
        PROVE  req'[g].id # req'[q].id
    BY <2>2 DEF Confined, NotOthers, Creating, ProblemInv, RequestInv
  <2> QED  BY <2>1, <2>2 DEF RequestInv
<1>4. CreatedInv'
  BY <1>1 DEF Confined, ProblemOK, CreatedInv, ProblemInv, Typed
<1>5. HalfInv'
  <2> SUFFICES ASSUME NEW n \in Ids, n \notin abandoned', row'[n] # "none",
                      \A g \in Requests : Creating(g)' => req'[g].id # n
               PROVE  object'[n] # NoObject
    BY DEF HalfInv
  <2>1. CASE n = i
    BY <2>1 DEF ProblemOK
  <2>2. CASE n # i
    <3>1. \A g \in Requests : Creating(g) => req[g].id # n
      BY <2>2 DEF Confined, Creating
    <3> QED  BY <2>2, <3>1 DEF Confined, ProblemInv, HalfInv
  <2> QED  BY <2>1, <2>2
<1> QED  BY <1>2, <1>3, <1>4, <1>5 DEF ProblemInv

---------------------------------------------------------------------------
(* One lemma per action: what it changes, and that this is in order. *)

LEMMA UploadKeeps ==
    ASSUME ProblemInv, NEW r \in Requests, UploadFile(r)
    PROVE  ProblemInv'
<1>0. PICK i, a : i = req[r].id /\ a = req[r].archive
  OBVIOUS
<1>1. /\ i \in Ids /\ i # 0 /\ i <= lastId /\ i \notin created /\ i \in 0..MaxProblems
      /\ a \in Archives /\ ValidateZipContent(a) /\ a # NoObject
      /\ row[i] # "none" \/ i \in deleted
      /\ Creating(r) /\ lastId \in Nat
      /\ \A g \in Requests \ {r} : Creating(g) => req[g].id # i
  BY <1>0, RequestFacts DEF UploadFile, Creating, ProblemInv, RequestInv, RequestOK
<1>2. /\ UNCHANGED <<row, lastId, sub, created, deleted>>
      /\ budget' \in Nat
      /\ \/ /\ Becomes(r, "path", i, a, req[r].live)
            /\ object' = [object EXCEPT ![i] = a] /\ abandoned' = abandoned
         \/ /\ Becomes(r, "undo_row", i, a, req[r].live)
            /\ object' \in {object, [object EXCEPT ![i] = a]} /\ abandoned' = abandoned
         \/ /\ Becomes(r, "idle", 0, {}, TRUE)
            /\ object' = object /\ abandoned' = abandoned \cup {i}
  BY <1>0, RequestFacts, RequestAfter, BudgetAfter DEF UploadFile, Becomes, ProblemInv, TypeOK
<1>3. /\ object' \in [Ids -> Archives \cup {NoObject}]
      /\ \A n \in Ids \ {i} : object'[n] = object[n]
      /\ object'[i] \in {object[i], a}
      /\ req' \in [Requests -> Request]
      /\ \A g \in Requests \ {r} : req'[g] = req[g]
      /\ \/ /\ req'[r].pc = "path" /\ req'[r].id = i /\ req'[r].archive = a
            /\ object'[i] # NoObject /\ abandoned' = abandoned
         \/ req'[r].pc = "undo_row" /\ req'[r].id = i /\ req'[r].archive = a /\ abandoned' = abandoned
         \/ req'[r].pc = "idle" /\ req'[r].id = 0 /\ abandoned' = abandoned \cup {i}
  BY <1>0, <1>1, <1>2 DEF Becomes, ProblemInv, TypeOK
<1>4. Typed'
  BY <1>1, <1>2, <1>3 DEF Typed, ProblemInv, TypeOK, Submission
<1>5. Confined(r, i) /\ NotOthers(r, i)
  BY <1>0, <1>1, <1>2, <1>3 DEF Confined, NotOthers, ProblemInv, TypeOK
<1>6. RequestOK(r)' /\ (Creating(r)' => req'[r].id = i)
  BY <1>1, <1>2, <1>3 DEF RequestOK, Creating
<1>7. ProblemOK(i)'
  BY <1>1, <1>2, <1>3 DEF ProblemOK, Creating, ProblemInv
<1> QED  BY <1>4, <1>5, <1>6, <1>7, ConfinedKeeps

LEMMA PathKeeps ==
    ASSUME ProblemInv, NEW r \in Requests, UpdateTestcasePath(r)
    PROVE  ProblemInv'
<1>0. PICK i : i = req[r].id
  OBVIOUS
<1>1. /\ i \in Ids /\ i # 0 /\ i <= lastId /\ i \notin created
      /\ req[r].archive \in Archives /\ ValidateZipContent(req[r].archive)
      /\ row[i] # "none" \/ i \in deleted
      /\ object[i] # NoObject
      /\ Creating(r) /\ lastId \in Nat
      /\ \A g \in Requests \ {r} : Creating(g) => req[g].id # i
  BY <1>0, RequestFacts DEF UpdateTestcasePath, Creating, ProblemInv, RequestInv, RequestOK
<1>2. /\ UNCHANGED <<object, lastId, sub, deleted, abandoned>>
      /\ budget' \in Nat
      /\ \/ /\ Becomes(r, "idle", 0, {}, TRUE) /\ created' = created \cup {i}
            /\ row' = IF row[i] = "none" THEN row ELSE [row EXCEPT ![i] = "path"]
         \/ /\ Becomes(r, "undo_object", i, req[r].archive, req[r].live) /\ created' = created
            /\ row' \in {row, IF row[i] = "none" THEN row ELSE [row EXCEPT ![i] = "path"]}
  BY <1>0, RequestFacts, RequestAfter, BudgetAfter DEF UpdateTestcasePath, ProblemInv, TypeOK
<1>3. /\ row' \in [Ids -> {"none", "no_path", "path"}]
      /\ \A n \in Ids \ {i} : row'[n] = row[n]
      /\ req' \in [Requests -> Request]
      /\ \A g \in Requests \ {r} : req'[g] = req[g]
      /\ \/ /\ req'[r].pc = "idle" /\ req'[r].id = 0 /\ created' = created \cup {i}
            /\ row'[i] = "path" \/ i \in deleted
         \/ /\ req'[r].pc = "undo_object" /\ req'[r].id = i /\ req'[r].archive = req[r].archive
            /\ created' = created
  BY <1>0, <1>1, <1>2 DEF Becomes, ProblemInv, TypeOK
<1>4. Typed'
  BY <1>1, <1>2, <1>3 DEF Typed, ProblemInv, TypeOK, Submission
<1>5. Confined(r, i) /\ NotOthers(r, i)
  BY <1>0, <1>1, <1>2, <1>3 DEF Confined, NotOthers, ProblemInv, TypeOK
<1>6. RequestOK(r)' /\ (Creating(r)' => req'[r].id = i)
  BY <1>1, <1>2, <1>3 DEF RequestOK, Creating
<1>7. ProblemOK(i)'
  BY <1>1, <1>2, <1>3 DEF ProblemOK
<1> QED  BY <1>4, <1>5, <1>6, <1>7, ConfinedKeeps

LEMMA RemoveKeeps ==
    ASSUME ProblemInv, NEW r \in Requests, RemoveFile(r)
    PROVE  ProblemInv'
<1>0. PICK i : i = req[r].id
  OBVIOUS
<1>1. /\ i \in Ids /\ i # 0 /\ i <= lastId /\ i \notin created
      /\ req[r].archive \in Archives /\ ValidateZipContent(req[r].archive)
      /\ Creating(r) /\ lastId \in Nat
      /\ \A g \in Requests \ {r} : Creating(g) => req[g].id # i
  BY <1>0, RequestFacts DEF RemoveFile, Creating, ProblemInv, RequestInv, RequestOK
<1>2. /\ UNCHANGED <<row, lastId, sub, created, deleted, abandoned>>
      /\ budget' \in Nat
      /\ Becomes(r, "undo_row", i, req[r].archive, req[r].live)
      /\ object' \in {object, [object EXCEPT ![i] = NoObject]}
  BY <1>0, RequestFacts, RequestAfter, BudgetAfter DEF RemoveFile, ProblemInv, TypeOK
<1>3. /\ object' \in [Ids -> Archives \cup {NoObject}]
      /\ \A n \in Ids \ {i} : object'[n] = object[n]
      /\ object'[i] \in {object[i], NoObject}
      /\ req' \in [Requests -> Request]
      /\ \A g \in Requests \ {r} : req'[g] = req[g]
      /\ req'[r].pc = "undo_row" /\ req'[r].id = i /\ req'[r].archive = req[r].archive
  BY <1>0, <1>1, <1>2 DEF Becomes, ProblemInv, TypeOK
<1>4. Typed'
  BY <1>1, <1>2, <1>3 DEF Typed, ProblemInv, TypeOK, Submission
<1>5. Confined(r, i) /\ NotOthers(r, i)
  BY <1>0, <1>1, <1>2, <1>3 DEF Confined, NotOthers, ProblemInv, TypeOK
<1>6. RequestOK(r)' /\ (Creating(r)' => req'[r].id = i)
  BY <1>1, <1>2, <1>3 DEF RequestOK, Creating
<1>7. ProblemOK(i)'
  BY <1>1, <1>2, <1>3 DEF ProblemOK, Creating, ProblemInv
<1> QED  BY <1>4, <1>5, <1>6, <1>7, ConfinedKeeps

LEMMA UndoKeeps ==
    ASSUME ProblemInv, NEW r \in Requests, UndoRow(r)
    PROVE  ProblemInv'
<1>0. PICK i : i = req[r].id
  OBVIOUS
<1>1. /\ i \in Ids /\ i # 0 /\ i <= lastId /\ i \notin created /\ i \in 0..MaxProblems
      /\ Creating(r) /\ lastId \in Nat
      /\ \A g \in Requests \ {r} : Creating(g) => req[g].id # i
  BY <1>0, RequestFacts DEF UndoRow, Creating, ProblemInv, RequestInv, RequestOK
<1>2. /\ UNCHANGED <<object, lastId, created, deleted>>
      /\ budget' \in Nat /\ sub' \in [Submissions -> Submission]
      /\ Becomes(r, "idle", 0, {}, TRUE)
      /\ row' \in {row, [row EXCEPT ![i] = "none"]}
      /\ abandoned' = IF row' = row THEN abandoned \cup {i} ELSE abandoned
  <2>1. sub' \in [Submissions -> Submission]
    BY SetNullAfter DEF UndoRow, ProblemInv, TypeOK, Submission
  <2> QED
    BY <1>0, <2>1, RequestFacts, RequestAfter, BudgetAfter DEF UndoRow, ProblemInv, TypeOK
<1>3. /\ row' \in [Ids -> {"none", "no_path", "path"}]
      /\ \A n \in Ids \ {i} : row'[n] = row[n]
      /\ req' \in [Requests -> Request]
      /\ \A g \in Requests \ {r} : req'[g] = req[g]
      /\ req'[r].pc = "idle" /\ req'[r].id = 0
      /\ \/ row'[i] = "none" /\ abandoned' \in {abandoned, abandoned \cup {i}}
         \/ abandoned' = abandoned \cup {i}
  BY <1>0, <1>1, <1>2 DEF Becomes, ProblemInv, TypeOK
<1>4. Typed'
  BY <1>1, <1>2, <1>3 DEF Typed, ProblemInv, TypeOK, Submission
<1>5. Confined(r, i) /\ NotOthers(r, i)
  BY <1>0, <1>1, <1>2, <1>3 DEF Confined, NotOthers, ProblemInv, TypeOK
<1>6. RequestOK(r)' /\ (Creating(r)' => req'[r].id = i)
  BY <1>1, <1>2, <1>3 DEF RequestOK, Creating
<1>7. ProblemOK(i)'
  BY <1>1, <1>2, <1>3 DEF ProblemOK, Creating, ProblemInv
<1> QED  BY <1>4, <1>5, <1>6, <1>7, ConfinedKeeps

LEMMA InsertKeeps ==
    ASSUME ProblemInv, NEW r \in Requests, CreateProblem(r)
    PROVE  ProblemInv'
<1>0. PICK i : i = lastId + 1
  OBVIOUS
<1>1. /\ i \in Ids /\ i # 0 /\ i \notin created /\ i \in 0..MaxProblems /\ i \in Nat
      /\ row[i] = "none" /\ object[i] = NoObject
      /\ req[r].archive \in Archives /\ ValidateZipContent(req[r].archive)
      /\ ~Creating(r) /\ lastId \in Nat /\ lastId < i
      /\ \A g \in Requests : req[g].id # i
  <2>1. i \in Ids /\ lastId \in Nat
    BY <1>0, RequestFacts DEF CreateProblem
  <2>2. i # 0 /\ i \in 0..MaxProblems /\ i \in Nat /\ lastId < i
    BY <1>0, <2>1, ProblemAssumption DEF Ids
  <2>3. \A g \in Requests : req[g].id \in Nat /\ req[g].id <= lastId
    BY RequestFacts
  <2>4. i \notin created
    BY <2>1, <2>2 DEF ProblemInv, CreatedInv
  <2>5. row[i] = "none" /\ object[i] = NoObject
    BY <2>1, <2>2 DEF ProblemInv, TypeOK
  <2>6. ~Creating(r) /\ req[r].archive \in Archives /\ ValidateZipContent(req[r].archive)
    BY DEF CreateProblem, Creating, ProblemInv, RequestInv, RequestOK
  <2> QED  BY <2>1, <2>2, <2>3, <2>4, <2>5, <2>6
<1>2. /\ UNCHANGED <<object, sub, created, deleted>>
      /\ budget' \in Nat /\ lastId' = i
      /\ \/ /\ Becomes(r, "upload", i, req[r].archive, req[r].live)
            /\ row' = [row EXCEPT ![i] = "no_path"] /\ abandoned' = abandoned
         \/ /\ Becomes(r, "idle", 0, {}, TRUE)
            /\ row' \in {row, [row EXCEPT ![i] = "no_path"]} /\ abandoned' = abandoned \cup {i}
  <2>1. /\ UNCHANGED <<object, sub, created, deleted>> /\ lastId' = i
        /\ \/ /\ Works(r) /\ row' = [row EXCEPT ![i] = "no_path"]
              /\ req' = [req EXCEPT ![r].pc = "upload", ![r].id = i]
           \/ Fails(r, "insert") /\ Answered(r) /\ row' = row
           \/ Fault("insert_answer") /\ Answered(r) /\ row' = [row EXCEPT ![i] = "no_path"]
        /\ abandoned' = IF req'[r].pc = "idle" THEN abandoned \cup {i} ELSE abandoned
    BY <1>0 DEF CreateProblem
  <2>2. /\ Answered(r) => Becomes(r, "idle", 0, {}, TRUE)
        /\ req' = [req EXCEPT ![r].pc = "upload", ![r].id = i]
              => Becomes(r, "upload", i, req[r].archive, req[r].live)
    BY <1>1, RequestFacts, RequestAfter
  <2>3. budget' \in Nat
    BY <2>1, BudgetAfter DEF ProblemInv, TypeOK
  <2> QED  BY <2>1, <2>2, <2>3 DEF Becomes
<1>3. /\ row' \in [Ids -> {"none", "no_path", "path"}]
      /\ \A n \in Ids \ {i} : row'[n] = row[n]
      /\ req' \in [Requests -> Request]
      /\ \A g \in Requests \ {r} : req'[g] = req[g]
      /\ \/ /\ req'[r].pc = "upload" /\ req'[r].id = i /\ req'[r].archive = req[r].archive
            /\ row'[i] = "no_path" /\ abandoned' = abandoned
         \/ req'[r].pc = "idle" /\ req'[r].id = 0 /\ abandoned' = abandoned \cup {i}
  BY <1>1, <1>2 DEF Becomes, ProblemInv, TypeOK
<1>4. Typed'
  BY <1>1, <1>2, <1>3 DEF Typed, ProblemInv, TypeOK, Submission
<1>5. Confined(r, i) /\ NotOthers(r, i)
  BY <1>0, <1>1, <1>2, <1>3 DEF Confined, NotOthers, ProblemInv, TypeOK
<1>6. RequestOK(r)' /\ (Creating(r)' => req'[r].id = i)
  BY <1>1, <1>2, <1>3 DEF RequestOK, Creating
<1>7. ProblemOK(i)'
  BY <1>1, <1>2, <1>3 DEF ProblemOK, Creating, ProblemInv
<1> QED  BY <1>4, <1>5, <1>6, <1>7, ConfinedKeeps

LEMMA DeleteKeeps ==
    ASSUME ProblemInv, NEW r \in Requests, DeleteProblem(r)
    PROVE  ProblemInv'
<1>0. PICK i : i = req[r].id
  OBVIOUS
<1>1. /\ i \in Ids /\ i # 0 /\ i <= lastId /\ ~Creating(r) /\ lastId \in Nat
      /\ \A g \in Requests \ {r} : Creating(g) => req[g].id \notin created
      /\ i \in created => object[i] # NoObject
      /\ i \notin abandoned /\ row[i] # "none" /\ (\A g \in Requests : Creating(g) => req[g].id # i)
            => object[i] # NoObject
  BY <1>0, RequestFacts DEF DeleteProblem, Creating, ProblemInv, RequestInv, RequestOK, CreatedInv, HalfInv
<1>2. /\ UNCHANGED <<object, lastId, created, abandoned>>
      /\ budget' \in Nat /\ deleted' = deleted \cup {i} /\ sub' \in [Submissions -> Submission]
      /\ Becomes(r, "idle", 0, {}, TRUE)
      /\ row' \in {row, [row EXCEPT ![i] = "none"]}
  <2>1. sub' \in [Submissions -> Submission]
    BY SetNullAfter DEF DeleteProblem, ProblemInv, TypeOK, Submission
  <2> QED
    BY <1>0, <2>1, RequestFacts, RequestAfter, BudgetAfter DEF DeleteProblem, ProblemInv, TypeOK
<1>3. /\ row' \in [Ids -> {"none", "no_path", "path"}]
      /\ \A n \in Ids \ {i} : row'[n] = row[n]
      /\ req' \in [Requests -> Request]
      /\ \A g \in Requests \ {r} : req'[g] = req[g]
      /\ req'[r].pc = "idle" /\ req'[r].id = 0
      /\ row'[i] \in {row[i], "none"}
  BY <1>1, <1>2 DEF Becomes, ProblemInv, TypeOK
<1>4. Typed'
  BY <1>1, <1>2, <1>3 DEF Typed, ProblemInv, TypeOK, Submission
<1>5. Confined(r, i) /\ NotOthers(r, i)
  BY <1>0, <1>1, <1>2, <1>3 DEF Confined, NotOthers, Creating, ProblemInv, TypeOK
<1>6. RequestOK(r)' /\ (Creating(r)' => req'[r].id = i)
  BY <1>1, <1>2, <1>3 DEF RequestOK, Creating
<1>7. ProblemOK(i)'
  BY <1>1, <1>2, <1>3 DEF ProblemOK, Creating, ProblemInv
<1> QED  BY <1>4, <1>5, <1>6, <1>7, ConfinedKeeps

LEMMA AcceptKeeps ==
    ASSUME ProblemInv, NEW r \in Requests, NEW a \in Archives, HandleCreateProblem(r, a)
    PROVE  ProblemInv'
<1>0. PICK i : i = 0
  OBVIOUS
<1>1. /\ i \notin Ids /\ ~Creating(r) /\ lastId \in Nat /\ req[r].id = 0 /\ RequestOK(r)
      /\ \A g \in Requests : Creating(g) => req[g].id # i
  BY <1>0, RequestFacts DEF HandleCreateProblem, Creating, ProblemInv, RequestInv, RequestOK, Ids
<1>2. /\ UNCHANGED <<row, object, lastId, sub, created, deleted, abandoned>>
      /\ budget' \in Nat
      /\ \/ req' = req
         \/ ValidateZipContent(a) /\ Becomes(r, "insert", 0, a, req[r].live)
  BY <1>1, RequestFacts, RequestAfter, BudgetAfter DEF HandleCreateProblem, ProblemInv, TypeOK
<1>3. /\ req' \in [Requests -> Request]
      /\ \A g \in Requests \ {r} : req'[g] = req[g]
      /\ \/ req' = req
         \/ req'[r].pc = "insert" /\ req'[r].id = 0 /\ req'[r].archive = a /\ ValidateZipContent(a)
  BY <1>1, <1>2, RequestFacts DEF Becomes
<1>4. Typed'
  BY <1>1, <1>2, <1>3 DEF Typed, ProblemInv, TypeOK, Submission
<1>5. Confined(r, i) /\ NotOthers(r, i)
  BY <1>0, <1>1, <1>2, <1>3 DEF Confined, NotOthers, ProblemInv, TypeOK
<1>6. RequestOK(r)' /\ (Creating(r)' => req'[r].id = i)
  BY <1>1, <1>2, <1>3 DEF RequestOK, Creating
<1>7. ProblemOK(i)'
  BY <1>1, <1>2, <1>3 DEF ProblemOK, ProblemInv, TypeOK
<1> QED  BY <1>4, <1>5, <1>6, <1>7, ConfinedKeeps

LEMMA AskDeleteKeeps ==
    ASSUME ProblemInv, NEW r \in Requests, NEW k \in Ids, HandleDeleteProblem(r, k)
    PROVE  ProblemInv'
<1>0. PICK i : i = 0
  OBVIOUS
<1>1. /\ i \notin Ids /\ ~Creating(r) /\ lastId \in Nat /\ k # 0 /\ k <= lastId
      /\ \A g \in Requests : Creating(g) => req[g].id # i
  <2>1. lastId \in Nat /\ k \in Nat /\ k # 0 /\ ~Creating(r) /\ i \notin Ids
    BY <1>0, RequestFacts, ProblemAssumption DEF Ids, HandleDeleteProblem, Creating
  <2>2. ~(k > lastId)
    BY DEF HandleDeleteProblem, ProblemInv, TypeOK
  <2> QED  BY <2>1, <2>2, RequestFacts
<1>2. /\ UNCHANGED <<row, object, lastId, sub, created, deleted, abandoned>>
      /\ budget' \in Nat
      /\ Becomes(r, "delete", k, req[r].archive, req[r].live)
  BY <1>1, RequestFacts, RequestAfter, BudgetAfter DEF HandleDeleteProblem, ProblemInv, TypeOK
<1>3. /\ req' \in [Requests -> Request]
      /\ \A g \in Requests \ {r} : req'[g] = req[g]
      /\ req'[r].pc = "delete" /\ req'[r].id = k
  BY <1>1, <1>2 DEF Becomes
<1>4. Typed'
  BY <1>1, <1>2, <1>3 DEF Typed, ProblemInv, TypeOK, Submission
<1>5. Confined(r, i) /\ NotOthers(r, i)
  BY <1>0, <1>1, <1>2, <1>3 DEF Confined, NotOthers, ProblemInv, TypeOK
<1>6. RequestOK(r)' /\ (Creating(r)' => req'[r].id = i)
  BY <1>1, <1>2, <1>3 DEF RequestOK, Creating
<1>7. ProblemOK(i)'
  BY <1>1, <1>2, <1>3 DEF ProblemOK, ProblemInv, TypeOK
<1> QED  BY <1>4, <1>5, <1>6, <1>7, ConfinedKeeps

LEMMA LeaveKeeps ==
    ASSUME ProblemInv, NEW r \in Requests, Disconnect(r) \/ Crash(r)
    PROVE  ProblemInv'
<1>0. PICK i : i = IF Creating(r) THEN req[r].id ELSE 0
  OBVIOUS
<1>1. /\ lastId \in Nat /\ i <= lastId /\ RequestOK(r) /\ req[r].id \in 0..MaxProblems
      /\ \A g \in Requests \ {r} : Creating(g) => req[g].id # i
      /\ i \notin created /\ (~Creating(r) => i \notin Ids)
      /\ Creating(r) => req[r].id = i /\ req[r].pc # "delete"
  <2>1. 0 \notin Ids
    BY DEF Ids
  <2>2. CASE Creating(r)
    BY <1>0, <2>2, RequestFacts DEF Creating, ProblemInv, RequestInv
  <2>3. CASE ~Creating(r)
    BY <1>0, <2>1, <2>3, RequestFacts DEF ProblemInv, RequestInv, TypeOK
  <2> QED  BY <2>2, <2>3
<1>2. /\ UNCHANGED <<row, object, lastId, sub, created, deleted>>
      /\ budget' \in Nat
      /\ \/ Becomes(r, req[r].pc, req[r].id, req[r].archive, FALSE)
         \/ Becomes(r, "idle", 0, {}, TRUE)
      /\ abandoned' = IF req[r].pc = "delete" THEN abandoned ELSE abandoned \cup {req[r].id}
  BY RequestFacts, RequestAfter, BudgetAfter DEF Disconnect, Crash, ProblemInv, TypeOK
<1>3. /\ req' \in [Requests -> Request]
      /\ \A g \in Requests \ {r} : req'[g] = req[g]
      /\ \/ req'[r].pc = req[r].pc /\ req'[r].id = req[r].id /\ req'[r].archive = req[r].archive
         \/ req'[r].pc = "idle" /\ req'[r].id = 0
      /\ abandoned \subseteq abandoned' /\ abandoned' \subseteq abandoned \cup {req[r].id}
      /\ Creating(r) => i \in abandoned'
  BY <1>1, <1>2 DEF Becomes
<1>4. Typed'
  BY <1>1, <1>2, <1>3 DEF Typed, ProblemInv, TypeOK, Submission
<1>5. Confined(r, i) /\ NotOthers(r, i)
  BY <1>1, <1>2, <1>3 DEF Confined, NotOthers, ProblemInv, TypeOK
<1>6. RequestOK(r)' /\ (Creating(r)' => req'[r].id = i)
  BY <1>1, <1>2, <1>3 DEF RequestOK, Creating
<1>7. ProblemOK(i)'
  <2>1. i \in Ids => i \in abandoned'
    BY <1>1, <1>3
  <2> QED  BY <1>1, <1>2, <2>1 DEF ProblemOK, ProblemInv
<1> QED  BY <1>4, <1>5, <1>6, <1>7, ConfinedKeeps

\* The steps of a submission.
SubmissionStep(s) ==
    \/ InsertSubmission(s) \/ \E i \in Ids : GetProblem(s, i)
    \/ Dispatch(s) \/ FetchRepairCandidate(s) \/ EnqueueRepairedJob(s)
    \/ TakePayload(s) \/ Prepare(s)

\* The submission s becomes v, the others stay.
Turns(s, v) == v \in Submission /\ sub' = [sub EXCEPT ![s] = v]

(* What each of them makes of its submission. *)
LEMMA SubmissionAfter ==
    ASSUME ProblemInv, NEW s \in Submissions
    PROVE  /\ \A i \in Ids : GetProblem(s, i) =>
                 Turns(s, [sub[s] EXCEPT !.pc = "checked", !.problem = i])
           /\ InsertSubmission(s) =>
                 \/ Turns(s, [sub[s] EXCEPT !.pc = "refused"])
                 \/ Turns(s, [sub[s] EXCEPT !.pc = "stored", !.column = sub[s].problem, !.due = TRUE,
                                            !.whole = sub[s].problem \in created])
           /\ Dispatch(s) => \E due \in BOOLEAN :
                 Turns(s, [sub[s] EXCEPT !.payload = {sub[s].problem}, !.due = due])
           /\ FetchRepairCandidate(s) => Turns(s, [sub[s] EXCEPT !.scan = {sub[s].column}])
           /\ EnqueueRepairedJob(s) =>
                 Turns(s, [sub[s] EXCEPT !.payload = sub[s].scan, !.scan = {}, !.repaired = TRUE])
           /\ TakePayload(s) => \E i \in sub[s].payload :
                 Turns(s, [sub[s] EXCEPT !.pc = "taken", !.task = i])
           /\ Prepare(s) =>
                 Turns(s, [sub[s] EXCEPT !.pc = "judged",
                             !.cases = IF sub[s].task = 0 THEN NoObject ELSE object[sub[s].task]])
<1>1. /\ sub \in [Submissions -> Submission] /\ sub[s] \in Submission
      /\ Ids \subseteq 0..MaxProblems
  BY ProblemAssumption DEF ProblemInv, TypeOK, Submission, Ids
<1>2. ASSUME NEW i \in Ids, GetProblem(s, i)
      PROVE  Turns(s, [sub[s] EXCEPT !.pc = "checked", !.problem = i])
  BY <1>1, <1>2 DEF GetProblem, Turns, Submission
<1>3. ASSUME InsertSubmission(s)
      PROVE  \/ Turns(s, [sub[s] EXCEPT !.pc = "refused"])
             \/ Turns(s, [sub[s] EXCEPT !.pc = "stored", !.column = sub[s].problem, !.due = TRUE,
                                        !.whole = sub[s].problem \in created])
  <2> DEFINE stored == [sub[s] EXCEPT !.pc = "stored", !.column = sub[s].problem, !.due = TRUE,
                                     !.whole = sub[s].problem \in created]
             refused == [sub[s] EXCEPT !.pc = "refused"]
  <2>1. stored \in Submission /\ refused \in Submission
    <3>1. (sub[s].problem \in created) \in BOOLEAN
      OBVIOUS
    <3>2. ASSUME NEW w \in BOOLEAN
          PROVE  [sub[s] EXCEPT !.pc = "stored", !.column = sub[s].problem, !.due = TRUE, !.whole = w] \in Submission
      BY <1>1 DEF Submission
    <3>3. refused \in Submission
      BY <1>1 DEF Submission
    <3> QED  BY <3>1, <3>2, <3>3, Zenon
  <2>2. sub' = [sub EXCEPT ![s] = IF row[sub[s].problem] = "none" THEN refused ELSE stored]
    BY <1>3, Zenon DEF InsertSubmission
  <2> HIDE DEF stored, refused
  <2>3. Turns(s, refused) \/ Turns(s, stored)
    BY <2>1, <2>2 DEF Turns
  <2> QED  BY <2>3 DEF stored, refused
<1>4. ASSUME Dispatch(s)
      PROVE  \E due \in BOOLEAN : Turns(s, [sub[s] EXCEPT !.payload = {sub[s].problem}, !.due = due])
  BY <1>1, <1>4 DEF Dispatch, Turns, Submission
<1>5. ASSUME FetchRepairCandidate(s)  PROVE Turns(s, [sub[s] EXCEPT !.scan = {sub[s].column}])
  BY <1>1, <1>5 DEF FetchRepairCandidate, Turns, Submission
<1>6. ASSUME EnqueueRepairedJob(s)
      PROVE  Turns(s, [sub[s] EXCEPT !.payload = sub[s].scan, !.scan = {}, !.repaired = TRUE])
  BY <1>1, <1>6 DEF EnqueueRepairedJob, Turns, Submission
<1>7. ASSUME TakePayload(s)
      PROVE  \E i \in sub[s].payload : Turns(s, [sub[s] EXCEPT !.pc = "taken", !.task = i])
  BY <1>1, <1>7 DEF TakePayload, Turns, Submission
<1>8. ASSUME Prepare(s)
      PROVE  Turns(s, [sub[s] EXCEPT !.pc = "judged",
                          !.cases = IF sub[s].task = 0 THEN NoObject ELSE object[sub[s].task]])
  <2>1. sub[s].task # 0 => sub[s].task \in Ids
    BY <1>1, ProblemAssumption DEF Submission, Ids
  <2>2. (IF sub[s].task = 0 THEN NoObject ELSE object[sub[s].task]) \in Archives \cup {NoObject}
    BY <2>1 DEF ProblemInv, TypeOK
  <2> QED  BY <1>1, <1>8, <2>2 DEF Prepare, Turns, Submission
<1> QED  BY <1>2, <1>3, <1>4, <1>5, <1>6, <1>7, <1>8

LEMMA StepTurns ==
    ASSUME ProblemInv, NEW s \in Submissions, SubmissionStep(s)
    PROVE  \E v : Turns(s, v)
<1>1. CASE \E i \in Ids : GetProblem(s, i)
  BY <1>1, SubmissionAfter, Zenon
<1>2. CASE InsertSubmission(s)
  BY <1>2, SubmissionAfter, Zenon
<1>3. CASE Dispatch(s)
  BY <1>3, SubmissionAfter, Zenon
<1>4. CASE FetchRepairCandidate(s) \/ EnqueueRepairedJob(s) \/ Prepare(s)
  BY <1>4, SubmissionAfter, Zenon
<1>5. CASE TakePayload(s)
  BY <1>5, SubmissionAfter, Zenon
<1> QED  BY <1>1, <1>2, <1>3, <1>4, <1>5 DEF SubmissionStep

LEMMA SubmissionKeeps ==
    ASSUME ProblemInv, NEW s \in Submissions, SubmissionStep(s)
    PROVE  ProblemInv' /\ UNCHANGED <<req, row, object, lastId, created, deleted, abandoned>>
<1>1. UNCHANGED <<req, row, object, lastId, created, deleted, abandoned>> /\ budget' \in Nat
  BY BudgetAfter DEF SubmissionStep, InsertSubmission, GetProblem, Dispatch, FetchRepairCandidate,
     EnqueueRepairedJob, TakePayload, Prepare, Unchanged, ProblemInv, TypeOK
<1>2. \E v : Turns(s, v)
  BY StepTurns
<1>3. sub' \in [Submissions -> Submission]
  BY <1>2 DEF Turns, ProblemInv, TypeOK, Submission
<1> QED
  BY <1>1, <1>3 DEF ProblemInv, TypeOK, Submission, RequestInv, RequestOK, Creating, CreatedInv, HalfInv

LEMMA ProblemStep == ProblemInv /\ [Next]_vars => ProblemInv'
<1> SUFFICES ASSUME ProblemInv, [Next]_vars PROVE ProblemInv'
  OBVIOUS
<1>1. ASSUME NEW r \in Requests, NEW a \in Archives, HandleCreateProblem(r, a)  PROVE ProblemInv'
  BY <1>1, AcceptKeeps
<1>2. ASSUME NEW r \in Requests, CreateProblem(r)  PROVE ProblemInv'
  BY <1>2, InsertKeeps
<1>3. ASSUME NEW r \in Requests, UploadFile(r)  PROVE ProblemInv'
  BY <1>3, UploadKeeps
<1>4. ASSUME NEW r \in Requests, UpdateTestcasePath(r)  PROVE ProblemInv'
  BY <1>4, PathKeeps
<1>5. ASSUME NEW r \in Requests, RemoveFile(r)  PROVE ProblemInv'
  BY <1>5, RemoveKeeps
<1>6. ASSUME NEW r \in Requests, UndoRow(r)  PROVE ProblemInv'
  BY <1>6, UndoKeeps
<1>7. ASSUME NEW r \in Requests, NEW i \in Ids, HandleDeleteProblem(r, i)  PROVE ProblemInv'
  BY <1>7, AskDeleteKeeps
<1>8. ASSUME NEW r \in Requests, DeleteProblem(r)  PROVE ProblemInv'
  BY <1>8, DeleteKeeps
<1>9. ASSUME NEW r \in Requests, Disconnect(r) \/ Crash(r)  PROVE ProblemInv'
  BY <1>9, LeaveKeeps
<1>10. ASSUME NEW s \in Submissions, SubmissionStep(s)  PROVE ProblemInv'
  BY <1>10, SubmissionKeeps
<1>11. CASE UNCHANGED vars
  BY <1>11 DEF vars, ProblemInv, TypeOK, RequestInv, RequestOK, Creating, CreatedInv, HalfInv
<1> QED
  BY <1>1, <1>2, <1>3, <1>4, <1>5, <1>6, <1>7, <1>8, <1>9, <1>10, <1>11 DEF Next, SubmissionStep

---------------------------------------------------------------------------
(* The inductive invariant holds in every behaviour: creations work on     *)
(* disjoint ids that no client was given, and rows without an object       *)
(* belong to them or were abandoned.                                       *)
THEOREM ProblemInvariance == Spec => []ProblemInv
BY ProblemInit, ProblemStep, PTL DEF Spec

(* The variables keep their types; ids that were not drawn have neither    *)
(* row nor object.                                                         *)
THEOREM TypeCorrect == Spec => []TypeOK
<1>1. ProblemInv => TypeOK
  BY DEF ProblemInv
<1> QED  BY <1>1, ProblemInvariance, PTL

(* A problem is there as a whole or not at all: one that was reported as   *)
(* created has its row, path and object until it is deleted, and one whose *)
(* creation failed has been taken back, for any number of requests and     *)
(* whatever fails (HandleCreateProblem and its error paths).               *)
THEOREM WholeOrNothingCorrect == Spec => []WholeOrNothing
<1>1. ASSUME ProblemInv  PROVE CreatedIsComplete
  BY <1>1 DEF ProblemInv, CreatedInv, CreatedIsComplete
<1>2. ASSUME ProblemInv  PROVE NoHalfProblem
  BY <1>2 DEF ProblemInv, HalfInv, NoHalfProblem, AtWork
<1>3. ProblemInv => WholeOrNothing
  BY <1>1, <1>2 DEF WholeOrNothing
<1> QED  BY <1>3, ProblemInvariance, PTL

---------------------------------------------------------------------------
(* The problem id of a submission: in the row, in the hands of the repair  *)
(* loop, in the payload, in the hands of the worker.                       *)

\* An id on its way to the worker is that of the problem, or 0 when the row had
\* lost it: then the problem was deleted, and what is past the repair loop was
\* repaired.
Passes(s, ids, repaired) ==
    \A i \in ids : i = sub[s].problem \/ (i = 0 /\ sub[s].problem \in deleted /\ repaired)

SubmissionOK(s) ==
    /\ sub[s].pc \in {"idle", "checked", "refused"} =>
          sub[s].payload = {} /\ sub[s].scan = {} /\ ~sub[s].due /\ ~sub[s].whole
    /\ sub[s].whole =>
          /\ sub[s].problem \in created
          /\ Passes(s, {sub[s].column}, TRUE)
          /\ Passes(s, sub[s].scan, TRUE)
          /\ Passes(s, sub[s].payload, sub[s].repaired)
          /\ sub[s].pc \in {"taken", "judged"} => Passes(s, {sub[s].task}, sub[s].repaired)
          /\ sub[s].pc = "judged" =>
                sub[s].cases = IF sub[s].task = 0 THEN NoObject ELSE object[sub[s].task]

SubmissionInv == \A s \in Submissions : SubmissionOK(s)

(* Nothing that was reported as created is ever touched again, but for its *)
(* row.                                                                    *)
LEMMA CreatedIsKept ==
    ASSUME ProblemInv, [Next]_vars
    PROVE  /\ created \subseteq created' /\ deleted \subseteq deleted'
           /\ \A i \in created : object'[i] = object[i]
<1>1. ASSUME NEW r \in Requests, UploadFile(r) \/ RemoveFile(r)
      PROVE  /\ created' = created /\ deleted' = deleted /\ req[r].id \notin created
             /\ \A i \in Ids \ {req[r].id} : object'[i] = object[i]
  BY <1>1, RequestFacts DEF UploadFile, RemoveFile, Creating, ProblemInv, TypeOK
<1>2. ASSUME NEW s \in Submissions, SubmissionStep(s)
      PROVE  created' = created /\ deleted' = deleted /\ object' = object
  BY <1>2, SubmissionKeeps
<1>3. created \subseteq Ids
  BY DEF ProblemInv, TypeOK
<1>4. CASE UNCHANGED vars
  BY <1>4 DEF vars
<1>5. CASE \E s \in Submissions : SubmissionStep(s)
  BY <1>2, <1>5
<1>6. CASE \E r \in Requests : UploadFile(r) \/ RemoveFile(r)
  BY <1>1, <1>3, <1>6
<1>7. ASSUME NEW r \in Requests,
             \/ \E a \in Archives : HandleCreateProblem(r, a)
             \/ CreateProblem(r) \/ UpdateTestcasePath(r) \/ UndoRow(r)
             \/ \E i \in Ids : HandleDeleteProblem(r, i)
             \/ DeleteProblem(r) \/ Disconnect(r) \/ Crash(r)
      PROVE  created \subseteq created' /\ deleted \subseteq deleted' /\ object' = object
  BY <1>7 DEF HandleCreateProblem, CreateProblem, UpdateTestcasePath, UndoRow, HandleDeleteProblem,
     DeleteProblem, Disconnect, Crash
<1> QED  BY <1>4, <1>5, <1>6, <1>7 DEF Next, SubmissionStep

(* A step that leaves a submission alone, or takes the id of a deleted     *)
(* problem from its row, keeps what is known of it.                        *)
LEMMA OthersKeep ==
    ASSUME ProblemInv, [Next]_vars, NEW s \in Submissions, SubmissionOK(s),
           \/ sub'[s] = sub[s]
           \/ sub'[s] = [sub[s] EXCEPT !.column = 0] /\ (sub[s].whole => sub[s].problem \in deleted')
    PROVE  SubmissionOK(s)'
<1>1. /\ created \subseteq created' /\ deleted \subseteq deleted'
      /\ \A i \in created : object'[i] = object[i]
  BY CreatedIsKept
<1>2. sub[s] \in Submission
  BY DEF ProblemInv, TypeOK, Submission
<1>3. /\ sub'[s].pc = sub[s].pc /\ sub'[s].problem = sub[s].problem /\ sub'[s].due = sub[s].due
      /\ sub'[s].payload = sub[s].payload /\ sub'[s].scan = sub[s].scan /\ sub'[s].task = sub[s].task
      /\ sub'[s].whole = sub[s].whole /\ sub'[s].repaired = sub[s].repaired /\ sub'[s].cases = sub[s].cases
      /\ \/ sub'[s].column = sub[s].column
         \/ sub'[s].column = 0 /\ (sub[s].whole => sub[s].problem \in deleted')
  BY <1>2 DEF Submission
<1>4. ASSUME sub[s].whole, sub[s].pc = "judged"
      PROVE  sub[s].cases = IF sub[s].task = 0 THEN NoObject ELSE object'[sub[s].task]
  BY <1>1, <1>4 DEF SubmissionOK, Passes
<1> QED  BY <1>1, <1>3, <1>4 DEF SubmissionOK, Passes

LEMMA SubmissionInit == Init => SubmissionInv
BY DEF Init, NoSubmission, SubmissionInv, SubmissionOK

(* Each step that passes the id on keeps it. *)
LEMMA PassingKeeps ==
    ASSUME ProblemInv, SubmissionInv, [Next]_vars, NEW s \in Submissions, SubmissionStep(s)
    PROVE  SubmissionOK(s)'
<1>1. /\ sub \in [Submissions -> Submission] /\ sub[s] \in Submission /\ SubmissionOK(s)
      /\ UNCHANGED <<object, created, deleted>>
  BY SubmissionKeeps DEF ProblemInv, TypeOK, Submission, SubmissionInv
<1>2. ASSUME NEW v, Turns(s, v)  PROVE sub'[s] = v
  BY <1>1, <1>2 DEF Turns
<1>3. ASSUME NEW i \in Ids, GetProblem(s, i)  PROVE SubmissionOK(s)'
  <2>1. sub'[s] = [sub[s] EXCEPT !.pc = "checked", !.problem = i]
    BY <1>2, <1>3, SubmissionAfter
  <2> QED  BY <1>1, <1>3, <2>1 DEF GetProblem, SubmissionOK, Submission
<1>4. ASSUME InsertSubmission(s)  PROVE SubmissionOK(s)'
  <2> DEFINE refused == [sub[s] EXCEPT !.pc = "refused"]
             stored == [sub[s] EXCEPT !.pc = "stored", !.column = sub[s].problem, !.due = TRUE,
                                      !.whole = sub[s].problem \in created]
  <2>1. sub'[s] = refused \/ sub'[s] = stored
    BY <1>2, <1>4, SubmissionAfter
  <2>2. CASE sub'[s] = refused
    BY <1>1, <1>4, <2>2 DEF InsertSubmission, SubmissionOK, Submission
  <2>3. CASE sub'[s] = stored
    <3>1. /\ sub'[s].pc = "stored" /\ sub'[s].problem = sub[s].problem /\ sub'[s].column = sub[s].problem
          /\ sub'[s].payload = sub[s].payload /\ sub'[s].scan = sub[s].scan
          /\ sub'[s].whole => sub[s].problem \in created
      BY <1>1, <2>3 DEF Submission
    <3>2. sub[s].payload = {} /\ sub[s].scan = {}
      BY <1>1, <1>4 DEF InsertSubmission, SubmissionOK
    <3> HIDE DEF stored, refused
    <3> QED  BY <1>1, <3>1, <3>2 DEF SubmissionOK, Passes
  <2> QED  BY <2>1, <2>2, <2>3
<1>5. ASSUME Dispatch(s)  PROVE SubmissionOK(s)'
  <2>1. PICK due \in BOOLEAN : sub'[s] = [sub[s] EXCEPT !.payload = {sub[s].problem}, !.due = due]
    BY <1>2, <1>5, SubmissionAfter
  <2> QED  BY <1>1, <1>5, <2>1 DEF Dispatch, SubmissionOK, Passes, Submission
<1>6. ASSUME FetchRepairCandidate(s)  PROVE SubmissionOK(s)'
  <2>1. sub'[s] = [sub[s] EXCEPT !.scan = {sub[s].column}]
    BY <1>2, <1>6, SubmissionAfter
  <2> QED  BY <1>1, <1>6, <2>1 DEF FetchRepairCandidate, SubmissionOK, Passes, Submission
<1>7. ASSUME EnqueueRepairedJob(s)  PROVE SubmissionOK(s)'
  <2>1. sub'[s] = [sub[s] EXCEPT !.payload = sub[s].scan, !.scan = {}, !.repaired = TRUE]
    BY <1>2, <1>7, SubmissionAfter
  <2> QED  BY <1>1, <1>7, <2>1 DEF EnqueueRepairedJob, SubmissionOK, Passes, Submission
<1>8. ASSUME TakePayload(s)  PROVE SubmissionOK(s)'
  <2>1. PICK i \in sub[s].payload : sub'[s] = [sub[s] EXCEPT !.pc = "taken", !.task = i]
    BY <1>2, <1>8, SubmissionAfter
  <2> QED  BY <1>1, <1>8, <2>1 DEF TakePayload, SubmissionOK, Passes, Submission
<1>9. ASSUME Prepare(s)  PROVE SubmissionOK(s)'
  <2> DEFINE found == IF sub[s].task = 0 THEN NoObject ELSE object[sub[s].task]
  <2>1. sub'[s] = [sub[s] EXCEPT !.pc = "judged", !.cases = found]
    BY <1>2, <1>9, SubmissionAfter
  <2>2. found = IF sub[s].task = 0 THEN NoObject ELSE object'[sub[s].task]
    BY <1>1
  <2> HIDE DEF found
  <2> QED  BY <1>1, <1>9, <2>1, <2>2 DEF Prepare, SubmissionOK, Passes, Submission
<1> QED  BY <1>3, <1>4, <1>5, <1>6, <1>7, <1>8, <1>9 DEF SubmissionStep

LEMMA SubmissionsStep == ProblemInv /\ SubmissionInv /\ [Next]_vars => SubmissionInv'
<1> SUFFICES ASSUME ProblemInv, SubmissionInv, [Next]_vars, NEW s \in Submissions
             PROVE  SubmissionOK(s)'
  BY DEF SubmissionInv
<1>1. sub \in [Submissions -> Submission] /\ SubmissionOK(s)
  BY DEF ProblemInv, TypeOK, Submission, SubmissionInv
<1>2. CASE sub' = sub
  BY <1>1, <1>2, OthersKeep
<1>3. ASSUME NEW q \in Submissions, SubmissionStep(q)  PROVE SubmissionOK(s)'
  <2>1. CASE q = s
    BY <1>3, <2>1, PassingKeeps
  <2>2. CASE q # s
    <3>1. \E v : Turns(q, v)
      BY <1>3, StepTurns
    <3>2. sub'[s] = sub[s]
      BY <1>1, <2>2, <3>1 DEF Turns
    <3> QED  BY <1>1, <3>2, OthersKeep
  <2> QED  BY <2>1, <2>2
<1>4. ASSUME NEW r \in Requests, UndoRow(r) \/ DeleteProblem(r)  PROVE SubmissionOK(s)'
  <2>1. CASE UNCHANGED sub
    BY <2>1, <1>2
  <2>2. CASE OnDeleteSetNull(req[r].id)
    <3>1. req[r].id \in Ids /\ 0 \notin Ids
      BY <1>4, RequestFacts DEF UndoRow, DeleteProblem, Creating, Ids
    <3>2. req[r].id \notin created \/ req[r].id \in deleted'
      BY <1>4, RequestFacts DEF UndoRow, DeleteProblem, Creating
    <3>3. sub'[s] = sub[s] \/ (sub[s].column = req[r].id /\ sub'[s] = [sub[s] EXCEPT !.column = 0])
      BY <1>1, <2>2, SetNullAfter
    <3>4. sub[s].whole /\ sub[s].column = req[r].id => sub[s].problem \in deleted'
      BY <1>1, <3>1, <3>2 DEF SubmissionOK, Passes
    <3> QED  BY <1>1, <3>3, <3>4, OthersKeep, Zenon
  <2> QED  BY <1>4, <2>1, <2>2 DEF UndoRow, DeleteProblem
<1>5. ASSUME NEW r \in Requests,
             \/ \E a \in Archives : HandleCreateProblem(r, a)
             \/ CreateProblem(r) \/ UploadFile(r) \/ UpdateTestcasePath(r) \/ RemoveFile(r)
             \/ \E i \in Ids : HandleDeleteProblem(r, i)
             \/ Disconnect(r) \/ Crash(r)
      PROVE  sub' = sub
  BY <1>5 DEF HandleCreateProblem, CreateProblem, UploadFile, UpdateTestcasePath, RemoveFile,
     HandleDeleteProblem, Disconnect, Crash
<1>6. CASE UNCHANGED vars
  BY <1>2, <1>6 DEF vars
<1> QED  BY <1>2, <1>3, <1>4, <1>5, <1>6 DEF Next, SubmissionStep

(* However deletions, dispatches, repairs and takeovers interleave, a      *)
(* submission for a problem that was all there is judged with the test     *)
(* cases of that problem, and with no others: HandleDeleteProblem leaves   *)
(* the object, and the payload keeps the id that ON DELETE SET NULL takes  *)
(* from the row, unless the repair loop writes it again from the row.      *)
THEOREM JudgedByOwnCasesCorrect == Spec => []JudgedByOwnCases
<1>1. Spec => []SubmissionInv
  BY SubmissionInit, SubmissionsStep, ProblemInvariance, PTL DEF Spec
<1>2. ASSUME ProblemInv, SubmissionInv  PROVE JudgedByOwnCases
  <2> SUFFICES ASSUME NEW s \in Submissions, sub[s].pc = "judged", sub[s].whole
               PROVE  \/ sub[s].cases = object[sub[s].problem] /\ sub[s].cases # NoObject
                      \/ sub[s].cases = NoObject /\ MayBeOrphaned(s)
    BY DEF JudgedByOwnCases
  <2>1. SubmissionOK(s)
    BY <1>2 DEF SubmissionInv
  <2>2. sub[s].problem \in created /\ sub[s].problem # 0
    BY <1>2, <2>1 DEF SubmissionOK, ProblemInv, TypeOK, Ids
  <2>3. object[sub[s].problem] # NoObject
    BY <1>2, <2>2 DEF ProblemInv, CreatedInv
  <2> QED  BY <2>1, <2>2, <2>3 DEF SubmissionOK, Passes, MayBeOrphaned
<1> QED  BY <1>1, <1>2, ProblemInvariance, PTL
=============================================================================
