------------------------- MODULE JobPipelineProofs -------------------------
(***************************************************************************)
(* Theorems about JobPipeline, for all sets of jobs, workers, slots and    *)
(* dispatchers, and for any number and mixture of failures: the types, why *)
(* attempt_id and lease fence the executions of a job, and what the data   *)
(* plane owes its clients, which is that an accepted job's event reaches   *)
(* the stream and that every step of dispatchers, workers and loops is a   *)
(* step of the abstract lifecycle of JobLifecycle or invisible to it.      *)
(***************************************************************************)
EXTENDS JobPipeline, TLAPS

---------------------------------------------------------------------------
(* What a task in flight points at: a busy handler and a dispatcher in the *)
(* middle of dispatchOne each name a job.                                  *)
InFlightNamesJob ==
    /\ \A h \in Handlers : hs[h].pc # "free" => hs[h].job \in Jobs
    /\ \A d \in Dispatchers : dpc[d] # "next" => cur[d] \in Jobs

TypeInv == TypeOK /\ InFlightNamesJob

---------------------------------------------------------------------------
(* The statements on the submissions table keep the row type. *)
LEMMA SubmissionsTypes ==
    ASSUME SubmissionsTypeOK, NEW j \in Jobs, NEW w \in Workers,
           NEW a \in Nat, NEW s \in Nat
    PROVE  /\ CreateSubmission(j) => SubmissionsTypeOK'
           /\ ClaimSubmissionForRun(j, w) => SubmissionsTypeOK'
           /\ RefreshSubmissionLease(j, a, w) => SubmissionsTypeOK'
           /\ FinalizeSubmissionWithFence(j, a, w, s) => SubmissionsTypeOK'
           /\ MarkSubmissionPoison(j) => SubmissionsTypeOK'
           /\ ReclaimSubmissionForRun(j, w) => SubmissionsTypeOK'
           /\ DeleteOldDoneSubmission(j) => SubmissionsTypeOK'
           /\ LeaseExpires(j) => SubmissionsTypeOK'
<1>0. sub[j] \in Row
  BY DEF SubmissionsTypeOK
<1>1. CreateSubmission(j) => SubmissionsTypeOK'
  BY DEF CreateSubmission, AbsentRow, SubmissionsTypeOK, Row, RowState
<1>2. ClaimSubmissionForRun(j, w) => SubmissionsTypeOK'
  <2> DEFINE r == [sub[j] EXCEPT !.state = "processing", !.attempt = sub[j].attempt + 1,
                                 !.owner = w, !.lease = "valid"]
  <2>0. sub[j].attempt + 1 \in Nat
    BY <1>0 DEF Row
  <2>1. r \in Row
    BY <1>0, <2>0, Zenon DEF Row, RowState
  <2> QED  BY <2>1, <1>0 DEF ClaimSubmissionForRun, SubmissionsTypeOK
<1>3. RefreshSubmissionLease(j, a, w) => SubmissionsTypeOK'
  BY DEF RefreshSubmissionLease, SubmissionsTypeOK, Row
<1>4. FinalizeSubmissionWithFence(j, a, w, s) => SubmissionsTypeOK'
  <2> DEFINE r == [sub[j] EXCEPT !.state = "done", !.owner = None, !.lease = "null",
                                 !.verdict = "judged", !.by = a, !.src = s]
  <2>1. r \in Row
    BY <1>0, NoneAssumption DEF Row, RowState
  <2> QED  BY <2>1, <1>0 DEF FinalizeSubmissionWithFence, SubmissionsTypeOK
<1>5. MarkSubmissionPoison(j) => SubmissionsTypeOK'
  <2> DEFINE r == [sub[j] EXCEPT !.state = "done", !.owner = None, !.lease = "null",
                                 !.verdict = "poison"]
  <2>1. r \in Row
    BY <1>0, NoneAssumption DEF Row, RowState
  <2> QED  BY <2>1, <1>0 DEF MarkSubmissionPoison, SubmissionsTypeOK
<1>6. ReclaimSubmissionForRun(j, w) => SubmissionsTypeOK'
  <2> DEFINE r == [sub[j] EXCEPT !.attempt = sub[j].attempt + 1, !.owner = w, !.lease = "valid"]
  <2>0. sub[j].attempt + 1 \in Nat
    BY <1>0 DEF Row
  <2>1. r \in Row
    BY <1>0, <2>0, Zenon DEF Row, RowState
  <2> QED  BY <2>1, <1>0 DEF ReclaimSubmissionForRun, SubmissionsTypeOK
<1>7. DeleteOldDoneSubmission(j) => SubmissionsTypeOK'
  BY DEF DeleteOldDoneSubmission, SubmissionsTypeOK, Row, RowState
<1>8. LeaseExpires(j) => SubmissionsTypeOK'
  BY DEF LeaseExpires, SubmissionsTypeOK, Row
<1> QED  BY <1>1, <1>2, <1>3, <1>4, <1>5, <1>6, <1>7, <1>8

(* The Redis commands keep the types of stream, group and keys. *)
LEMMA JobStreamTypes ==
    ASSUME JobStreamTypeOK
    PROVE  /\ \A j \in Jobs : XAdd(j) \/ SetPayload(j) \/ DelPayload(j) => JobStreamTypeOK'
           /\ \A j \in Jobs, a \in Nat : ReportResult(j, a) => JobStreamTypeOK'
           /\ \A j \in Jobs : ResultExpires(j) => JobStreamTypeOK'
           /\ EnsureGroup => JobStreamTypeOK'
           /\ \A e : ReadNewEntry(e) => JobStreamTypeOK'
           /\ \A e : AutoClaimEntry(e) \/ AckDeletedEntry(e) \/ XAck(e)
                         \/ EntryTurnsIdle(e) => JobStreamTypeOK'
           /\ TrimOldest => JobStreamTypeOK'
           /\ UNCHANGED redisVars => JobStreamTypeOK'
<1> USE DEF JobStreamTypeOK, Entries
<1>1. \A j \in Jobs : XAdd(j) \/ SetPayload(j) \/ DelPayload(j) => JobStreamTypeOK'
  <2>1. \A j \in Jobs : XAdd(j) => JobStreamTypeOK'
    BY DEF XAdd
  <2>2. \A j \in Jobs : SetPayload(j) \/ DelPayload(j) => JobStreamTypeOK'
    BY DEF SetPayload, DelPayload
  <2> QED  BY <2>1, <2>2
<1>2. \A j \in Jobs, a \in Nat : ReportResult(j, a) => JobStreamTypeOK'
  BY DEF ReportResult
<1>3. \A j \in Jobs : ResultExpires(j) => JobStreamTypeOK'
  BY DEF ResultExpires
<1>4. EnsureGroup => JobStreamTypeOK'
  BY DEF EnsureGroup
<1>5. \A e : ReadNewEntry(e) => JobStreamTypeOK'
  BY DEF ReadNewEntry, Entries
<1>6. \A e : AutoClaimEntry(e) \/ AckDeletedEntry(e) \/ XAck(e)
                 \/ EntryTurnsIdle(e) => JobStreamTypeOK'
  BY DEF AutoClaimEntry, AckDeletedEntry, XAck, EntryTurnsIdle
<1>7. TrimOldest => JobStreamTypeOK'
  BY DEF TrimOldest
<1>8. UNCHANGED redisVars => JobStreamTypeOK'
  BY DEF redisVars
<1> QED  BY <1>1, <1>2, <1>3, <1>4, <1>5, <1>6, <1>7, <1>8

(* Every task a handler may hold or move to has its type. *)
LEMMA TaskTypes ==
    ASSUME ConsumerTypeOK, NEW h \in Handlers
    PROVE  /\ hs[h] \in Task /\ FreeSlot \in Task /\ WorkerOf(h) \in Workers
           /\ \A p \in PC : [hs[h] EXCEPT !.pc = p] \in Task
           /\ \A a \in Nat : [hs[h] EXCEPT !.pc = "run", !.att = a] \in Task
           /\ \A s \in Nat : [hs[h] EXCEPT !.pc = "finalize", !.src = s] \in Task
           /\ \A n \in Nat, b \in BOOLEAN : [hs[h] EXCEPT !.errs = n, !.lost = b] \in Task
           /\ \A n \in Nat : [hs[h] EXCEPT !.errs = n] \in Task
           /\ [hs[h] EXCEPT !.lost = TRUE] \in Task
           /\ \A e \in Nat, j \in Jobs, how \in {"new", "reclaim"} :
                 [FreeSlot EXCEPT !.pc = "fetch", !.via = how, !.entry = e, !.job = j] \in Task
<1>1. hs[h] \in Task
  BY DEF ConsumerTypeOK
<1>2. FreeSlot \in Task
  BY DEF FreeSlot, Task, PC
<1>3. WorkerOf(h) \in Workers
  BY DEF Handlers, WorkerOf
<1>4. \A p \in PC : [hs[h] EXCEPT !.pc = p] \in Task
  BY <1>1, Zenon DEF Task
<1>5. \A a \in Nat : [hs[h] EXCEPT !.pc = "run", !.att = a] \in Task
  BY <1>1, Zenon DEF Task, PC
<1>6. \A s \in Nat : [hs[h] EXCEPT !.pc = "finalize", !.src = s] \in Task
  BY <1>1, Zenon DEF Task, PC
<1>7. \A n \in Nat, b \in BOOLEAN : [hs[h] EXCEPT !.errs = n, !.lost = b] \in Task
  BY <1>1, Zenon DEF Task
<1>8. \A n \in Nat : [hs[h] EXCEPT !.errs = n] \in Task
  BY <1>1, Zenon DEF Task
<1>9. [hs[h] EXCEPT !.lost = TRUE] \in Task
  BY <1>1, Zenon DEF Task
<1>10. \A e \in Nat, j \in Jobs, how \in {"new", "reclaim"} :
         [FreeSlot EXCEPT !.pc = "fetch", !.via = how, !.entry = e, !.job = j] \in Task
  BY <1>2, Zenon DEF Task, PC
<1> QED  BY <1>1, <1>2, <1>3, <1>4, <1>5, <1>6, <1>7, <1>8, <1>9, <1>10

(* Tasks that name a job unless their slot is free. *)
GoodTask == {t \in Task : t.pc # "free" => t.job \in Jobs}

\* Handler h, and no other, moves on to a good task.
Moves(h) == UNCHANGED up /\ \E t \in GoodTask : hs' = [hs EXCEPT ![h] = t]

(* The elementary steps of a busy handler lead to good tasks. *)
LEMMA TaskMoves ==
    ASSUME ConsumerTypeOK, NEW h \in Handlers, hs[h].job \in Jobs, UNCHANGED up
    PROVE  /\ Release(h) => Moves(h)
           /\ \A p \in PC : Goto(h, p) => Moves(h)
           /\ StartRun(h) /\ SubmissionsTypeOK' => Moves(h)
<1>1. Release(h) => Moves(h)
  BY TaskTypes DEF Release, Moves, GoodTask, FreeSlot
<1>2. \A p \in PC : Goto(h, p) => Moves(h)
  <2> TAKE p \in PC
  <2> DEFINE t == [hs[h] EXCEPT !.pc = p]
  <2>1. hs[h] \in Task /\ t \in Task
    BY TaskTypes
  <2>2. t.job = hs[h].job
    BY <2>1 DEF Task
  <2>3. Goto(h, p) => hs' = [hs EXCEPT ![h] = t]
    BY DEF Goto
  <2> HIDE DEF t
  <2> QED  BY <2>1, <2>2, <2>3 DEF Moves, GoodTask
<1>3. StartRun(h) /\ SubmissionsTypeOK' => Moves(h)
  <2> SUFFICES ASSUME StartRun(h), SubmissionsTypeOK'  PROVE Moves(h)
    OBVIOUS
  <2> DEFINE a == sub'[hs[h].job].attempt
             t == [hs[h] EXCEPT !.pc = "run", !.att = a]
  <2>1. a \in Nat
    BY DEF SubmissionsTypeOK, Row
  <2>2. hs[h] \in Task /\ t \in Task
    BY <2>1, TaskTypes
  <2>3. t.job = hs[h].job
    BY <2>2 DEF Task
  <2>4. hs' = [hs EXCEPT ![h] = t]
    BY DEF StartRun
  <2> HIDE DEF t
  <2> QED  BY <2>2, <2>3, <2>4 DEF Moves, GoodTask
<1> QED  BY <1>1, <1>2, <1>3

(* A failure costs one of the budget, which never becomes negative. *)
LEMMA BudgetTypes ==
    ASSUME budget \in Nat
    PROVE  /\ \A kind : Fault(kind) => budget' \in Nat
           /\ NoFault => budget' \in Nat
BY DEF Fault, NoFault

(* What a step of one handler has to establish. *)
LEMMA HandlerFrame ==
    ASSUME TypeInv, NEW h \in Handlers, Moves(h), SubmissionsTypeOK',
           JobStreamTypeOK', budget' \in Nat, UNCHANGED <<outboxVars, repairVars>>
    PROVE  TypeInv'
<1>1. PICK t \in GoodTask : hs' = [hs EXCEPT ![h] = t]
  BY DEF Moves
<1>2. ConsumerTypeOK'
  BY <1>1 DEF Moves, GoodTask, TypeInv, TypeOK, ConsumerTypeOK
<1>3. \A g \in Handlers : hs'[g].pc # "free" => hs'[g].job \in Jobs
  BY <1>1 DEF GoodTask, TypeInv, TypeOK, ConsumerTypeOK, InFlightNamesJob
<1>4. DispatcherTypeOK' /\ RepairTypeOK'
  BY DEF TypeInv, TypeOK, DispatcherTypeOK, RepairTypeOK, outboxVars, repairVars
<1>5. \A d \in Dispatchers : dpc'[d] # "next" => cur'[d] \in Jobs
  BY DEF TypeInv, InFlightNamesJob, outboxVars
<1> QED  BY <1>2, <1>3, <1>4, <1>5 DEF TypeInv, TypeOK, InFlightNamesJob

---------------------------------------------------------------------------
(* TypeInv is kept by every step of a worker's handlers ... *)
LEMMA HandlerKeepsTypes ==
    ASSUME TypeInv, NEW h \in Handlers, UNCHANGED <<outboxVars, repairVars>>,
           HandlerStep(h) \/ Heartbeat(h) \/ HeartbeatCancelled(h)
               \/ ReadNew(h) \/ AutoClaim(h)
    PROVE  TypeInv'
<1> DEFINE j == hs[h].job
           a == hs[h].att
           w == WorkerOf(h)
<1>1. /\ SubmissionsTypeOK /\ JobStreamTypeOK /\ ConsumerTypeOK /\ budget \in Nat
  BY DEF TypeInv, TypeOK
<1>2. /\ hs[h] \in Task /\ w \in Workers /\ a \in Nat /\ hs[h].src \in Nat
      /\ hs[h].errs \in Nat
  BY <1>1, TaskTypes, ZenonT(60) DEF Task
<1>3. hs[h].pc # "free" => j \in Jobs
  BY DEF TypeInv, InFlightNamesJob
<1>4. SUFFICES Moves(h) /\ SubmissionsTypeOK' /\ JobStreamTypeOK' /\ budget' \in Nat
  BY HandlerFrame
<1>5. /\ UNCHANGED sub => SubmissionsTypeOK'
      /\ UNCHANGED redisVars => JobStreamTypeOK'
      /\ NoFault => budget' \in Nat
      /\ \A kind : Fault(kind) => budget' \in Nat
  BY <1>1, BudgetTypes, JobStreamTypes DEF SubmissionsTypeOK
<1> USE DEF PC
<1>6. CASE FetchPayload(h)
  <2>1. UNCHANGED up /\ \E p \in PC : Goto(h, p)
    BY <1>6 DEF FetchPayload
  <2>2. budget' \in Nat /\ SubmissionsTypeOK' /\ JobStreamTypeOK'
    BY <1>6, <1>5 DEF FetchPayload
  <2> QED  BY <2>1, <2>2, <1>1, <1>3, <1>6, TaskMoves DEF FetchPayload
<1>7. CASE MarkPoison(h)
  <2>1. UNCHANGED up /\ (Goto(h, "ack") \/ Release(h))
    BY <1>7 DEF MarkPoison
  <2>2. budget' \in Nat /\ JobStreamTypeOK'
    BY <1>7, <1>5 DEF MarkPoison
  <2>3. j \in Jobs
    BY <1>7, <1>3 DEF MarkPoison
  <2>4. SubmissionsTypeOK'
    BY <1>7, <1>1, <1>2, <1>5, <2>3, SubmissionsTypes DEF MarkPoison
  <2> QED  BY <2>1, <2>2, <2>3, <2>4, <1>1, TaskMoves
<1>8. CASE Claim(h)
  <2>1. UNCHANGED up /\ (Goto(h, "ack") \/ Release(h) \/ StartRun(h))
    BY <1>8 DEF Claim
  <2>2. budget' \in Nat /\ JobStreamTypeOK'
    BY <1>8, <1>5 DEF Claim
  <2>3. j \in Jobs
    BY <1>8, <1>3 DEF Claim
  <2>4. SubmissionsTypeOK'
    BY <1>8, <1>1, <1>2, <1>5, <2>3, SubmissionsTypes DEF Claim
  <2> QED  BY <2>1, <2>2, <2>3, <2>4, <1>1, TaskMoves
<1>9. CASE Reclaim(h)
  <2>1. UNCHANGED up /\ (Goto(h, "inspect") \/ Release(h) \/ StartRun(h))
    BY <1>9 DEF Reclaim
  <2>2. budget' \in Nat /\ JobStreamTypeOK'
    BY <1>9, <1>5 DEF Reclaim
  <2>3. j \in Jobs
    BY <1>9, <1>3 DEF Reclaim
  <2>4. SubmissionsTypeOK'
    BY <1>9, <1>1, <1>2, <1>5, <2>3, SubmissionsTypes DEF Reclaim
  <2> QED  BY <2>1, <2>2, <2>3, <2>4, <1>1, TaskMoves
<1>10. CASE InspectReclaim(h)
  <2>1. UNCHANGED up /\ (Goto(h, "ack") \/ Release(h))
    BY <1>10 DEF InspectReclaim
  <2>2. budget' \in Nat /\ SubmissionsTypeOK' /\ JobStreamTypeOK'
    BY <1>10, <1>5 DEF InspectReclaim
  <2> QED  BY <2>1, <2>2, <1>1, <1>3, <1>10, TaskMoves DEF InspectReclaim
<1>11. CASE ExecuteTask(h)
  <2>1. UNCHANGED up /\ Goto(h, "ran") /\ j \in Jobs
    BY <1>11, <1>3 DEF ExecuteTask
  <2>2. budget' \in Nat /\ SubmissionsTypeOK'
    BY <1>11, <1>5 DEF ExecuteTask
  <2>3. JobStreamTypeOK'
    BY <1>11, <1>1, <1>2, <1>5, <2>1, JobStreamTypes DEF ExecuteTask
  <2> QED  BY <2>1, <2>2, <2>3, <1>1, TaskMoves
<1>12. CASE JoinHeartbeat(h)
  <2>1. UNCHANGED up /\ (Goto(h, "resolve") \/ Release(h)) /\ j \in Jobs
    BY <1>12, <1>3 DEF JoinHeartbeat
  <2>2. budget' \in Nat /\ SubmissionsTypeOK' /\ JobStreamTypeOK'
    BY <1>12, <1>5 DEF JoinHeartbeat
  <2> QED  BY <2>1, <2>2, <1>1, TaskMoves
<1>13. CASE ResolveFinalResult(h)
  <2>1. UNCHANGED up /\ j \in Jobs
    BY <1>13, <1>3 DEF ResolveFinalResult
  <2>2. budget' \in Nat /\ SubmissionsTypeOK' /\ JobStreamTypeOK'
    BY <1>13, <1>5 DEF ResolveFinalResult
  <2>3. resultKey[j] \in Nat
    BY <1>1, <2>1 DEF JobStreamTypeOK
  <2>4. PICK s \in Nat :
          hs' = [hs EXCEPT ![h] = [hs[h] EXCEPT !.pc = "finalize", !.src = s]]
    BY <1>13, <1>2, <2>3 DEF ResolveFinalResult
  <2> DEFINE t == [hs[h] EXCEPT !.pc = "finalize", !.src = s]
  <2>5. t \in Task
    BY <1>1, TaskTypes
  <2>6. t.job = j
    BY <1>2 DEF Task
  <2>7. hs' = [hs EXCEPT ![h] = t]
    BY <2>4
  <2> HIDE DEF t
  <2>8. Moves(h)
    BY <2>1, <2>5, <2>6, <2>7 DEF Moves, GoodTask
  <2> QED  BY <2>2, <2>8
<1>14. CASE Finalize(h)
  <2>1. UNCHANGED up /\ (Goto(h, "ack") \/ Goto(h, "reject") \/ Release(h)) /\ j \in Jobs
    BY <1>14, <1>3 DEF Finalize
  <2>2. budget' \in Nat /\ JobStreamTypeOK'
    BY <1>14, <1>5 DEF Finalize
  <2>3. SubmissionsTypeOK'
    BY <1>14, <1>1, <1>2, <1>5, <2>1, SubmissionsTypes DEF Finalize
  <2> QED  BY <2>1, <2>2, <2>3, <1>1, TaskMoves
<1>15. CASE ExplainReject(h)
  <2>1. UNCHANGED up /\ (Goto(h, "ack") \/ Release(h)) /\ j \in Jobs
    BY <1>15, <1>3 DEF ExplainReject
  <2>2. budget' \in Nat /\ SubmissionsTypeOK' /\ JobStreamTypeOK'
    BY <1>15, <1>5 DEF ExplainReject
  <2> QED  BY <2>1, <2>2, <1>1, TaskMoves
<1>16. CASE Ack(h)
  <2>1. UNCHANGED up /\ Release(h) /\ j \in Jobs
    BY <1>16, <1>3 DEF Ack
  <2>2. budget' \in Nat /\ SubmissionsTypeOK'
    BY <1>16, <1>5 DEF Ack
  <2>3. JobStreamTypeOK'
    BY <1>16, <1>1, <1>5, JobStreamTypes DEF Ack
  <2> QED  BY <2>1, <2>2, <2>3, <1>1, TaskMoves
<1>17. CASE Heartbeat(h)
  <2>1. UNCHANGED up /\ j \in Jobs
    BY <1>17, <1>3 DEF Heartbeat
  <2>2. budget' \in Nat /\ JobStreamTypeOK'
    BY <1>17, <1>5 DEF Heartbeat
  <2>3. SubmissionsTypeOK'
    BY <1>17, <1>1, <1>2, <1>5, <2>1, SubmissionsTypes DEF Heartbeat
  <2>4. (hs[h].errs + 1) \in Nat /\ (hs[h].errs + 1 >= HeartbeatRetries) \in BOOLEAN
    BY <1>2
  <2>5. \/ hs' = [hs EXCEPT ![h] = [hs[h] EXCEPT !.errs = 0]]
        \/ \E n \in Nat, b \in BOOLEAN :
              hs' = [hs EXCEPT ![h] = [hs[h] EXCEPT !.errs = n, !.lost = b]]
    BY <1>17, <2>4, Zenon DEF Heartbeat
  <2>6. CASE hs' = [hs EXCEPT ![h] = [hs[h] EXCEPT !.errs = 0]]
    <3> DEFINE t == [hs[h] EXCEPT !.errs = 0]
    <3>1. t \in Task
      BY <1>1, TaskTypes
    <3>2. t.job = j
      BY <1>2 DEF Task
    <3>3. hs' = [hs EXCEPT ![h] = t]
      BY <2>6
    <3> HIDE DEF t
    <3> QED  BY <2>1, <2>2, <2>3, <3>1, <3>2, <3>3 DEF Moves, GoodTask
  <2>7. ASSUME NEW n \in Nat, NEW b \in BOOLEAN,
               hs' = [hs EXCEPT ![h] = [hs[h] EXCEPT !.errs = n, !.lost = b]]
        PROVE  Moves(h)
    <3> DEFINE t == [hs[h] EXCEPT !.errs = n, !.lost = b]
    <3>1. t \in Task
      BY <1>1, TaskTypes
    <3>2. t.job = j
      BY <1>2 DEF Task
    <3>3. hs' = [hs EXCEPT ![h] = t]
      BY <2>7
    <3> HIDE DEF t
    <3> QED  BY <2>1, <3>1, <3>2, <3>3 DEF Moves, GoodTask
  <2> QED  BY <2>2, <2>3, <2>5, <2>6, <2>7
<1>18. CASE HeartbeatCancelled(h)
  <2>1. UNCHANGED up /\ j \in Jobs
    BY <1>18, <1>3 DEF HeartbeatCancelled
  <2>2. budget' \in Nat /\ SubmissionsTypeOK' /\ JobStreamTypeOK'
    BY <1>18, <1>5 DEF HeartbeatCancelled
  <2> DEFINE t == [hs[h] EXCEPT !.lost = TRUE]
  <2>3. t \in Task
    BY <1>1, TaskTypes
  <2>4. t.job = j
    BY <1>2 DEF Task
  <2>5. hs' = [hs EXCEPT ![h] = t]
    BY <1>18 DEF HeartbeatCancelled
  <2> HIDE DEF t
  <2> QED  BY <2>1, <2>2, <2>3, <2>4, <2>5 DEF Moves, GoodTask
<1>19. ASSUME NEW e \in Entries, NEW how \in {"new", "reclaim"}, Deliver(h, e, how), UNCHANGED up
       PROVE  Moves(h)
  <2> DEFINE t == [FreeSlot EXCEPT !.pc = "fetch", !.via = how, !.entry = e, !.job = stream[e]]
  <2>1. e \in Nat /\ stream[e] \in Jobs
    BY <1>1 DEF Entries, JobStreamTypeOK
  <2>2. t \in Task
    BY <1>1, <2>1, TaskTypes
  <2>3. t.job = stream[e]
    BY DEF FreeSlot
  <2>4. hs' = [hs EXCEPT ![h] = t]
    BY <1>19 DEF Deliver
  <2> HIDE DEF t
  <2> QED  BY <1>19, <2>1, <2>2, <2>3, <2>4 DEF Moves, GoodTask
<1>20. UNCHANGED <<hs, up>> => Moves(h)
  <2> SUFFICES ASSUME UNCHANGED <<hs, up>>  PROVE Moves(h)
    OBVIOUS
  <2>1. hs' = [hs EXCEPT ![h] = hs[h]]
    BY <1>1 DEF ConsumerTypeOK
  <2> QED  BY <2>1, <1>2, <1>3 DEF Moves, GoodTask
<1>21. CASE ReadNew(h)
  <2>1. PICK e \in Entries : ReadNewEntry(e) /\ (Deliver(h, e, "new") \/ UNCHANGED hs)
    BY <1>21 DEF ReadNew
  <2>2. budget' \in Nat /\ SubmissionsTypeOK' /\ UNCHANGED up
    BY <1>21, <1>5 DEF ReadNew
  <2>3. JobStreamTypeOK'
    BY <1>1, <2>1, JobStreamTypes
  <2> QED  BY <2>1, <2>2, <2>3, <1>19, <1>20
<1>22. CASE AutoClaim(h)
  <2>1. PICK e \in idle : \/ AutoClaimEntry(e) /\ Deliver(h, e, "reclaim")
                          \/ AckDeletedEntry(e) /\ UNCHANGED hs
    BY <1>22 DEF AutoClaim
  <2>2. e \in Entries
    BY <1>1 DEF JobStreamTypeOK
  <2>3. budget' \in Nat /\ SubmissionsTypeOK' /\ UNCHANGED up
    BY <1>22, <1>5 DEF AutoClaim
  <2>4. JobStreamTypeOK'
    BY <1>1, <2>1, JobStreamTypes
  <2> QED  BY <2>1, <2>2, <2>3, <2>4, <1>19, <1>20
<1> QED  BY <1>6, <1>7, <1>8, <1>9, <1>10, <1>11, <1>12, <1>13, <1>14, <1>15,
            <1>16, <1>17, <1>18, <1>21, <1>22 DEF HandlerStep

(* ... by worker starts and crashes, and by the passing of time ... *)
LEMMA WorkerKeepsTypes ==
    ASSUME TypeInv, UNCHANGED <<outboxVars, repairVars>>,
           \/ \E w \in Workers : StartWorker(w) \/ CrashWorker(w)
           \/ \E j \in Jobs : LeasePasses(j) \/ KeyExpires(j)
           \/ \E e \in pel : IdlePasses(e)
    PROVE  TypeInv'
<1>1. SubmissionsTypeOK /\ JobStreamTypeOK /\ ConsumerTypeOK /\ budget \in Nat
  BY DEF TypeInv, TypeOK
<1>2. DispatcherTypeOK' /\ RepairTypeOK'
  BY DEF TypeInv, TypeOK, DispatcherTypeOK, RepairTypeOK, outboxVars, repairVars
<1>3. \A d \in Dispatchers : dpc'[d] # "next" => cur'[d] \in Jobs
  BY DEF TypeInv, InFlightNamesJob, outboxVars
<1>4. SUFFICES /\ SubmissionsTypeOK' /\ JobStreamTypeOK' /\ ConsumerTypeOK' /\ budget' \in Nat
               /\ \A h \in Handlers : hs'[h].pc # "free" => hs'[h].job \in Jobs
  BY <1>2, <1>3 DEF TypeInv, TypeOK, InFlightNamesJob
<1>5. \A h \in Handlers : hs[h].pc # "free" => hs[h].job \in Jobs
  BY DEF TypeInv, InFlightNamesJob
<1>6. /\ UNCHANGED sub => SubmissionsTypeOK'
      /\ UNCHANGED redisVars => JobStreamTypeOK'
      /\ UNCHANGED consumerVars => ConsumerTypeOK'
      /\ NoFault => budget' \in Nat
      /\ \A kind : Fault(kind) => budget' \in Nat
  BY <1>1, BudgetTypes, JobStreamTypes DEF SubmissionsTypeOK, ConsumerTypeOK, consumerVars
<1>7. ASSUME NEW w \in Workers, StartWorker(w)
      PROVE  /\ SubmissionsTypeOK' /\ JobStreamTypeOK' /\ ConsumerTypeOK' /\ budget' \in Nat
             /\ UNCHANGED hs
  <2>1. SubmissionsTypeOK' /\ budget' \in Nat /\ UNCHANGED hs
    BY <1>7, <1>6 DEF StartWorker
  <2>2. JobStreamTypeOK'
    BY <1>7, <1>1, JobStreamTypes DEF StartWorker
  <2>3. ConsumerTypeOK'
    BY <1>7, <1>1 DEF StartWorker, ConsumerTypeOK
  <2> QED  BY <2>1, <2>2, <2>3
<1>8. ASSUME NEW w \in Workers, CrashWorker(w)
      PROVE  /\ SubmissionsTypeOK' /\ JobStreamTypeOK' /\ ConsumerTypeOK' /\ budget' \in Nat
             /\ \A h \in Handlers : hs'[h].pc # "free" => hs'[h].job \in Jobs
  <2>1. SubmissionsTypeOK' /\ JobStreamTypeOK' /\ budget' \in Nat
    BY <1>8, <1>6, Zenon DEF CrashWorker
  <2>2. hs' = [h \in Handlers |-> IF WorkerOf(h) = w THEN FreeSlot ELSE hs[h]]
    BY <1>8 DEF CrashWorker
  <2>3. \A h \in Handlers : hs[h] \in Task /\ FreeSlot \in Task
    BY <1>1, TaskTypes
  <2>4. hs' \in [Handlers -> Task]
    BY <2>2, <2>3
  <2>5. up' \in [Workers -> {"down", "up", "idle"}]
    BY <1>8, <1>1 DEF CrashWorker, ConsumerTypeOK
  <2>6. \A h \in Handlers : hs'[h].pc # "free" => hs'[h].job \in Jobs
    BY <1>5, <2>2 DEF FreeSlot
  <2> QED  BY <2>1, <2>4, <2>5, <2>6 DEF ConsumerTypeOK
<1>9. ASSUME NEW j \in Jobs, LeasePasses(j)
      PROVE  /\ SubmissionsTypeOK' /\ JobStreamTypeOK' /\ ConsumerTypeOK' /\ budget' \in Nat
             /\ UNCHANGED hs
  <2>1. JobStreamTypeOK' /\ ConsumerTypeOK' /\ budget' \in Nat /\ UNCHANGED hs
    BY <1>9, <1>6, Zenon DEF LeasePasses, consumerVars
  <2>2. SubmissionsTypeOK'
    <3>1. LeaseExpires(j)
      BY <1>9 DEF LeasePasses
    <3> QED  BY <3>1, <1>1 DEF LeaseExpires, SubmissionsTypeOK, Row
  <2> QED  BY <2>1, <2>2
<1>10. ASSUME NEW j \in Jobs, KeyExpires(j)
       PROVE  /\ SubmissionsTypeOK' /\ JobStreamTypeOK' /\ ConsumerTypeOK' /\ budget' \in Nat
              /\ UNCHANGED hs
  <2>1. SubmissionsTypeOK' /\ ConsumerTypeOK' /\ budget' \in Nat /\ UNCHANGED hs
    BY <1>10, <1>6 DEF KeyExpires, consumerVars
  <2>2. JobStreamTypeOK'
    BY <1>10, <1>1, JobStreamTypes DEF KeyExpires
  <2> QED  BY <2>1, <2>2
<1>11. ASSUME NEW e \in pel, IdlePasses(e)
       PROVE  /\ SubmissionsTypeOK' /\ JobStreamTypeOK' /\ ConsumerTypeOK' /\ budget' \in Nat
              /\ UNCHANGED hs
  <2>1. SubmissionsTypeOK' /\ ConsumerTypeOK' /\ budget' \in Nat /\ UNCHANGED hs
    BY <1>11, <1>6, Zenon DEF IdlePasses, consumerVars
  <2>2. JobStreamTypeOK'
    BY <1>11, <1>1, JobStreamTypes DEF IdlePasses
  <2> QED  BY <2>1, <2>2
<1> QED  BY <1>5, <1>7, <1>8, <1>9, <1>10, <1>11

(* ... by the dispatchers ... *)
LEMMA DispatcherKeepsTypes ==
    ASSUME TypeInv, DispatcherNext, UNCHANGED <<sub, consumerVars, repairVars>>
    PROVE  TypeInv'
<1>1. JobStreamTypeOK /\ DispatcherTypeOK /\ budget \in Nat
  BY DEF TypeInv, TypeOK
<1>2. SubmissionsTypeOK' /\ ConsumerTypeOK' /\ RepairTypeOK'
  BY DEF TypeInv, TypeOK, SubmissionsTypeOK, ConsumerTypeOK, RepairTypeOK,
         consumerVars, repairVars
<1>3. \A h \in Handlers : hs'[h].pc # "free" => hs'[h].job \in Jobs
  BY DEF TypeInv, InFlightNamesJob, consumerVars
<1> DEFINE Named == \A d \in Dispatchers : dpc[d] # "next" => cur[d] \in Jobs
<1>4. Named
  BY DEF TypeInv, InFlightNamesJob
<1>5. SUFFICES JobStreamTypeOK' /\ DispatcherTypeOK' /\ budget' \in Nat /\ Named'
  BY <1>2, <1>3 DEF TypeInv, TypeOK, InFlightNamesJob
<1>6. /\ UNCHANGED redisVars => JobStreamTypeOK'
      /\ NoFault => budget' \in Nat
      /\ \A kind : Fault(kind) => budget' \in Nat
  BY <1>1, BudgetTypes, JobStreamTypes
<1>7. ASSUME NEW d \in Dispatchers, ClaimPendingOutboxEvents(d)
      PROVE  JobStreamTypeOK' /\ DispatcherTypeOK' /\ budget' \in Nat /\ Named'
  BY <1>1, <1>4, <1>6, <1>7 DEF ClaimPendingOutboxEvents, DispatcherTypeOK
<1>8. ASSUME NEW d \in Dispatchers, NEW j \in Jobs, DispatchSet(d, j)
      PROVE  JobStreamTypeOK' /\ DispatcherTypeOK' /\ budget' \in Nat /\ Named'
  <2>1. JobStreamTypeOK' /\ budget' \in Nat
    BY <1>1, <1>6, <1>8, JobStreamTypes DEF DispatchSet
  <2>2. DispatcherTypeOK' /\ Named'
    BY <1>1, <1>4, <1>8 DEF DispatchSet, DispatcherTypeOK
  <2> QED  BY <2>1, <2>2
<1>9. ASSUME NEW d \in Dispatchers, DispatchXAdd(d)
      PROVE  JobStreamTypeOK' /\ DispatcherTypeOK' /\ budget' \in Nat /\ Named'
  <2>1. cur[d] \in Jobs
    BY <1>4, <1>9 DEF DispatchXAdd
  <2>2. JobStreamTypeOK' /\ budget' \in Nat
    BY <1>1, <1>6, <1>9, <2>1, JobStreamTypes DEF DispatchXAdd
  <2>3. DispatcherTypeOK' /\ Named'
    BY <1>1, <1>4, <1>9 DEF DispatchXAdd, DispatcherTypeOK
  <2> QED  BY <2>2, <2>3
<1>10. ASSUME NEW d \in Dispatchers, DispatchDel(d)
       PROVE  JobStreamTypeOK' /\ DispatcherTypeOK' /\ budget' \in Nat /\ Named'
  <2>1. cur[d] \in Jobs
    BY <1>4, <1>10 DEF DispatchDel
  <2>2. JobStreamTypeOK' /\ budget' \in Nat
    BY <1>1, <1>6, <1>10, <2>1, JobStreamTypes DEF DispatchDel
  <2>3. DispatcherTypeOK' /\ Named'
    BY <1>1, <1>4, <1>10 DEF DispatchDel, FinishEvent, DispatcherTypeOK
  <2> QED  BY <2>2, <2>3
<1>11. ASSUME NEW d \in Dispatchers, DispatchMark(d)
       PROVE  JobStreamTypeOK' /\ DispatcherTypeOK' /\ budget' \in Nat /\ Named'
  <2>1. cur[d] \in Jobs
    BY <1>4, <1>11 DEF DispatchMark
  <2>2. JobStreamTypeOK' /\ budget' \in Nat
    BY <1>6, <1>11 DEF DispatchMark
  <2>3. DispatcherTypeOK' /\ Named'
    BY <1>1, <1>4, <1>11, <2>1 DEF DispatchMark, FinishEvent, DispatcherTypeOK
  <2> QED  BY <2>2, <2>3
<1>12. ASSUME NEW d \in Dispatchers, CrashDispatcher(d)
       PROVE  JobStreamTypeOK' /\ DispatcherTypeOK' /\ budget' \in Nat /\ Named'
  BY <1>1, <1>4, <1>6, <1>12 DEF CrashDispatcher, DispatcherTypeOK
<1>13. ASSUME NEW j \in Jobs, BackoffElapses(j)
       PROVE  JobStreamTypeOK' /\ DispatcherTypeOK' /\ budget' \in Nat /\ Named'
  <2>1. JobStreamTypeOK' /\ budget' \in Nat
    BY <1>6, <1>13, Zenon DEF BackoffElapses
  <2>2. DispatcherTypeOK' /\ Named'
    BY <1>1, <1>4, <1>13 DEF BackoffElapses, DispatcherTypeOK
  <2> QED  BY <2>1, <2>2
<1> QED  BY <1>7, <1>8, <1>9, <1>10, <1>11, <1>12, <1>13 DEF DispatcherNext, DispatcherStep

(* ... by the control plane and by submissions. *)
LEMMA ControlPlaneKeepsTypes ==
    ASSUME TypeInv, ControlPlaneNext, UNCHANGED <<outboxVars, consumerVars>>
    PROVE  TypeInv'
<1>1. SubmissionsTypeOK /\ JobStreamTypeOK /\ RepairTypeOK /\ budget \in Nat
  BY DEF TypeInv, TypeOK
<1>2. DispatcherTypeOK' /\ ConsumerTypeOK' /\ InFlightNamesJob'
  BY DEF TypeInv, TypeOK, DispatcherTypeOK, ConsumerTypeOK, InFlightNamesJob,
         consumerVars, outboxVars
<1>3. SUFFICES SubmissionsTypeOK' /\ JobStreamTypeOK' /\ RepairTypeOK' /\ budget' \in Nat
  BY <1>2 DEF TypeInv, TypeOK
<1>4. /\ UNCHANGED sub => SubmissionsTypeOK'
      /\ UNCHANGED redisVars => JobStreamTypeOK'
      /\ UNCHANGED repairVars => RepairTypeOK'
      /\ NoFault => budget' \in Nat
      /\ \A kind : Fault(kind) => budget' \in Nat
  BY <1>1, BudgetTypes, JobStreamTypes DEF SubmissionsTypeOK, RepairTypeOK, repairVars
<1>5. CASE RepairScan
  BY <1>1, <1>4, <1>5 DEF RepairScan, RepairTypeOK
<1>6. CASE RepairXAdd
  <2>1. repairing \in Jobs
    BY <1>1, <1>6 DEF RepairXAdd, RepairTypeOK
  <2>2. JobStreamTypeOK'
    BY <1>1, <1>4, <1>6, <2>1, JobStreamTypes DEF RepairXAdd
  <2>3. SubmissionsTypeOK' /\ RepairTypeOK' /\ budget' \in Nat
    BY <1>1, <1>4, <1>6 DEF RepairXAdd, RepairTypeOK
  <2> QED  BY <2>2, <2>3
<1>7. ASSUME NEW j \in Jobs, RepairSetPayload(j)
      PROVE  SubmissionsTypeOK' /\ JobStreamTypeOK' /\ RepairTypeOK' /\ budget' \in Nat
  <2>1. JobStreamTypeOK'
    BY <1>1, <1>4, <1>7, JobStreamTypes DEF RepairSetPayload
  <2>2. SubmissionsTypeOK' /\ RepairTypeOK' /\ budget' \in Nat
    BY <1>1, <1>4, <1>7 DEF RepairSetPayload, RepairTypeOK
  <2> QED  BY <2>1, <2>2
<1>8. CASE StreamTrim
  BY <1>1, <1>4, <1>8, JobStreamTypes DEF StreamTrim
<1>9. ASSUME NEW j \in Jobs, GcDone(j)
      PROVE  SubmissionsTypeOK' /\ JobStreamTypeOK' /\ RepairTypeOK' /\ budget' \in Nat
  <2>1. JobStreamTypeOK' /\ RepairTypeOK' /\ budget' \in Nat
    BY <1>4, <1>9 DEF GcDone
  <2>2. SubmissionsTypeOK'
    <3>1. DeleteOldDoneSubmission(j)
      BY <1>9 DEF GcDone
    <3> QED  BY <3>1, <1>1 DEF DeleteOldDoneSubmission, SubmissionsTypeOK, Row, RowState
  <2> QED  BY <2>1, <2>2
<1> QED  BY <1>5, <1>6, <1>7, <1>8, <1>9 DEF ControlPlaneNext, RepairStep

(* TypeInv is kept by an accepted submission: row and event are inserted  *)
(* together (CreateSubmissionAndOutbox).                                   *)
LEMMA SubmitKeepsTypes ==
    ASSUME TypeInv, NEW j \in Jobs, Submit(j)
    PROVE  TypeInv'
<1>1. SubmissionsTypeOK'
  BY DEF Submit, CreateSubmission, AbsentRow, TypeInv, TypeOK, SubmissionsTypeOK, Row, RowState
<1>2. JobStreamTypeOK' /\ budget' \in Nat
  BY JobStreamTypes, BudgetTypes DEF Submit, TypeInv, TypeOK
<1>3. DispatcherTypeOK' /\ InFlightNamesJob'
  BY DEF Submit, InsertOutboxEvent, TypeInv, TypeOK, DispatcherTypeOK, InFlightNamesJob,
         consumerVars
<1>4. ConsumerTypeOK' /\ RepairTypeOK'
  BY DEF Submit, TypeInv, TypeOK, ConsumerTypeOK, RepairTypeOK, consumerVars, repairVars
<1> QED  BY <1>1, <1>2, <1>3, <1>4 DEF TypeInv, TypeOK

(* TypeInv holds initially: no rows, an empty stream, workers down.        *)
LEMMA InitTypes == Init => TypeInv
<1> SUFFICES ASSUME Init  PROVE TypeInv
  OBVIOUS
<1>1. SubmissionsTypeOK
  BY DEF Init, SubmissionsInit, AbsentRow, SubmissionsTypeOK, Row, RowState
<1>2. JobStreamTypeOK
  BY FirstBootAssumption DEF Init, JobStreamInit, JobStreamTypeOK, Entries
<1>3. budget \in Nat
  BY MaxFaultsAssumption DEF Init, FaultsInit
<1>4. DispatcherTypeOK
  BY DEF Init, DispatcherInit, DispatcherTypeOK
<1>5. ConsumerTypeOK
  BY DEF Init, ConsumerInit, ConsumerTypeOK, FreeSlot, Task, PC
<1>6. RepairTypeOK
  BY DEF Init, RepairInit, RepairTypeOK
<1>7. InFlightNamesJob
  BY DEF Init, ConsumerInit, DispatcherInit, FreeSlot, InFlightNamesJob
<1> QED  BY <1>1, <1>2, <1>3, <1>4, <1>5, <1>6, <1>7 DEF TypeInv, TypeOK

(* TypeInv is kept by every step of the data plane.                        *)
LEMMA NextKeepsTypes == TypeInv /\ [Next]_vars => TypeInv'
<1> SUFFICES ASSUME TypeInv, [Next]_vars  PROVE TypeInv'
  OBVIOUS
<1>1. CASE UNCHANGED vars
  BY <1>1 DEF vars, redisVars, outboxVars, consumerVars, repairVars, TypeInv, TypeOK,
     SubmissionsTypeOK, JobStreamTypeOK, Entries, DispatcherTypeOK, ConsumerTypeOK,
     RepairTypeOK, InFlightNamesJob
<1>2. CASE \E j \in Jobs : Submit(j)
  BY <1>2, SubmitKeepsTypes
<1>3. CASE DispatcherNext /\ UNCHANGED <<sub, consumerVars, repairVars>>
  BY <1>3, DispatcherKeepsTypes
<1>4. CASE ConsumerNext /\ UNCHANGED <<outboxVars, repairVars>>
  BY <1>4, HandlerKeepsTypes, WorkerKeepsTypes DEF ConsumerNext
<1>5. CASE ControlPlaneNext /\ UNCHANGED <<outboxVars, consumerVars>>
  BY <1>5, ControlPlaneKeepsTypes
<1> QED  BY <1>1, <1>2, <1>3, <1>4, <1>5 DEF Next

(* Type correctness: pending entries exist in the stream, an idle entry is *)
(* pending, and every variable keeps its type (TypeOK of JobPipeline).     *)
THEOREM TypeCorrect == Spec => []TypeOK
<1>1. TypeInv => TypeOK
  BY DEF TypeInv
<1> QED  BY <1>1, InitTypes, NextKeepsTypes, PTL DEF Spec

(* The strengthened form, for the theorems below. *)
THEOREM TypeInvariance == Spec => []TypeInv
BY InitTypes, NextKeepsTypes, PTL DEF Spec

---------------------------------------------------------------------------
(* The fence.  A step of the whole pipeline is first reduced to what it    *)
(* can do to a row (SubmissionChanges), to a result key (ResultChanges)    *)
(* and to the tokens handlers hold (TokenChanges); the inductive invariant *)
(* FenceInv is then shown from these three.                                *)

\* Handler h stays where it is, with the token it has.
StaysPut(h) ==
    \E t : /\ hs' = [hs EXCEPT ![h] = t]
          /\ t.pc = hs[h].pc /\ t.job = hs[h].job /\ t.att = hs[h].att

\* What handler h does to the row of its own job, and where it goes from there.
HandlerWrites(h) ==
    LET j == hs[h].job
        w == WorkerOf(h)
    IN  /\ j \in Jobs
        /\ \/ /\ hs[h].pc = "claim"
              /\ ClaimSubmissionForRun(j, w)
              /\ StartRun(h) \/ Release(h)
           \/ /\ hs[h].pc = "reclaim"
              /\ ReclaimSubmissionForRun(j, w)
              /\ StartRun(h) \/ Release(h)
           \/ /\ hs[h].pc = "poison"
              /\ MarkSubmissionPoison(j)
              /\ Goto(h, "ack") \/ Release(h)
           \/ /\ Executing(h)
              /\ RefreshSubmissionLease(j, hs[h].att, w)
              /\ StaysPut(h)
           \/ /\ hs[h].pc = "finalize"
              /\ FinalizeSubmissionWithFence(j, hs[h].att, w, hs[h].src)
              /\ Goto(h, "ack") \/ Release(h)

(* The heartbeat touches nothing of its handler but the error counter and  *)
(* the lost flag.                                                          *)
LEMMA HeartbeatStaysPut ==
    ASSUME TypeInv, NEW h \in Handlers, Heartbeat(h) \/ HeartbeatCancelled(h)
    PROVE  Executing(h) /\ hs[h].pc # "finalize" /\ StaysPut(h)
<1>1. hs[h] \in Task
  BY DEF TypeInv, TypeOK, ConsumerTypeOK
<1>2. Executing(h) /\ hs[h].pc # "finalize"
  BY DEF Heartbeat, HeartbeatCancelled, Executing
<1>3. CASE hs' = [hs EXCEPT ![h] = [hs[h] EXCEPT !.errs = 0]]
  <2>1. StaysPut(h)
    <3> USE DEF StaysPut
    <3> WITNESS [hs[h] EXCEPT !.errs = 0]
    <3> QED  BY <1>1, <1>3 DEF Task
  <2> QED  BY <1>2, <2>1
<1>4. CASE \E n, b : hs' = [hs EXCEPT ![h] = [hs[h] EXCEPT !.errs = n, !.lost = b]]
  <2>1. StaysPut(h)
    BY <1>1, <1>4 DEF Task, StaysPut
  <2> QED  BY <1>2, <2>1
<1>5. CASE hs' = [hs EXCEPT ![h] = [hs[h] EXCEPT !.lost = TRUE]]
  <2>1. StaysPut(h)
    <3> USE DEF StaysPut
    <3> WITNESS [hs[h] EXCEPT !.lost = TRUE]
    <3> QED  BY <1>1, <1>5 DEF Task
  <2> QED  BY <1>2, <2>1
<1> QED  BY <1>3, <1>4, <1>5, Zenon DEF Heartbeat, HeartbeatCancelled

(* A row changes by a submission, by a handler of its job, by retention or *)
(* by the clock, and in no other way.                                      *)
LEMMA SubmissionChanges ==
    ASSUME TypeInv, [Next]_vars
    PROVE  \/ UNCHANGED sub
           \/ \E j \in Jobs :
                 /\ Submit(j) \/ DeleteOldDoneSubmission(j) \/ LeaseExpires(j)
                 /\ UNCHANGED hs
           \/ \E h \in Handlers : HandlerWrites(h)
<1>1. \A h \in Handlers : hs[h].pc # "free" => hs[h].job \in Jobs
  BY DEF TypeInv, InFlightNamesJob
<1>2. CASE UNCHANGED vars
  BY <1>2 DEF vars
<1>3. CASE \E j \in Jobs : Submit(j)
  BY <1>3 DEF Submit, consumerVars
<1>4. CASE DispatcherNext /\ UNCHANGED <<sub, consumerVars, repairVars>>
  BY <1>4
<1>5. CASE ControlPlaneNext /\ UNCHANGED <<outboxVars, consumerVars>>
  <2>1. UNCHANGED sub \/ \E j \in Jobs : DeleteOldDoneSubmission(j)
    BY <1>5, Zenon DEF ControlPlaneNext, RepairStep, RepairScan, RepairXAdd, RepairSetPayload,
              StreamTrim, GcDone
  <2>2. UNCHANGED hs
    BY <1>5 DEF consumerVars
  <2> QED  BY <2>1, <2>2
<1>6. CASE ConsumerNext /\ UNCHANGED <<outboxVars, repairVars>>
  <2>1. ASSUME NEW w \in Workers, StartWorker(w) \/ CrashWorker(w)
        PROVE  UNCHANGED sub
    BY <2>1 DEF StartWorker, CrashWorker
  <2>2. ASSUME NEW j \in Jobs, LeasePasses(j) \/ KeyExpires(j)
        PROVE  (LeaseExpires(j) /\ UNCHANGED hs) \/ UNCHANGED sub
    BY <2>2 DEF LeasePasses, KeyExpires
  <2>3. ASSUME NEW e \in pel, IdlePasses(e)
        PROVE  UNCHANGED sub
    BY <2>3 DEF IdlePasses
  <2>4. ASSUME NEW h \in Handlers, ReadNew(h) \/ AutoClaim(h) \/ HeartbeatCancelled(h)
        PROVE  UNCHANGED sub
    BY <2>4, Zenon DEF ReadNew, AutoClaim, HeartbeatCancelled
  <2>5. ASSUME NEW h \in Handlers, Heartbeat(h)
        PROVE  UNCHANGED sub \/ HandlerWrites(h)
    <3>1. hs[h].job \in Jobs /\ Executing(h) /\ StaysPut(h)
      BY <1>1, <2>5, HeartbeatStaysPut DEF Heartbeat
    <3>2. UNCHANGED sub \/ RefreshSubmissionLease(hs[h].job, hs[h].att, WorkerOf(h))
      BY <2>5, Zenon DEF Heartbeat
    <3> QED  BY <3>1, <3>2, Zenon DEF HandlerWrites
  <2>6. ASSUME NEW h \in Handlers, Claim(h) \/ Reclaim(h) \/ MarkPoison(h)
        PROVE  UNCHANGED sub \/ HandlerWrites(h)
    <3>1. hs[h].job \in Jobs
      BY <1>1, <2>6 DEF Claim, Reclaim, MarkPoison
    <3> QED  BY <2>6, <3>1, Zenon DEF Claim, Reclaim, MarkPoison, HandlerWrites
  <2>7. ASSUME NEW h \in Handlers, Finalize(h)
        PROVE  UNCHANGED sub \/ HandlerWrites(h)
    <3>1. hs[h].job \in Jobs /\ hs[h].pc = "finalize"
      BY <1>1, <2>7 DEF Finalize
    <3> QED  BY <2>7, <3>1, Zenon DEF Finalize, HandlerWrites
  <2>8. ASSUME NEW h \in Handlers, FetchPayload(h) \/ InspectReclaim(h) \/ ExecuteTask(h)
               \/ JoinHeartbeat(h) \/ ResolveFinalResult(h) \/ ExplainReject(h) \/ Ack(h)
        PROVE  UNCHANGED sub
    BY <2>8, Zenon DEF FetchPayload, InspectReclaim, ExecuteTask, JoinHeartbeat,
              ResolveFinalResult, ExplainReject, Ack
  <2> QED  BY <1>6, <2>1, <2>2, <2>3, <2>4, <2>5, <2>6, <2>7, <2>8
           DEF ConsumerNext, HandlerStep
<1> QED  BY <1>2, <1>3, <1>4, <1>5, <1>6 DEF Next

---------------------------------------------------------------------------
(* What every row satisfies on its own: only a running row has a lease, a  *)
(* row that is not over has no verdict, and an accepted row has attempt 0  *)
(* until its first claim.                                                  *)
RowOK(j) ==
    /\ sub[j].state = "none" => sub[j].attempt = 0 /\ sub[j].by = 0
    /\ sub[j].state # "processing" => sub[j].lease = "null"
    /\ sub[j].state \in {"none", "pending", "processing"} => sub[j].verdict = "none"
    /\ sub[j].verdict = "judged" =>
          sub[j].by = sub[j].attempt /\ sub[j].src \in 1..sub[j].attempt

RowInv == \A j \in Jobs : RowOK(j)

\* The attempt of the result a handler is about to write is one of its job's.
SourceInv ==
    \A h \in Handlers : hs[h].pc = "finalize" =>
        hs[h].src \in 1..sub[hs[h].job].attempt

ResultInv == \A j \in Jobs : resultKey[j] <= sub[j].attempt

FenceInv ==
    /\ TypeInv
    /\ RowInv
    /\ UniqueExecutor
    /\ TokenFromRow
    /\ SourceInv
    /\ ResultInv

(* Rows stay as RowOK says. *)
LEMMA RowsStayOK ==
    ASSUME FenceInv, [Next]_vars
    PROVE  RowInv'
<1>1. sub \in [Jobs -> Row] /\ RowInv
  BY DEF FenceInv, TypeInv, TypeOK, SubmissionsTypeOK
<1>2. CASE UNCHANGED sub
  BY <1>1, <1>2 DEF RowInv, RowOK
<1>3. ASSUME NEW k \in Jobs, Submit(k)
      PROVE  RowInv'
  <2>1. CreateSubmission(k)
    BY <1>3 DEF Submit
  <2> QED  BY <1>1, <2>1 DEF CreateSubmission, AbsentRow, RowInv, RowOK, Row
<1>4. ASSUME NEW k \in Jobs, DeleteOldDoneSubmission(k)
      PROVE  RowInv'
  BY <1>1, <1>4 DEF DeleteOldDoneSubmission, RowInv, RowOK, Row
<1>5. ASSUME NEW k \in Jobs, LeaseExpires(k)
      PROVE  RowInv'
  BY <1>1, <1>5 DEF LeaseExpires, RowInv, RowOK, Row
<1>6. ASSUME NEW h \in Handlers, HandlerWrites(h)
      PROVE  RowInv'
  <2> DEFINE k == hs[h].job
             w == WorkerOf(h)
  <2>1. k \in Jobs
    BY <1>6 DEF HandlerWrites
  <2>2. CASE ClaimSubmissionForRun(k, w)
    BY <1>1, <2>1, <2>2 DEF ClaimSubmissionForRun, ClaimMatches, RowInv, RowOK, Row
  <2>3. CASE ReclaimSubmissionForRun(k, w)
    BY <1>1, <2>1, <2>3 DEF ReclaimSubmissionForRun, ReclaimMatches, Running, RowInv, RowOK, Row
  <2>4. CASE MarkSubmissionPoison(k)
    <3>1. CASE PoisonMatches(k)
      <4>1. sub' = [sub EXCEPT ![k] = [sub[k] EXCEPT !.state = "done", !.owner = None,
                                         !.lease = "null", !.verdict = "poison"]]
        BY <2>4, <3>1 DEF MarkSubmissionPoison
      <4> QED  BY <1>1, <2>1, <4>1 DEF RowInv, RowOK, Row
    <3>2. CASE ~PoisonMatches(k)
      BY <1>2, <2>4, <3>2 DEF MarkSubmissionPoison
    <3> QED  BY <3>1, <3>2
  <2>5. CASE RefreshSubmissionLease(k, hs[h].att, w)
    BY <1>1, <2>1, <2>5 DEF RefreshSubmissionLease, RefreshMatches, Running, RowInv, RowOK, Row
  <2>6. CASE hs[h].pc = "finalize" /\ FinalizeSubmissionWithFence(k, hs[h].att, w, hs[h].src)
    <3>1. hs[h].src \in 1..sub[k].attempt
      BY <2>6 DEF FenceInv, SourceInv
    <3> QED  BY <1>1, <2>1, <2>6, <3>1
             DEF FinalizeSubmissionWithFence, FinalizeMatches, Running, RowInv, RowOK, Row
  <2> QED  BY <1>6, <2>2, <2>3, <2>4, <2>5, <2>6 DEF HandlerWrites
<1>7. TypeInv
  BY DEF FenceInv
<1> QED  BY <1>2, <1>3, <1>4, <1>5, <1>6, <1>7, SubmissionChanges

(* The fencing token of a row never goes back, and while it does not move, *)
(* a row that runs has been running all along for the same owner.          *)
LEMMA AttemptMonotone ==
    ASSUME TypeInv, RowInv, [Next]_vars, NEW j \in Jobs
    PROVE  /\ sub'[j].attempt \in Nat
           /\ sub[j].attempt <= sub'[j].attempt
           /\ sub'[j].attempt = sub[j].attempt /\ sub'[j].state = "processing"
                 => sub[j].state = "processing" /\ sub'[j].owner = sub[j].owner
<1>1. sub \in [Jobs -> Row]
  BY DEF TypeInv, TypeOK, SubmissionsTypeOK
<1> DEFINE Goal == /\ sub'[j].attempt \in Nat
                   /\ sub[j].attempt <= sub'[j].attempt
                   /\ sub'[j].attempt = sub[j].attempt /\ sub'[j].state = "processing"
                        => sub[j].state = "processing" /\ sub'[j].owner = sub[j].owner
<1>2. CASE UNCHANGED sub
  BY <1>1, <1>2 DEF Row
<1>3. ASSUME NEW k \in Jobs,
             Submit(k) \/ DeleteOldDoneSubmission(k) \/ LeaseExpires(k)
      PROVE  Goal
  <2>1. CreateSubmission(k) \/ DeleteOldDoneSubmission(k) \/ LeaseExpires(k)
    BY <1>3 DEF Submit
  <2> QED  BY <1>1, <2>1 DEF CreateSubmission, AbsentRow, DeleteOldDoneSubmission, LeaseExpires,
                    RowInv, RowOK, Row
<1>4. ASSUME NEW h \in Handlers, HandlerWrites(h)
      PROVE  Goal
  <2> DEFINE k == hs[h].job
             w == WorkerOf(h)
  <2>1. k \in Jobs
    BY <1>4 DEF HandlerWrites
  <2>2. CASE ClaimSubmissionForRun(k, w)
    BY <1>1, <2>1, <2>2 DEF ClaimSubmissionForRun, Row
  <2>3. CASE ReclaimSubmissionForRun(k, w)
    BY <1>1, <2>1, <2>3 DEF ReclaimSubmissionForRun, Row
  <2>4. CASE MarkSubmissionPoison(k)
    <3>1. CASE PoisonMatches(k)
      <4>1. sub' = [sub EXCEPT ![k] = [sub[k] EXCEPT !.state = "done", !.owner = None,
                                         !.lease = "null", !.verdict = "poison"]]
        BY <2>4, <3>1 DEF MarkSubmissionPoison
      <4> QED  BY <1>1, <2>1, <4>1 DEF Row
    <3>2. CASE ~PoisonMatches(k)
      BY <1>2, <2>4, <3>2 DEF MarkSubmissionPoison
    <3> QED  BY <3>1, <3>2
  <2>5. CASE RefreshSubmissionLease(k, hs[h].att, w)
    BY <1>1, <2>1, <2>5 DEF RefreshSubmissionLease, Row
  <2>6. CASE FinalizeSubmissionWithFence(k, hs[h].att, w, hs[h].src)
    BY <1>1, <2>1, <2>6 DEF FinalizeSubmissionWithFence, Row
  <2> QED  BY <1>4, <2>2, <2>3, <2>4, <2>5, <2>6 DEF HandlerWrites
<1> QED  BY <1>2, <1>3, <1>4, SubmissionChanges

---------------------------------------------------------------------------
\* An executing handler was executing before, under the same token; a result
\* it has just chosen comes from its own execution or from the result key.
TokenKept(h) ==
    Executing(h)' =>
        /\ Executing(h)
        /\ hs'[h].job = hs[h].job
        /\ hs'[h].att = hs[h].att
        /\ hs'[h].pc = "finalize" =>
              \/ hs[h].pc = "finalize" /\ hs'[h].src = hs[h].src
              \/ hs'[h].src = hs[h].att
              \/ hs'[h].src = resultKey[hs[h].job] /\ hs'[h].src # 0

\* Handler h enters execution with the attempt_id its statement returned.
Starts(h) ==
    /\ hs[h].job \in Jobs
    /\ \/ ClaimSubmissionForRun(hs[h].job, WorkerOf(h))
       \/ ReclaimSubmissionForRun(hs[h].job, WorkerOf(h))
    /\ StartRun(h)

(* A handler that leaves execution, or moves on inside it, keeps tokens.   *)
LEMMA SimpleMoves ==
    ASSUME ConsumerTypeOK, NEW h \in Handlers
    PROVE  /\ Release(h) => \A g \in Handlers : TokenKept(g)
           /\ \A p \in PC \ {"run", "ran", "resolve", "finalize"} :
                 Goto(h, p) => \A g \in Handlers : TokenKept(g)
           /\ Executing(h) => \A p \in {"ran", "resolve"} :
                 Goto(h, p) => \A g \in Handlers : TokenKept(g)
           /\ UNCHANGED hs => \A g \in Handlers : TokenKept(g)
<1>1. hs \in [Handlers -> Task]
  BY DEF ConsumerTypeOK
<1>2. Release(h) => \A g \in Handlers : TokenKept(g)
  BY <1>1 DEF Release, FreeSlot, TokenKept, Executing
<1>3. \A p \in PC \ {"run", "ran", "resolve", "finalize"} :
        Goto(h, p) => \A g \in Handlers : TokenKept(g)
  BY <1>1 DEF Goto, Task, TokenKept, Executing
<1>4. Executing(h) => \A p \in {"ran", "resolve"} :
        Goto(h, p) => \A g \in Handlers : TokenKept(g)
  BY <1>1 DEF Goto, Task, TokenKept, Executing
<1>5. UNCHANGED hs => \A g \in Handlers : TokenKept(g)
  BY DEF TokenKept, Executing
<1> QED  BY <1>2, <1>3, <1>4, <1>5

(* Tokens are handed out by a claim or a takeover and in no other way. *)
LEMMA TokenChanges ==
    ASSUME TypeInv, [Next]_vars
    PROVE  \/ \A g \in Handlers : TokenKept(g)
           \/ \E h \in Handlers : Starts(h)
<1> DEFINE Kept == \A g \in Handlers : TokenKept(g)
<1>1. /\ ConsumerTypeOK
      /\ hs \in [Handlers -> Task]
  BY DEF TypeInv, TypeOK, ConsumerTypeOK
<1>2. \A h \in Handlers : hs[h].pc # "free" => hs[h].job \in Jobs
  BY DEF TypeInv, InFlightNamesJob
<1>3. UNCHANGED hs => Kept
  BY DEF TokenKept, Executing
<1>4. ASSUME NEW w \in Workers, StartWorker(w) \/ CrashWorker(w)
      PROVE  Kept
  <2>1. CASE StartWorker(w)
    BY <1>3, <2>1 DEF StartWorker
  <2>2. CASE CrashWorker(w)
    <3>1. hs' = [h \in Handlers |-> IF WorkerOf(h) = w THEN FreeSlot ELSE hs[h]]
      BY <2>2 DEF CrashWorker
    <3> QED  BY <3>1 DEF FreeSlot, TokenKept, Executing
  <2> QED  BY <1>4, <2>1, <2>2
<1>5. ASSUME NEW h \in Handlers, ReadNew(h) \/ AutoClaim(h)
      PROVE  Kept
  <2>1. UNCHANGED hs \/ \E e, how : Deliver(h, e, how)
    BY <1>5, Zenon DEF ReadNew, AutoClaim
  <2>2. ASSUME NEW e, NEW how, Deliver(h, e, how)  PROVE Kept
    BY <1>1, <2>2 DEF Deliver, FreeSlot, TokenKept, Executing
  <2> QED  BY <1>3, <2>1, <2>2
<1>6. ASSUME NEW h \in Handlers, FetchPayload(h) \/ MarkPoison(h) \/ InspectReclaim(h)
             \/ Finalize(h) \/ ExplainReject(h) \/ Ack(h)
      PROVE  Kept
  <2>1. Release(h) \/ \E p \in PC \ {"run", "ran", "resolve", "finalize"} : Goto(h, p)
    BY <1>6 DEF FetchPayload, MarkPoison, InspectReclaim, Finalize, ExplainReject, Ack, PC
  <2> QED  BY <1>1, <2>1, SimpleMoves
<1>7. ASSUME NEW h \in Handlers, ExecuteTask(h) \/ JoinHeartbeat(h)
      PROVE  Kept
  <2>1. Executing(h) /\ (Release(h) \/ \E p \in {"ran", "resolve"} : Goto(h, p))
    BY <1>7 DEF ExecuteTask, JoinHeartbeat, Executing
  <2> QED  BY <1>1, <2>1, SimpleMoves
<1>8. ASSUME NEW h \in Handlers, Heartbeat(h) \/ HeartbeatCancelled(h)
      PROVE  Kept
  <2>1. Executing(h) /\ hs[h].pc # "finalize" /\ StaysPut(h)
    BY <1>8, HeartbeatStaysPut
  <2> QED  BY <1>1, <2>1 DEF StaysPut, TokenKept, Executing
<1>9. ASSUME NEW h \in Handlers, ResolveFinalResult(h)
      PROVE  Kept
  <2>1. hs[h] \in Task /\ hs[h].pc = "resolve"
    BY <1>1, <1>9 DEF ResolveFinalResult
  <2>2. PICK s : /\ hs' = [hs EXCEPT ![h] = [hs[h] EXCEPT !.pc = "finalize", !.src = s]]
                 /\ s = hs[h].att \/ (s = resultKey[hs[h].job] /\ s # 0)
    BY <1>9 DEF ResolveFinalResult
  <2> QED  BY <1>1, <2>1, <2>2 DEF Task, TokenKept, Executing
<1>10. ASSUME NEW h \in Handlers, Claim(h) \/ Reclaim(h)
       PROVE  Kept \/ Starts(h)
  <2>1. hs[h].job \in Jobs
    BY <1>2, <1>10 DEF Claim, Reclaim
  <2>2. Starts(h) \/ Release(h) \/ \E p \in {"ack", "inspect"} : Goto(h, p)
    BY <1>10, <2>1, Zenon DEF Claim, Reclaim, Starts
  <2> QED  BY <1>1, <2>2, SimpleMoves DEF PC
<1>11. CASE ConsumerNext
  <2>1. ASSUME NEW j \in Jobs, LeasePasses(j) \/ KeyExpires(j)  PROVE UNCHANGED hs
    BY <2>1 DEF LeasePasses, KeyExpires
  <2>2. ASSUME NEW e \in pel, IdlePasses(e)  PROVE UNCHANGED hs
    BY <2>2 DEF IdlePasses
  <2> QED  BY <1>3, <1>4, <1>5, <1>6, <1>7, <1>8, <1>9, <1>10, <1>11, <2>1, <2>2
           DEF ConsumerNext, HandlerStep
<1>12. CASE UNCHANGED hs
  BY <1>3, <1>12
<1> QED  BY <1>11, <1>12 DEF Next, Submit, vars, consumerVars

(* A result key is written by an execution under its own token, or expires. *)
LEMMA ResultChanges ==
    ASSUME TypeInv, [Next]_vars, NEW j \in Jobs
    PROVE  \/ resultKey'[j] \in {resultKey[j], 0}
           \/ \E h \in Handlers : /\ Executing(h) /\ hs[h].job = j
                                  /\ resultKey'[j] = hs[h].att
<1>1. resultKey \in [Jobs -> Nat]
  BY DEF TypeInv, TypeOK, JobStreamTypeOK
<1>2. ASSUME NEW h \in Handlers, ExecuteTask(h)
      PROVE  \/ resultKey'[j] = resultKey[j]
             \/ Executing(h) /\ hs[h].job = j /\ resultKey'[j] = hs[h].att
  <2>1. UNCHANGED resultKey \/ (ReportResult(hs[h].job, hs[h].att) /\ Executing(h))
    BY <1>2 DEF ExecuteTask, Executing, redisVars
  <2> QED  BY <1>1, <2>1 DEF ReportResult
<1>3. ASSUME NEW k \in Jobs, KeyExpires(k)
      PROVE  resultKey'[j] \in {resultKey[j], 0}
  BY <1>1, <1>3 DEF KeyExpires, DelPayload, ResultExpires
<1>4. ASSUME NEW h \in Handlers, HandlerStep(h)
      PROVE  ExecuteTask(h) \/ UNCHANGED resultKey
  <2>1. CASE Ack(h)
    BY <2>1 DEF Ack, XAck, redisVars
  <2>2. CASE UNCHANGED redisVars
    BY <2>2 DEF redisVars
  <2> QED  BY <1>4, <2>1, <2>2, Zenon DEF HandlerStep, FetchPayload, MarkPoison, Claim, Reclaim,
           InspectReclaim, JoinHeartbeat, ResolveFinalResult, Finalize, ExplainReject
<1>5. CASE ConsumerNext
  <2>1. ASSUME NEW w \in Workers, StartWorker(w) \/ CrashWorker(w)  PROVE UNCHANGED resultKey
    BY <2>1 DEF StartWorker, CrashWorker, EnsureGroup, redisVars
  <2>2. ASSUME NEW h \in Handlers, ReadNew(h) \/ AutoClaim(h)  PROVE UNCHANGED resultKey
    BY <2>2 DEF ReadNew, AutoClaim, ReadNewEntry, AutoClaimEntry, AckDeletedEntry
  <2>3. ASSUME NEW h \in Handlers, Heartbeat(h) \/ HeartbeatCancelled(h)
        PROVE  UNCHANGED resultKey
    <3>1. UNCHANGED redisVars
      BY <2>3, Zenon DEF Heartbeat, HeartbeatCancelled
    <3> QED  BY <3>1 DEF redisVars
  <2>4. ASSUME NEW k \in Jobs, LeasePasses(k)  PROVE UNCHANGED resultKey
    BY <2>4 DEF LeasePasses, redisVars
  <2>5. ASSUME NEW e \in pel, IdlePasses(e)  PROVE UNCHANGED resultKey
    BY <2>5 DEF IdlePasses, EntryTurnsIdle
  <2> QED  BY <1>2, <1>3, <1>4, <1>5, <2>1, <2>2, <2>3, <2>4, <2>5 DEF ConsumerNext
<1>6. CASE DispatcherNext
  <2>1. ASSUME NEW d \in Dispatchers,
               ClaimPendingOutboxEvents(d) \/ DispatchXAdd(d) \/ DispatchDel(d)
                 \/ DispatchMark(d) \/ CrashDispatcher(d)
        PROVE  UNCHANGED resultKey
    BY <2>1 DEF ClaimPendingOutboxEvents, DispatchXAdd, DispatchDel, DispatchMark,
                CrashDispatcher, XAdd, DelPayload, redisVars
  <2>2. ASSUME NEW d \in Dispatchers, NEW k \in Jobs, DispatchSet(d, k)
        PROVE  UNCHANGED resultKey
    BY <2>2 DEF DispatchSet, SetPayload, redisVars
  <2>3. ASSUME NEW k \in Jobs, BackoffElapses(k)  PROVE UNCHANGED resultKey
    BY <2>3 DEF BackoffElapses, redisVars
  <2> QED  BY <1>6, <2>1, <2>2, <2>3 DEF DispatcherNext, DispatcherStep
<1>7. CASE ControlPlaneNext
  <2>1. CASE RepairScan \/ RepairXAdd \/ StreamTrim
    BY <2>1 DEF RepairScan, RepairXAdd, StreamTrim, XAdd, TrimOldest, redisVars
  <2>2. ASSUME NEW k \in Jobs, RepairSetPayload(k) \/ GcDone(k)
        PROVE  UNCHANGED resultKey
    BY <2>2 DEF RepairSetPayload, GcDone, SetPayload, redisVars
  <2> QED  BY <1>7, <2>1, <2>2 DEF ControlPlaneNext, RepairStep
<1> QED  BY <1>5, <1>6, <1>7 DEF Next, Submit, vars, redisVars

---------------------------------------------------------------------------
(* Tokens that are kept stay unique and below the attempt of their row. *)
LEMMA KeptTokensStayFenced ==
    ASSUME FenceInv, [Next]_vars, \A g \in Handlers : TokenKept(g)
    PROVE  UniqueExecutor' /\ TokenFromRow' /\ SourceInv'
<1>1. TypeInv /\ RowInv /\ UniqueExecutor /\ TokenFromRow /\ SourceInv /\ ResultInv
  BY DEF FenceInv
<1>2. \A h \in Handlers : Executing(h) =>
        /\ hs[h].job \in Jobs /\ hs[h].att \in Nat
        /\ sub[hs[h].job].attempt \in Nat /\ resultKey[hs[h].job] \in Nat
  BY <1>1 DEF TypeInv, TypeOK, InFlightNamesJob, SubmissionsTypeOK, JobStreamTypeOK,
              ConsumerTypeOK, Executing, Task, Row
<1>3. UniqueExecutor'
  BY <1>1 DEF UniqueExecutor, TokenKept
<1>4. TokenFromRow'
  <2> SUFFICES ASSUME NEW h \in Handlers, Executing(h)'
               PROVE  /\ hs'[h].att \in 1..sub'[hs'[h].job].attempt
                      /\ sub'[hs'[h].job].state = "processing"
                           /\ sub'[hs'[h].job].attempt = hs'[h].att
                         => sub'[hs'[h].job].owner = WorkerOf(h)
    BY DEF TokenFromRow
  <2> DEFINE j == hs[h].job
             a == hs[h].att
  <2>1. Executing(h) /\ hs'[h].job = j /\ hs'[h].att = a
    BY DEF TokenKept
  <2>2. /\ a \in 1..sub[j].attempt
        /\ sub[j].state = "processing" /\ sub[j].attempt = a => sub[j].owner = WorkerOf(h)
    BY <1>1, <2>1 DEF TokenFromRow
  <2>3. /\ sub'[j].attempt \in Nat
        /\ sub[j].attempt <= sub'[j].attempt
        /\ sub'[j].attempt = sub[j].attempt /\ sub'[j].state = "processing"
              => sub[j].state = "processing" /\ sub'[j].owner = sub[j].owner
    BY <1>1, <1>2, <2>1, AttemptMonotone
  <2> QED  BY <1>2, <2>1, <2>2, <2>3
<1>5. SourceInv'
  <2> SUFFICES ASSUME NEW h \in Handlers, hs'[h].pc = "finalize"
               PROVE  hs'[h].src \in 1..sub'[hs'[h].job].attempt
    BY DEF SourceInv
  <2> DEFINE j == hs[h].job
  <2>1. /\ Executing(h) /\ hs'[h].job = j
        /\ \/ hs[h].pc = "finalize" /\ hs'[h].src = hs[h].src
           \/ hs'[h].src = hs[h].att
           \/ hs'[h].src = resultKey[j] /\ hs'[h].src # 0
    BY DEF TokenKept, Executing
  <2>2. j \in Jobs /\ sub[j].attempt \in Nat /\ resultKey[j] \in Nat
    BY <1>2, <2>1
  <2>3. hs'[h].src \in 1..sub[j].attempt
    BY <1>1, <2>1, <2>2 DEF TokenFromRow, SourceInv, ResultInv
  <2>4. sub'[j].attempt \in Nat /\ sub[j].attempt <= sub'[j].attempt
    BY <1>1, <2>2, AttemptMonotone
  <2> QED  BY <2>1, <2>2, <2>3, <2>4
<1> QED  BY <1>3, <1>4, <1>5

(* A new token is larger than every token held for the same job. *)
LEMMA NewTokenIsFenced ==
    ASSUME FenceInv, [Next]_vars, NEW h \in Handlers, Starts(h)
    PROVE  UniqueExecutor' /\ TokenFromRow' /\ SourceInv'
<1> DEFINE j == hs[h].job
           n == sub[j].attempt + 1
<1>1. TypeInv /\ RowInv /\ UniqueExecutor /\ TokenFromRow /\ SourceInv
  BY DEF FenceInv
<1>2. /\ hs \in [Handlers -> Task] /\ sub \in [Jobs -> Row]
      /\ j \in Jobs /\ WorkerOf(h) \in Workers
  BY <1>1, TaskTypes DEF TypeInv, TypeOK, ConsumerTypeOK, SubmissionsTypeOK, Starts
<1>3. \A g \in Handlers : Executing(g) => hs[g].job \in Jobs
  BY <1>1 DEF TypeInv, InFlightNamesJob, Executing
<1>4. /\ sub'[j].attempt = n /\ n \in Nat
      /\ sub'[j].owner = WorkerOf(h)
      /\ \A k \in Jobs \ {j} : sub'[k] = sub[k]
  <2>1. n \in Nat
    BY <1>2 DEF Row
  <2>2. CASE ClaimSubmissionForRun(j, WorkerOf(h))
    BY <1>2, <2>1, <2>2 DEF ClaimSubmissionForRun, Row
  <2>3. CASE ReclaimSubmissionForRun(j, WorkerOf(h))
    BY <1>2, <2>1, <2>3 DEF ReclaimSubmissionForRun, Row
  <2> QED  BY <2>2, <2>3 DEF Starts
<1>5. /\ hs'[h].pc = "run" /\ hs'[h].job = j /\ hs'[h].att = n
      /\ \A g \in Handlers \ {h} : hs'[g] = hs[g]
  BY <1>2, <1>4 DEF Starts, StartRun, Task
<1>6. \A g \in Handlers : Executing(g) /\ hs[g].job = j => hs[g].att \in 1..sub[j].attempt
  BY <1>1 DEF TokenFromRow
<1>7. \A g \in Handlers \ {h} : Executing(g)' => Executing(g)
  BY <1>5 DEF Executing
<1>8. \A g \in Handlers : Executing(g) /\ hs[g].job = j => hs[g].att # n
  BY <1>2, <1>6 DEF Row
<1>9. UniqueExecutor'
  <2> SUFFICES ASSUME NEW f \in Handlers, NEW g \in Handlers, f # g,
                      Executing(f)', Executing(g)', hs'[f].job = hs'[g].job
               PROVE  hs'[f].att # hs'[g].att
    BY DEF UniqueExecutor
  <2>1. CASE f = h
    BY <1>5, <1>7, <1>8, <2>1
  <2>2. CASE g = h
    BY <1>5, <1>7, <1>8, <2>2
  <2>3. CASE f # h /\ g # h
    BY <1>1, <1>5, <1>7, <2>3 DEF UniqueExecutor
  <2> QED  BY <2>1, <2>2, <2>3
<1>10. TokenFromRow'
  <2> SUFFICES ASSUME NEW g \in Handlers, Executing(g)'
               PROVE  /\ hs'[g].att \in 1..sub'[hs'[g].job].attempt
                      /\ sub'[hs'[g].job].state = "processing"
                           /\ sub'[hs'[g].job].attempt = hs'[g].att
                         => sub'[hs'[g].job].owner = WorkerOf(g)
    BY DEF TokenFromRow
  <2>1. CASE g = h
    BY <1>2, <1>4, <1>5, <2>1 DEF Row
  <2>2. CASE g # h /\ hs[g].job = j
    <3>1. hs'[g] = hs[g] /\ hs[g].att \in 1..sub[j].attempt
      BY <1>5, <1>6, <1>7, <2>2
    <3> QED  BY <1>2, <1>4, <2>2, <3>1 DEF Row
  <2>3. CASE g # h /\ hs[g].job # j
    <3>1. hs'[g] = hs[g] /\ Executing(g) /\ sub'[hs[g].job] = sub[hs[g].job]
      BY <1>3, <1>4, <1>5, <1>7, <2>3
    <3> QED  BY <1>1, <3>1 DEF TokenFromRow
  <2> QED  BY <2>1, <2>2, <2>3
<1>11. SourceInv'
  <2> SUFFICES ASSUME NEW g \in Handlers, hs'[g].pc = "finalize"
               PROVE  hs'[g].src \in 1..sub'[hs'[g].job].attempt
    BY DEF SourceInv
  <2>1. g # h /\ hs'[g] = hs[g] /\ Executing(g)
    BY <1>5 DEF Executing
  <2>2. hs[g].job \in Jobs /\ hs[g].src \in 1..sub[hs[g].job].attempt
    BY <1>1, <1>3, <2>1 DEF SourceInv
  <2>3. sub'[hs[g].job].attempt \in Nat /\ sub[hs[g].job].attempt <= sub'[hs[g].job].attempt
    BY <1>1, <2>2, AttemptMonotone
  <2>4. sub[hs[g].job].attempt \in Nat
    BY <1>2, <2>2 DEF Row
  <2> QED  BY <2>1, <2>2, <2>3, <2>4
<1> QED  BY <1>9, <1>10, <1>11

(* The fencing invariant is kept by every step: tokens that are kept stay  *)
(* fenced, and a claim or a takeover hands out a fresh one.                *)
LEMMA FenceStep == FenceInv /\ [Next]_vars => FenceInv'
<1> SUFFICES ASSUME FenceInv, [Next]_vars  PROVE FenceInv'
  OBVIOUS
<1>1. TypeInv /\ RowInv /\ TokenFromRow /\ ResultInv
  BY DEF FenceInv
<1>2. TypeInv'
  BY <1>1, NextKeepsTypes
<1>3. RowInv'
  BY RowsStayOK
<1>4. UniqueExecutor' /\ TokenFromRow' /\ SourceInv'
  BY <1>1, TokenChanges, KeptTokensStayFenced, NewTokenIsFenced
<1>5. ResultInv'
  <2> SUFFICES ASSUME NEW j \in Jobs  PROVE resultKey'[j] <= sub'[j].attempt
    BY DEF ResultInv
  <2>1. sub[j].attempt \in Nat /\ resultKey[j] \in Nat /\ resultKey[j] <= sub[j].attempt
    BY <1>1 DEF TypeInv, TypeOK, SubmissionsTypeOK, JobStreamTypeOK, Row, ResultInv
  <2>2. sub'[j].attempt \in Nat /\ sub[j].attempt <= sub'[j].attempt
    BY <1>1, AttemptMonotone
  <2>3. \/ resultKey'[j] \in {resultKey[j], 0}
        \/ resultKey'[j] \in 1..sub[j].attempt
    BY <1>1, ResultChanges DEF TokenFromRow
  <2> QED  BY <2>1, <2>2, <2>3
<1> QED  BY <1>2, <1>3, <1>4, <1>5 DEF FenceInv

(* The fencing invariant holds initially: nobody executes anything.        *)
LEMMA FenceInit == Init => FenceInv
<1> SUFFICES ASSUME Init  PROVE FenceInv
  OBVIOUS
<1>1. TypeInv
  BY InitTypes
<1>2. RowInv
  BY DEF Init, SubmissionsInit, AbsentRow, RowInv, RowOK
<1>3. \A h \in Handlers : hs[h].pc = "free"
  BY DEF Init, ConsumerInit, FreeSlot
<1>4. UniqueExecutor /\ TokenFromRow /\ SourceInv
  BY <1>3 DEF UniqueExecutor, TokenFromRow, SourceInv, Executing
<1>5. ResultInv
  <2>1. \A j \in Jobs : resultKey[j] = 0 /\ sub[j].attempt = 0
    BY DEF Init, SubmissionsInit, JobStreamInit, AbsentRow
  <2>2. 0 <= 0
    OBVIOUS
  <2> QED  BY <2>1, <2>2, Zenon DEF ResultInv
<1> QED  BY <1>1, <1>2, <1>4, <1>5 DEF FenceInv

(* The fencing invariant, inductive, from which the theorems below follow. *)
THEOREM FenceInvariance == Spec => []FenceInv
BY FenceInit, FenceStep, PTL DEF Spec

(* No two handlers ever execute a job under the same attempt_id, however   *)
(* many workers, slots, duplicates, crashes and takeovers there are (the   *)
(* claim and reclaim statements of postgres.go).                           *)
THEOREM UniqueExecutorCorrect == Spec => []UniqueExecutor
<1>1. FenceInv => UniqueExecutor
  BY DEF FenceInv
<1> QED  BY <1>1, FenceInvariance, PTL

(* Every executing handler holds a token its row has handed out, and its   *)
(* worker owns the lease while the row runs under that token.              *)
THEOREM TokenFromRowCorrect == Spec => []TokenFromRow
<1>1. FenceInv => TokenFromRow
  BY DEF FenceInv
<1> QED  BY <1>1, FenceInvariance, PTL

(* A judged row carries the newest attempt_id and a result computed under  *)
(* one of the job's own attempts (FinalizeSubmissionWithFence).            *)
THEOREM JudgedByNewestAttemptCorrect == Spec => []JudgedByNewestAttempt
<1>1. FenceInv => JudgedByNewestAttempt
  BY DEF FenceInv, RowInv, RowOK, JudgedByNewestAttempt
<1> QED  BY <1>1, FenceInvariance, PTL

(* A row that is done never changes again, except for its deletion.        *)
THEOREM DoneIsFinalCorrect == Spec => DoneIsFinal
<1> DEFINE Final == \A j \in Jobs : sub[j].state \in {"done", "gone"} =>
                       sub'[j] \in {sub[j], [sub[j] EXCEPT !.state = "gone"]}
<1>1. ASSUME FenceInv, [Next]_vars  PROVE [Final]_vars
  <2>1. sub \in [Jobs -> Row] /\ RowInv /\ TypeInv
    BY <1>1 DEF FenceInv, TypeInv, TypeOK, SubmissionsTypeOK
  <2>2. CASE UNCHANGED sub
    BY <2>2
  <2>3. ASSUME NEW k \in Jobs,
               Submit(k) \/ DeleteOldDoneSubmission(k) \/ LeaseExpires(k)
        PROVE  Final
    <3>1. CreateSubmission(k) \/ DeleteOldDoneSubmission(k) \/ LeaseExpires(k)
      BY <2>3 DEF Submit
    <3> QED  BY <2>1, <3>1 DEF CreateSubmission, DeleteOldDoneSubmission, LeaseExpires, RowInv, RowOK, Row
  <2>4. ASSUME NEW h \in Handlers, HandlerWrites(h)
        PROVE  Final
    <3> DEFINE k == hs[h].job
    <3>1. \/ UNCHANGED sub
          \/ sub[k].state \in {"pending", "processing"} /\ \E r : sub' = [sub EXCEPT ![k] = r]
      BY <2>4 DEF HandlerWrites, ClaimSubmissionForRun, ClaimMatches, ReclaimSubmissionForRun,
                  ReclaimMatches, Running, MarkSubmissionPoison, PoisonMatches,
                  RefreshSubmissionLease, RefreshMatches, FinalizeSubmissionWithFence,
                  FinalizeMatches
    <3>2. k \in Jobs
      BY <2>4 DEF HandlerWrites
    <3> QED  BY <2>1, <3>1, <3>2
  <2> QED  BY <1>1, <2>1, <2>2, <2>3, <2>4, SubmissionChanges
<1> QED  BY <1>1, FenceInvariance, PTL DEF Spec, DoneIsFinal

---------------------------------------------------------------------------
(* The outbox: delivered means that the job is in the stream.              *)

\* Jobs with an entry in the stream, trimmed or not.
Listed == {stream[e] : e \in Entries}

\* An event that is delivered, or about to be marked so, has its entry.
DeliveredListed ==
    /\ \A j \in Jobs : outbox[j] = "delivered" => j \in Listed
    /\ \A d \in Dispatchers : dpc[d] = "mark" => cur[d] \in Listed

\* Row and event exist together, and whatever the due list or a dispatcher
\* names has been submitted.
EventsHaveRows ==
    /\ \A j \in Jobs : outbox[j] = "none" <=> sub[j].state = "none"
    /\ \A j \in due : outbox[j] # "none"
    /\ \A d \in Dispatchers : \A j \in batch[d] : outbox[j] # "none"
    /\ \A d \in Dispatchers : dpc[d] # "next" => outbox[cur[d]] # "none"

DeliveryInv == TypeInv /\ DeliveredListed /\ EventsHaveRows

(* The stream only grows, by entries of jobs. *)
LEMMA StreamGrows ==
    ASSUME TypeInv, [Next]_vars
    PROVE  UNCHANGED stream \/ \E j \in Jobs : stream' = Append(stream, j)
<1>1. UNCHANGED redisVars => UNCHANGED stream
  BY DEF redisVars
<1>2. CASE UNCHANGED vars
  BY <1>2 DEF vars, redisVars
<1>3. CASE \E j \in Jobs : Submit(j)
  BY <1>1, <1>3 DEF Submit
<1>4. CASE DispatcherNext
  <2>1. \A d \in Dispatchers : DispatchXAdd(d) => cur[d] \in Jobs
    BY DEF TypeInv, InFlightNamesJob, DispatchXAdd
  <2>2. ASSUME NEW d \in Dispatchers, DispatchXAdd(d)
        PROVE  UNCHANGED stream \/ stream' = Append(stream, cur[d])
    BY <1>1, <2>2 DEF DispatchXAdd, XAdd
  <2>3. ASSUME NEW d \in Dispatchers,
               ClaimPendingOutboxEvents(d) \/ DispatchDel(d) \/ DispatchMark(d)
                 \/ CrashDispatcher(d) \/ \E j \in Jobs : DispatchSet(d, j)
        PROVE  UNCHANGED stream
    BY <1>1, <2>3 DEF ClaimPendingOutboxEvents, DispatchDel, DispatchMark, CrashDispatcher,
                DispatchSet, SetPayload, DelPayload
  <2>4. ASSUME NEW j \in Jobs, BackoffElapses(j)  PROVE UNCHANGED stream
    BY <1>1, <2>4, Zenon DEF BackoffElapses
  <2> QED  BY <1>4, <2>1, <2>2, <2>3, <2>4 DEF DispatcherNext, DispatcherStep
<1>5. CASE ConsumerNext
  <2>1. ASSUME NEW w \in Workers, StartWorker(w) \/ CrashWorker(w)  PROVE UNCHANGED stream
    BY <1>1, <2>1, Zenon DEF StartWorker, CrashWorker, EnsureGroup
  <2>2. ASSUME NEW h \in Handlers, ReadNew(h) \/ AutoClaim(h)  PROVE UNCHANGED stream
    BY <2>2 DEF ReadNew, AutoClaim, ReadNewEntry, AutoClaimEntry, AckDeletedEntry
  <2>3. ASSUME NEW h \in Handlers, Heartbeat(h) \/ HeartbeatCancelled(h)
        PROVE  UNCHANGED stream
    BY <1>1, <2>3, Zenon DEF Heartbeat, HeartbeatCancelled
  <2>4. ASSUME NEW h \in Handlers, HandlerStep(h)  PROVE UNCHANGED stream
    <3>1. CASE ExecuteTask(h) \/ Ack(h)
      BY <1>1, <3>1 DEF ExecuteTask, Ack, ReportResult, XAck
    <3>2. CASE UNCHANGED redisVars
      BY <1>1, <3>2
    <3> QED  BY <2>4, <3>1, <3>2, Zenon DEF HandlerStep, FetchPayload, MarkPoison, Claim,
             Reclaim, InspectReclaim, JoinHeartbeat, ResolveFinalResult, Finalize, ExplainReject
  <2>5. ASSUME NEW k \in Jobs, LeasePasses(k) \/ KeyExpires(k)  PROVE UNCHANGED stream
    BY <1>1, <2>5, Zenon DEF LeasePasses, KeyExpires, DelPayload, ResultExpires
  <2>6. ASSUME NEW e \in pel, IdlePasses(e)  PROVE UNCHANGED stream
    BY <2>6, Zenon DEF IdlePasses, EntryTurnsIdle
  <2> QED  BY <1>5, <2>1, <2>2, <2>3, <2>4, <2>5, <2>6 DEF ConsumerNext
<1>6. CASE ControlPlaneNext
  <2>1. CASE RepairXAdd
    <3>1. repairing \in Jobs
      BY <2>1 DEF RepairXAdd, TypeInv, TypeOK, RepairTypeOK
    <3> QED  BY <1>1, <2>1, <3>1 DEF RepairXAdd, XAdd
  <2>2. CASE RepairScan \/ StreamTrim
    BY <1>1, <2>2, Zenon DEF RepairScan, StreamTrim, TrimOldest
  <2>3. ASSUME NEW k \in Jobs, RepairSetPayload(k) \/ GcDone(k)
        PROVE  UNCHANGED stream
    BY <1>1, <2>3, Zenon DEF RepairSetPayload, GcDone, SetPayload
  <2> QED  BY <1>6, <2>1, <2>2, <2>3 DEF ControlPlaneNext, RepairStep
<1> QED  BY <1>2, <1>3, <1>4, <1>5, <1>6 DEF Next

(* An entry, once added, stays the entry of its job. *)
LEMMA ListedStays ==
    ASSUME TypeInv, [Next]_vars
    PROVE  Listed \subseteq Listed'
<1>1. stream \in Seq(Jobs)
  BY DEF TypeInv, TypeOK, JobStreamTypeOK
<1>2. CASE UNCHANGED stream
  BY <1>2 DEF Listed, Entries
<1>3. ASSUME NEW k \in Jobs, stream' = Append(stream, k)
      PROVE  Listed \subseteq Listed'
  <2>1. \A e \in 1..Len(stream) : e \in 1..Len(stream') /\ stream'[e] = stream[e]
    BY <1>1, <1>3
  <2> QED  BY <2>1 DEF Listed, Entries
<1> QED  BY <1>2, <1>3, StreamGrows

\* Row k becomes one with the given state, attempt, lease, verdict and by; the
\* other rows stay.
Becomes(k, state, attempt, lease, verdict, by) ==
    /\ sub'[k].state = state
    /\ sub'[k].attempt = attempt
    /\ sub'[k].lease = lease
    /\ sub'[k].verdict = verdict
    /\ sub'[k].by = by
    /\ \A i \in Jobs \ {k} : sub'[i] = sub[i]

(* What each statement of postgres.go asks of the row and what it makes of *)
(* it.                                                                     *)
LEMMA RowAfter ==
    ASSUME sub \in [Jobs -> Row], NEW k \in Jobs
    PROVE  /\ CreateSubmission(k) =>
                 /\ sub[k].state = "none"
                 /\ Becomes(k, "pending", 0, "null", "none", 0)
           /\ \A w : ClaimSubmissionForRun(k, w) =>
                 /\ sub[k].state = "pending"
                 /\ Becomes(k, "processing", sub[k].attempt + 1, "valid", sub[k].verdict, sub[k].by)
           /\ \A w : ReclaimSubmissionForRun(k, w) =>
                 /\ sub[k].state = "processing" /\ sub[k].lease = "expired"
                 /\ Becomes(k, "processing", sub[k].attempt + 1, "valid", sub[k].verdict, sub[k].by)
           /\ \A a, w : RefreshSubmissionLease(k, a, w) =>
                 /\ sub[k].state = "processing" /\ sub[k].attempt = a
                 /\ Becomes(k, "processing", a, "valid", sub[k].verdict, sub[k].by)
           /\ \A a, w, s : FinalizeSubmissionWithFence(k, a, w, s) =>
                 /\ sub[k].state = "processing" /\ sub[k].attempt = a /\ sub[k].lease = "valid"
                 /\ Becomes(k, "done", a, "null", "judged", a)
           /\ MarkSubmissionPoison(k) /\ PoisonMatches(k) =>
                 /\ sub[k].state \in {"pending", "processing"}
                 /\ Becomes(k, "done", sub[k].attempt, "null", "poison", sub[k].by)
           /\ DeleteOldDoneSubmission(k) =>
                 /\ sub[k].state = "done"
                 /\ Becomes(k, "gone", sub[k].attempt, sub[k].lease, sub[k].verdict, sub[k].by)
           /\ LeaseExpires(k) =>
                 /\ sub[k].lease = "valid"
                 /\ Becomes(k, sub[k].state, sub[k].attempt, "expired", sub[k].verdict, sub[k].by)
<1>1. CreateSubmission(k) =>
         /\ sub[k].state = "none"
         /\ Becomes(k, "pending", 0, "null", "none", 0)
  BY DEF CreateSubmission, AbsentRow, Becomes, Row
<1>2. \A w : ClaimSubmissionForRun(k, w) =>
         /\ sub[k].state = "pending"
         /\ Becomes(k, "processing", sub[k].attempt + 1, "valid", sub[k].verdict, sub[k].by)
  BY DEF ClaimSubmissionForRun, ClaimMatches, Becomes, Row
<1>3. \A w : ReclaimSubmissionForRun(k, w) =>
         /\ sub[k].state = "processing" /\ sub[k].lease = "expired"
         /\ Becomes(k, "processing", sub[k].attempt + 1, "valid", sub[k].verdict, sub[k].by)
  BY DEF ReclaimSubmissionForRun, ReclaimMatches, Running, Becomes, Row
<1>4. \A a, w : RefreshSubmissionLease(k, a, w) =>
         /\ sub[k].state = "processing" /\ sub[k].attempt = a
         /\ Becomes(k, "processing", a, "valid", sub[k].verdict, sub[k].by)
  BY DEF RefreshSubmissionLease, RefreshMatches, Running, Becomes, Row
<1>5. \A a, w, s : FinalizeSubmissionWithFence(k, a, w, s) =>
         /\ sub[k].state = "processing" /\ sub[k].attempt = a /\ sub[k].lease = "valid"
         /\ Becomes(k, "done", a, "null", "judged", a)
  BY DEF FinalizeSubmissionWithFence, FinalizeMatches, Running, Becomes, Row
<1>6. MarkSubmissionPoison(k) /\ PoisonMatches(k) =>
         /\ sub[k].state \in {"pending", "processing"}
         /\ Becomes(k, "done", sub[k].attempt, "null", "poison", sub[k].by)
  BY ZenonT(60) DEF MarkSubmissionPoison, PoisonMatches, Becomes, Row
<1>7. DeleteOldDoneSubmission(k) =>
         /\ sub[k].state = "done"
         /\ Becomes(k, "gone", sub[k].attempt, sub[k].lease, sub[k].verdict, sub[k].by)
  BY DEF DeleteOldDoneSubmission, Becomes, Row
<1>8. LeaseExpires(k) =>
         /\ sub[k].lease = "valid"
         /\ Becomes(k, sub[k].state, sub[k].attempt, "expired", sub[k].verdict, sub[k].by)
  BY DEF LeaseExpires, Becomes, Row
<1> QED  BY <1>1, <1>2, <1>3, <1>4, <1>5, <1>6, <1>7, <1>8

(* Only a submission makes a row exist, and no step makes it cease to. *)
LEMMA ExistenceStays ==
    ASSUME TypeInv, [Next]_vars, NEW j \in Jobs, ~Submit(j)
    PROVE  sub'[j].state = "none" <=> sub[j].state = "none"
<1>1. sub \in [Jobs -> Row]
  BY DEF TypeInv, TypeOK, SubmissionsTypeOK
<1> DEFINE Same == sub'[j].state = "none" <=> sub[j].state = "none"
<1>2. CASE UNCHANGED sub
  BY <1>2
<1>3. ASSUME NEW k \in Jobs, Submit(k)  PROVE Same
  <2>1. CreateSubmission(k) /\ k # j
    BY <1>3 DEF Submit
  <2> QED  BY <1>1, <2>1, RowAfter DEF Becomes
<1>4. ASSUME NEW k \in Jobs, DeleteOldDoneSubmission(k) \/ LeaseExpires(k)  PROVE Same
  BY <1>1, <1>4 DEF DeleteOldDoneSubmission, LeaseExpires, Row
<1>5. ASSUME NEW h \in Handlers, HandlerWrites(h)  PROVE Same
  <2>1. PICK k, w, a, s :
            /\ k \in Jobs
            /\ \/ ClaimSubmissionForRun(k, w)
               \/ ReclaimSubmissionForRun(k, w)
               \/ MarkSubmissionPoison(k)
               \/ RefreshSubmissionLease(k, a, w)
               \/ FinalizeSubmissionWithFence(k, a, w, s)
    BY <1>5, Zenon DEF HandlerWrites
  <2>2. CASE ClaimSubmissionForRun(k, w)
    BY <1>1, <2>1, <2>2 DEF ClaimSubmissionForRun, ClaimMatches, Row
  <2>3. CASE ReclaimSubmissionForRun(k, w)
    BY <1>1, <2>1, <2>3 DEF ReclaimSubmissionForRun, ReclaimMatches, Running, Row
  <2>4. CASE MarkSubmissionPoison(k)
    <3>1. CASE PoisonMatches(k)
      <4>1. sub' = [sub EXCEPT ![k] = [sub[k] EXCEPT !.state = "done", !.owner = None,
                                         !.lease = "null", !.verdict = "poison"]]
        BY <2>4, <3>1 DEF MarkSubmissionPoison
      <4> QED  BY <1>1, <2>1, <3>1, <4>1 DEF PoisonMatches, Row
    <3>2. CASE ~PoisonMatches(k)
      BY <1>2, <2>4, <3>2 DEF MarkSubmissionPoison
    <3> QED  BY <3>1, <3>2
  <2>5. CASE RefreshSubmissionLease(k, a, w)
    BY <1>1, <2>1, <2>5 DEF RefreshSubmissionLease, RefreshMatches, Running, Row
  <2>6. CASE FinalizeSubmissionWithFence(k, a, w, s)
    BY <1>1, <2>1, <2>6 DEF FinalizeSubmissionWithFence, FinalizeMatches, Running, Row
  <2> QED  BY <2>1, <2>2, <2>3, <2>4, <2>5, <2>6
<1> QED  BY <1>2, <1>3, <1>4, <1>5, SubmissionChanges

(* A dispatcher only marks what it has added, and only adds what was       *)
(* submitted: the strengthened delivery invariant is kept by dispatchers.  *)
LEMMA DispatcherDelivers ==
    ASSUME DeliveryInv, [Next]_vars, DispatcherNext, UNCHANGED sub
    PROVE  DeliveryInv'
<1>1. /\ TypeInv /\ DispatcherTypeOK /\ stream \in Seq(Jobs)
      /\ \A d \in Dispatchers : dpc[d] # "next" => cur[d] \in Jobs
  BY DEF DeliveryInv, TypeInv, TypeOK, JobStreamTypeOK, InFlightNamesJob
<1>2. TypeInv' /\ Listed \subseteq Listed'
  BY <1>1, NextKeepsTypes, ListedStays
<1>3. DeliveredListed /\ EventsHaveRows
  BY DEF DeliveryInv
<1>4. SUFFICES DeliveredListed' /\ EventsHaveRows'
  BY <1>2 DEF DeliveryInv
<1>5. UNCHANGED <<outbox, cur, dpc>> => DeliveredListed'
  BY <1>2, <1>3 DEF DeliveredListed
<1>6. ASSUME NEW d \in Dispatchers, ClaimPendingOutboxEvents(d)
      PROVE  DeliveredListed' /\ EventsHaveRows'
  BY <1>1, <1>3, <1>5, <1>6 DEF ClaimPendingOutboxEvents, DispatcherTypeOK, EventsHaveRows
<1>7. ASSUME NEW d \in Dispatchers, NEW j \in Jobs, DispatchSet(d, j)
      PROVE  DeliveredListed' /\ EventsHaveRows'
  <2>1. DeliveredListed'
    BY <1>1, <1>2, <1>3, <1>7 DEF DispatchSet, DispatcherTypeOK, DeliveredListed
  <2>2. EventsHaveRows'
    BY <1>1, <1>3, <1>7 DEF DispatchSet, DispatcherTypeOK, EventsHaveRows
  <2> QED  BY <2>1, <2>2
<1>8. ASSUME NEW d \in Dispatchers, DispatchXAdd(d)
      PROVE  DeliveredListed' /\ EventsHaveRows'
  <2>1. dpc[d] = "xadd" /\ cur[d] \in Jobs /\ UNCHANGED <<outbox, due, batch, cur>>
    BY <1>1, <1>8 DEF DispatchXAdd
  <2>2. \/ dpc' = [dpc EXCEPT ![d] = "del"]
        \/ dpc' = [dpc EXCEPT ![d] = "mark"] /\ stream' = Append(stream, cur[d])
    BY <1>8 DEF DispatchXAdd, XAdd
  <2>3. stream' = Append(stream, cur[d]) => cur[d] \in Listed'
    <3> SUFFICES ASSUME stream' = Append(stream, cur[d])  PROVE cur[d] \in Listed'
      OBVIOUS
    <3>1. Len(stream) + 1 \in 1..Len(stream') /\ stream'[Len(stream) + 1] = cur[d]
      BY <1>1, <2>1
    <3> QED  BY <3>1 DEF Listed, Entries
  <2>4. DeliveredListed'
    BY <1>1, <1>2, <1>3, <2>1, <2>2, <2>3 DEF DispatcherTypeOK, DeliveredListed
  <2>5. EventsHaveRows'
    BY <1>1, <1>3, <2>1, <2>2 DEF DispatcherTypeOK, EventsHaveRows
  <2> QED  BY <2>4, <2>5
<1>9. ASSUME NEW d \in Dispatchers, DispatchDel(d)
      PROVE  DeliveredListed' /\ EventsHaveRows'
  <2>1. DeliveredListed'
    BY <1>1, <1>2, <1>3, <1>9 DEF DispatchDel, FinishEvent, DispatcherTypeOK, DeliveredListed
  <2>2. EventsHaveRows'
    BY <1>1, <1>3, <1>9 DEF DispatchDel, FinishEvent, DispatcherTypeOK, EventsHaveRows
  <2> QED  BY <2>1, <2>2
<1>10. ASSUME NEW d \in Dispatchers, DispatchMark(d)
       PROVE  DeliveredListed' /\ EventsHaveRows'
  <2>1. DeliveredListed'
    BY <1>1, <1>2, <1>3, <1>10 DEF DispatchMark, FinishEvent, DispatcherTypeOK, DeliveredListed
  <2>2. EventsHaveRows'
    BY <1>1, <1>3, <1>10 DEF DispatchMark, FinishEvent, DispatcherTypeOK, EventsHaveRows
  <2> QED  BY <2>1, <2>2
<1>11. ASSUME NEW d \in Dispatchers, CrashDispatcher(d)
       PROVE  DeliveredListed' /\ EventsHaveRows'
  <2>1. DeliveredListed'
    BY <1>1, <1>2, <1>3, <1>11 DEF CrashDispatcher, DispatcherTypeOK, DeliveredListed
  <2>2. EventsHaveRows'
    BY <1>1, <1>3, <1>11 DEF CrashDispatcher, DispatcherTypeOK, EventsHaveRows
  <2> QED  BY <2>1, <2>2
<1>12. ASSUME NEW j \in Jobs, BackoffElapses(j)
       PROVE  DeliveredListed' /\ EventsHaveRows'
  <2>1. outbox[j] = "pending" /\ due' = due \cup {j} /\ UNCHANGED <<outbox, batch, cur, dpc>>
    BY <1>12, Zenon DEF BackoffElapses
  <2> QED  BY <1>3, <1>5, <2>1 DEF EventsHaveRows
<1> QED  BY <1>6, <1>7, <1>8, <1>9, <1>10, <1>11, <1>12 DEF DispatcherNext, DispatcherStep

(* The strengthened delivery invariant is kept by every step: submissions  *)
(* insert row and event together, the other components leave the outbox    *)
(* alone and only add to the stream.                                       *)
LEMMA DeliveryStep == DeliveryInv /\ [Next]_vars => DeliveryInv'
<1> SUFFICES ASSUME DeliveryInv, [Next]_vars  PROVE DeliveryInv'
  OBVIOUS
<1>1. /\ TypeInv /\ DispatcherTypeOK /\ sub \in [Jobs -> Row]
      /\ DeliveredListed /\ EventsHaveRows
  BY DEF DeliveryInv, TypeInv, TypeOK, SubmissionsTypeOK
<1>2. TypeInv' /\ Listed \subseteq Listed'
  BY <1>1, NextKeepsTypes, ListedStays
<1>3. ASSUME NEW k \in Jobs, Submit(k)  PROVE DeliveryInv'
  <2>1. /\ outbox' = [outbox EXCEPT ![k] = "pending"] /\ due' = due \cup {k}
        /\ UNCHANGED <<batch, cur, dpc>>
    BY <1>3 DEF Submit, InsertOutboxEvent
  <2>2. sub'[k].state = "pending" /\ \A i \in Jobs \ {k} : sub'[i] = sub[i]
    BY <1>1, <1>3, RowAfter DEF Submit, Becomes
  <2>3. \A d \in Dispatchers : dpc[d] # "next" => cur[d] \in Jobs
    BY <1>1 DEF TypeInv, InFlightNamesJob
  <2>4. DeliveredListed'
    BY <1>1, <1>2, <2>1 DEF DeliveredListed, DispatcherTypeOK
  <2>5. EventsHaveRows'
    BY <1>1, <2>1, <2>2, <2>3 DEF EventsHaveRows, DispatcherTypeOK
  <2> QED  BY <1>2, <2>4, <2>5 DEF DeliveryInv
<1>4. CASE DispatcherNext /\ UNCHANGED <<sub, consumerVars, repairVars>>
  BY <1>4, DispatcherDelivers
<1>5. CASE UNCHANGED outboxVars /\ ~\E k \in Jobs : Submit(k)
  <2>1. \A j \in Jobs : sub'[j].state = "none" <=> sub[j].state = "none"
    BY <1>1, <1>5, ExistenceStays
  <2>2. UNCHANGED <<outbox, due, batch, cur, dpc>>
    BY <1>5 DEF outboxVars
  <2>3. DeliveredListed'
    BY <1>1, <1>2, <2>2 DEF DeliveredListed
  <2>4. EventsHaveRows'
    BY <1>1, <2>1, <2>2 DEF EventsHaveRows
  <2> QED  BY <1>2, <2>3, <2>4 DEF DeliveryInv
<1> QED  BY <1>3, <1>4, <1>5 DEF Next, vars

(* The strengthened delivery invariant is true of the empty system. *)
LEMMA DeliveryInit == Init => DeliveryInv
<1> SUFFICES ASSUME Init  PROVE DeliveryInv
  OBVIOUS
<1>1. TypeInv
  BY InitTypes
<1>2. /\ outbox = [j \in Jobs |-> "none"] /\ due = {}
      /\ batch = [d \in Dispatchers |-> {}] /\ dpc = [d \in Dispatchers |-> "next"]
  BY DEF Init, DispatcherInit
<1>3. \A j \in Jobs : sub[j].state = "none"
  BY DEF Init, SubmissionsInit, AbsentRow
<1> QED  BY <1>1, <1>2, <1>3 DEF DeliveryInv, DeliveredListed, EventsHaveRows

(* The strengthened delivery invariant holds in every reachable state. *)
THEOREM DeliveryInvariance == Spec => []DeliveryInv
BY DeliveryInit, DeliveryStep, PTL DEF Spec

(* An event is marked delivered only after its job has an entry in the     *)
(* stream, and events and rows exist together (outbox_dispatcher.go,       *)
(* CreateSubmissionAndOutbox), whatever crashes, lost replies and slow     *)
(* dispatchers there are.                                                  *)
THEOREM DeliveredHasEntryCorrect == Spec => []DeliveredHasEntry
<1>1. DeliveryInv => DeliveredHasEntry
  BY DEF DeliveryInv, DeliveredListed, EventsHaveRows, DeliveredHasEntry, Listed
<1> QED  BY <1>1, DeliveryInvariance, PTL

---------------------------------------------------------------------------
(* Refinement.  JobView and Tokens are what the pipeline substitutes for   *)
(* the two variables of JobLifecycle.                                      *)

JobView == [j \in Jobs |-> [phase   |-> sub[j].state,
                            attempt |-> sub[j].attempt,
                            leased  |-> sub[j].lease = "valid",
                            outcome |-> sub[j].verdict,
                            by      |-> sub[j].by]]

Tokens == {<<hs[h].job, hs[h].att>> : h \in {g \in Handlers : Executing(g)}}

(* What a step of one handler does to the tokens in circulation. *)
LEMMA TokensAfter ==
    ASSUME hs \in [Handlers -> Task], NEW h \in Handlers
    PROVE  /\ UNCHANGED hs => UNCHANGED Tokens
           /\ StaysPut(h) => UNCHANGED Tokens
           /\ ~Executing(h) /\ (Release(h) \/ Goto(h, "ack")) => UNCHANGED Tokens
           /\ ~Executing(h) /\ StartRun(h) =>
                 Tokens' = Tokens \cup {<<hs[h].job, sub'[hs[h].job].attempt>>}
           /\ UniqueExecutor /\ Executing(h) /\ (Release(h) \/ Goto(h, "ack")) =>
                 Tokens' = Tokens \ {<<hs[h].job, hs[h].att>>}
<1> DEFINE Token(g) == <<hs[g].job, hs[g].att>>
<1>1. UNCHANGED hs => UNCHANGED Tokens
  BY DEF Tokens, Executing
<1>2. ASSUME \A g \in Handlers :
                /\ Executing(g)' <=> Executing(g)
                /\ Executing(g) => hs'[g].job = hs[g].job /\ hs'[g].att = hs[g].att
      PROVE  UNCHANGED Tokens
  BY <1>2 DEF Tokens
<1>3. StaysPut(h) => UNCHANGED Tokens
  BY <1>2 DEF StaysPut, Executing
<1>4. (Release(h) \/ Goto(h, "ack")) =>
         ~Executing(h)' /\ \A g \in Handlers \ {h} : hs'[g] = hs[g]
  BY DEF Release, Goto, FreeSlot, Task, Executing
<1>5. ~Executing(h) /\ (Release(h) \/ Goto(h, "ack")) => UNCHANGED Tokens
  BY <1>2, <1>4 DEF Executing
<1>6. ASSUME ~Executing(h), StartRun(h)
      PROVE  Tokens' = Tokens \cup {<<hs[h].job, sub'[hs[h].job].attempt>>}
  <2>1. /\ Executing(h)' /\ hs'[h].job = hs[h].job /\ hs'[h].att = sub'[hs[h].job].attempt
        /\ \A g \in Handlers \ {h} : hs'[g] = hs[g]
    BY <1>6 DEF StartRun, Task, Executing
  <2>2. \A g \in Handlers \ {h} : Executing(g)' <=> Executing(g)
    BY <2>1 DEF Executing
  <2> QED  BY <1>6, <2>1, <2>2 DEF Tokens
<1>7. ASSUME UniqueExecutor, Executing(h), Release(h) \/ Goto(h, "ack")
      PROVE  Tokens' = Tokens \ {<<hs[h].job, hs[h].att>>}
  <2>1. \A g \in Handlers \ {h} : Executing(g)' <=> Executing(g)
    BY <1>4, <1>7 DEF Executing
  <2>2. \A g \in Handlers \ {h} : Executing(g) => Token(g) # Token(h)
    BY <1>7 DEF UniqueExecutor
  <2> QED  BY <1>4, <1>7, <2>1, <2>2 DEF Tokens
<1> QED  BY <1>1, <1>3, <1>5, <1>6, <1>7

(* Kept tokens are no new ones. *)
LEMMA KeptTokens ==
    ASSUME \A g \in Handlers : TokenKept(g)
    PROVE  Tokens' \subseteq Tokens
BY DEF TokenKept, Tokens

(* A step that leaves the rows alone only loses tokens. *)
LEMMA RowsAlone ==
    ASSUME TypeInv, [Next]_vars, UNCHANGED sub
    PROVE  UNCHANGED <<JobView, Tokens>> \/ Lifecycle!Die
<1>1. UNCHANGED JobView
  BY DEF JobView
<1>2. Tokens' \subseteq Tokens
  <2>1. CASE \A g \in Handlers : TokenKept(g)
    BY <2>1, KeptTokens
  <2>2. ASSUME NEW h \in Handlers, Starts(h)  PROVE FALSE
    <3>1. hs[h].job \in Jobs /\ sub \in [Jobs -> Row]
      BY <2>2 DEF Starts, TypeInv, TypeOK, SubmissionsTypeOK
    <3>2. sub'[hs[h].job].attempt = sub[hs[h].job].attempt + 1
      BY <2>2, <3>1, RowAfter DEF Starts, Becomes
    <3>3. sub[hs[h].job].attempt \in Nat
      BY <3>1 DEF Row
    <3> QED  BY <3>2, <3>3
  <2> QED  BY <2>1, <2>2, TokenChanges
<1>3. CASE Tokens' # Tokens
  <2> DEFINE T == Tokens \ Tokens'
  <2>1. T \in SUBSET Tokens /\ T # {} /\ Tokens' = Tokens \ T
    BY <1>2, <1>3
  <2>2. \E S \in SUBSET Tokens : S # {} /\ Tokens' = Tokens \ S
    BY <2>1
  <2> QED  BY <1>1, <2>2 DEF Lifecycle!Die, JobView, Tokens
<1> QED  BY <1>1, <1>3

(* Every step that touches a row is the step of the lifecycle of the same  *)
(* meaning.                                                                *)
LEMMA RowStepRefines ==
    ASSUME FenceInv, NEW k \in Jobs
    PROVE  /\ CreateSubmission(k) /\ UNCHANGED Tokens => Lifecycle!Accept(k)
           /\ DeleteOldDoneSubmission(k) /\ UNCHANGED Tokens => Lifecycle!Collect(k)
           /\ LeaseExpires(k) /\ UNCHANGED Tokens => Lifecycle!Lapse(k)
           /\ \A w : ClaimSubmissionForRun(k, w)
                     /\ (UNCHANGED Tokens \/ Tokens' = Tokens \cup {<<k, sub'[k].attempt>>})
                     => Lifecycle!Start(k)
           /\ \A w : ReclaimSubmissionForRun(k, w)
                     /\ (UNCHANGED Tokens \/ Tokens' = Tokens \cup {<<k, sub'[k].attempt>>})
                     => Lifecycle!TakeOver(k)
           /\ MarkSubmissionPoison(k) /\ PoisonMatches(k) /\ UNCHANGED Tokens
                     => Lifecycle!Poison(k)
           /\ \A a, w : RefreshSubmissionLease(k, a, w) /\ <<k, a>> \in Tokens
                        /\ UNCHANGED Tokens => Lifecycle!Renew(k)
           /\ \A a, w, s : FinalizeSubmissionWithFence(k, a, w, s) /\ <<k, a>> \in Tokens
                           /\ Tokens' = Tokens \ {<<k, a>>} => Lifecycle!Finish(k)
<1>1. sub \in [Jobs -> Row] /\ RowOK(k)
  BY DEF FenceInv, TypeInv, TypeOK, SubmissionsTypeOK, RowInv
<1>2. ASSUME CreateSubmission(k), UNCHANGED Tokens  PROVE Lifecycle!Accept(k)
  <2>1. sub[k].state = "none" /\ Becomes(k, "pending", 0, "null", "none", 0)
    BY <1>1, <1>2, RowAfter
  <2>2. sub[k].attempt = 0 /\ sub[k].lease = "null" /\ sub[k].verdict = "none" /\ sub[k].by = 0
    BY <1>1, <2>1 DEF RowOK
  <2>3. JobView' = [JobView EXCEPT ![k].phase = "pending"]
    BY <1>1, <2>1, <2>2 DEF JobView, Becomes, Row
  <2> QED  BY <1>2, <2>1, <2>3 DEF Lifecycle!Accept, JobView, Tokens
<1>3. ASSUME DeleteOldDoneSubmission(k), UNCHANGED Tokens  PROVE Lifecycle!Collect(k)
  <2>1. /\ sub[k].state = "done"
        /\ Becomes(k, "gone", sub[k].attempt, sub[k].lease, sub[k].verdict, sub[k].by)
    BY <1>1, <1>3, RowAfter
  <2>2. JobView' = [JobView EXCEPT ![k].phase = "gone"]
    BY <1>1, <2>1, ZenonT(60) DEF JobView, Becomes, Row
  <2> QED  BY <1>3, <2>1, <2>2 DEF Lifecycle!Collect, JobView, Tokens
<1>4. ASSUME LeaseExpires(k), UNCHANGED Tokens  PROVE Lifecycle!Lapse(k)
  <2>1. /\ sub[k].lease = "valid"
        /\ Becomes(k, sub[k].state, sub[k].attempt, "expired", sub[k].verdict, sub[k].by)
    BY <1>1, <1>4, RowAfter
  <2>2. JobView' = [JobView EXCEPT ![k].leased = FALSE]
    BY <1>1, <2>1 DEF JobView, Becomes, Row
  <2> QED  BY <1>4, <2>1, <2>2 DEF Lifecycle!Lapse, JobView, Tokens
<1>5. ASSUME NEW w, ClaimSubmissionForRun(k, w),
             UNCHANGED Tokens \/ Tokens' = Tokens \cup {<<k, sub'[k].attempt>>}
      PROVE  Lifecycle!Start(k)
  <2>1. /\ sub[k].state = "pending"
        /\ Becomes(k, "processing", sub[k].attempt + 1, "valid", sub[k].verdict, sub[k].by)
    BY <1>1, <1>5, RowAfter
  <2>2. JobView' = [JobView EXCEPT ![k].phase = "processing", ![k].attempt = @ + 1,
                                   ![k].leased = TRUE]
    BY <1>1, <2>1, ZenonT(60) DEF JobView, Becomes, Row
  <2>3. UNCHANGED Tokens \/ Tokens' = Tokens \cup {<<k, sub[k].attempt + 1>>}
    BY <1>5, <2>1 DEF Becomes
  <2> QED  BY <2>1, <2>2, <2>3 DEF Lifecycle!Start, Lifecycle!Enter, JobView, Tokens
<1>6. ASSUME NEW w, ReclaimSubmissionForRun(k, w),
             UNCHANGED Tokens \/ Tokens' = Tokens \cup {<<k, sub'[k].attempt>>}
      PROVE  Lifecycle!TakeOver(k)
  <2>1. /\ sub[k].state = "processing" /\ sub[k].lease = "expired"
        /\ Becomes(k, "processing", sub[k].attempt + 1, "valid", sub[k].verdict, sub[k].by)
    BY <1>1, <1>6, RowAfter
  <2>2. JobView' = [JobView EXCEPT ![k].attempt = @ + 1, ![k].leased = TRUE]
    BY <1>1, <2>1, ZenonT(60) DEF JobView, Becomes, Row
  <2>3. UNCHANGED Tokens \/ Tokens' = Tokens \cup {<<k, sub[k].attempt + 1>>}
    BY <1>6, <2>1 DEF Becomes
  <2> QED  BY <2>1, <2>2, <2>3 DEF Lifecycle!TakeOver, Lifecycle!Enter, JobView, Tokens
<1>7. ASSUME MarkSubmissionPoison(k), PoisonMatches(k), UNCHANGED Tokens
      PROVE  Lifecycle!Poison(k)
  <2>1. /\ sub[k].state \in {"pending", "processing"}
        /\ Becomes(k, "done", sub[k].attempt, "null", "poison", sub[k].by)
    BY <1>1, <1>7, RowAfter
  <2>2. JobView' = [JobView EXCEPT ![k].phase = "done", ![k].leased = FALSE,
                                   ![k].outcome = "poison"]
    BY <1>1, <2>1, ZenonT(60) DEF JobView, Becomes, Row
  <2> QED  BY <1>7, <2>1, <2>2 DEF Lifecycle!Poison, JobView, Tokens
<1>8. ASSUME NEW a, NEW w, RefreshSubmissionLease(k, a, w), <<k, a>> \in Tokens,
             UNCHANGED Tokens
      PROVE  Lifecycle!Renew(k)
  <2>1. /\ sub[k].state = "processing" /\ sub[k].attempt = a
        /\ Becomes(k, "processing", a, "valid", sub[k].verdict, sub[k].by)
    BY <1>1, <1>8, RowAfter
  <2>2. JobView' = [JobView EXCEPT ![k].leased = TRUE]
    BY <1>1, <2>1 DEF JobView, Becomes, Row
  <2> QED  BY <1>8, <2>1, <2>2 DEF Lifecycle!Renew, JobView, Tokens
<1>9. ASSUME NEW a, NEW w, NEW s, FinalizeSubmissionWithFence(k, a, w, s),
             <<k, a>> \in Tokens, Tokens' = Tokens \ {<<k, a>>}
      PROVE  Lifecycle!Finish(k)
  <2>1. /\ sub[k].state = "processing" /\ sub[k].attempt = a /\ sub[k].lease = "valid"
        /\ Becomes(k, "done", a, "null", "judged", a)
    BY <1>1, <1>9, RowAfter
  <2>2. JobView' = [JobView EXCEPT ![k].phase = "done", ![k].leased = FALSE,
                                   ![k].outcome = "judged", ![k].by = sub[k].attempt]
    BY <1>1, <2>1, ZenonT(60) DEF JobView, Becomes, Row
  <2> QED  BY <1>9, <2>1, <2>2 DEF Lifecycle!Finish, JobView, Tokens
<1> QED  BY <1>2, <1>3, <1>4, <1>5, <1>6, <1>7, <1>8, <1>9

(* Every step of the pipeline is a step of the lifecycle, or none. *)
LEMMA StepRefines ==
    ASSUME FenceInv, [Next]_vars
    PROVE  Lifecycle!Next \/ UNCHANGED <<JobView, Tokens>>
<1>1. TypeInv /\ UniqueExecutor /\ hs \in [Handlers -> Task]
  BY DEF FenceInv, TypeInv, TypeOK, ConsumerTypeOK
<1>2. CASE UNCHANGED sub
  BY <1>1, <1>2, RowsAlone DEF Lifecycle!Next
<1>3. ASSUME NEW k \in Jobs, UNCHANGED hs,
             Submit(k) \/ DeleteOldDoneSubmission(k) \/ LeaseExpires(k)
      PROVE  Lifecycle!Next
  <2>1. UNCHANGED Tokens
    BY <1>3 DEF Tokens, Executing
  <2>2. CreateSubmission(k) \/ DeleteOldDoneSubmission(k) \/ LeaseExpires(k)
    BY <1>3 DEF Submit
  <2>3. Lifecycle!Accept(k) \/ Lifecycle!Collect(k) \/ Lifecycle!Lapse(k)
    BY <2>1, <2>2, RowStepRefines
  <2> QED  BY <2>3 DEF Lifecycle!Next
<1>4. ASSUME NEW h \in Handlers, HandlerWrites(h)
      PROVE  Lifecycle!Next \/ UNCHANGED sub
  <2>1. PICK k, w, a, s :
            /\ k \in Jobs
            /\ k = hs[h].job /\ a = hs[h].att
            /\ \/ /\ hs[h].pc = "claim"
                  /\ ClaimSubmissionForRun(k, w)
                  /\ StartRun(h) \/ Release(h)
               \/ /\ hs[h].pc = "reclaim"
                  /\ ReclaimSubmissionForRun(k, w)
                  /\ StartRun(h) \/ Release(h)
               \/ /\ hs[h].pc = "poison"
                  /\ MarkSubmissionPoison(k)
                  /\ Goto(h, "ack") \/ Release(h)
               \/ Executing(h) /\ RefreshSubmissionLease(k, a, w) /\ StaysPut(h)
               \/ /\ hs[h].pc = "finalize"
                  /\ FinalizeSubmissionWithFence(k, a, w, s)
                  /\ Goto(h, "ack") \/ Release(h)
    BY <1>4, Zenon DEF HandlerWrites
  <2>2. ASSUME hs[h].pc \in {"claim", "reclaim"}, StartRun(h) \/ Release(h)
        PROVE  UNCHANGED Tokens \/ Tokens' = Tokens \cup {<<k, sub'[k].attempt>>}
    BY <1>1, <2>1, <2>2, TokensAfter DEF Executing
  <2>3. CASE hs[h].pc = "claim" /\ ClaimSubmissionForRun(k, w) /\ (StartRun(h) \/ Release(h))
    <3>1. Lifecycle!Start(k)
      BY <2>1, <2>2, <2>3, RowStepRefines
    <3> QED  BY <2>1, <3>1 DEF Lifecycle!Next
  <2>4. CASE hs[h].pc = "reclaim" /\ ReclaimSubmissionForRun(k, w) /\ (StartRun(h) \/ Release(h))
    <3>1. Lifecycle!TakeOver(k)
      BY <2>1, <2>2, <2>4, RowStepRefines
    <3> QED  BY <2>1, <3>1 DEF Lifecycle!Next
  <2>5. CASE hs[h].pc = "poison" /\ MarkSubmissionPoison(k) /\ (Goto(h, "ack") \/ Release(h))
    <3>1. UNCHANGED Tokens
      BY <1>1, <2>5, TokensAfter DEF Executing
    <3>2. CASE PoisonMatches(k)
      <4>1. Lifecycle!Poison(k)
        BY <2>1, <2>5, <3>1, <3>2, RowStepRefines
      <4> QED  BY <2>1, <4>1 DEF Lifecycle!Next
    <3>3. CASE ~PoisonMatches(k)
      BY <2>5, <3>3 DEF MarkSubmissionPoison
    <3> QED  BY <3>2, <3>3
  <2>6. CASE Executing(h) /\ RefreshSubmissionLease(k, a, w) /\ StaysPut(h)
    <3>1. UNCHANGED Tokens /\ <<k, a>> \in Tokens
      BY <1>1, <2>1, <2>6, TokensAfter DEF Tokens
    <3>2. Lifecycle!Renew(k)
      BY <2>1, <2>6, <3>1, RowStepRefines
    <3> QED  BY <2>1, <3>2 DEF Lifecycle!Next
  <2>7. CASE /\ hs[h].pc = "finalize"
             /\ FinalizeSubmissionWithFence(k, a, w, s)
             /\ Goto(h, "ack") \/ Release(h)
    <3>1. Executing(h)
      BY <2>7 DEF Executing
    <3>2. Tokens' = Tokens \ {<<k, a>>} /\ <<k, a>> \in Tokens
      BY <1>1, <2>1, <2>7, <3>1, TokensAfter DEF Tokens
    <3>3. Lifecycle!Finish(k)
      BY <2>1, <2>7, <3>2, RowStepRefines
    <3> QED  BY <2>1, <3>3 DEF Lifecycle!Next
  <2> QED  BY <2>1, <2>3, <2>4, <2>5, <2>6, <2>7
<1> QED  BY <1>1, <1>2, <1>3, <1>4, SubmissionChanges

(* The pipeline implements the job lifecycle: whatever happens to messages *)
(* and workers, a job is started once, taken over only after its lease has *)
(* lapsed and under the next attempt, and ended once, by the execution     *)
(* that holds the newest token under a live lease, or as poisoned.         *)
THEOREM LifecycleImplemented == Spec => ImplementsLifecycle
<1>1. Init => Lifecycle!Init
  <2> SUFFICES ASSUME Init  PROVE Lifecycle!Init
    OBVIOUS
  <2>1. JobView = [j \in Jobs |-> Lifecycle!NotSubmitted]
    BY DEF Init, SubmissionsInit, AbsentRow, JobView, Lifecycle!NotSubmitted
  <2>2. \A h \in Handlers : ~Executing(h)
    BY DEF Init, ConsumerInit, FreeSlot, Executing
  <2>3. Tokens = {}
    BY <2>2 DEF Tokens
  <2> QED  BY <2>1, <2>3 DEF Lifecycle!Init, JobView, Tokens
<1>2. FenceInv /\ [Next]_vars => [Lifecycle!Next]_(Lifecycle!lifecycleVars)
  BY StepRefines DEF Lifecycle!lifecycleVars, JobView, Tokens
<1> QED  BY <1>1, <1>2, FenceInvariance, PTL DEF Spec, ImplementsLifecycle, Lifecycle!Spec
=============================================================================
