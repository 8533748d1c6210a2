--------------------------- MODULE StreamConsumer ---------------------------
(***************************************************************************)
(* The worker (src/go/internal/worker/stream_consumer.go).  A worker has a *)
(* pool of slots; a handler is one slot and runs handleMessage (entry read *)
(* by XREADGROUP) or handleReclaimedMessage (entry taken by XAUTOCLAIM),   *)
(* both of which end in runClaimedExecution with its heartbeat goroutine.  *)
(* Every call to Redis or to the database is a step of its own: anything   *)
(* may happen between two of them.                                         *)
(*                                                                         *)
(* A database or Redis error has two forms: "x" did not take effect,       *)
(* "x_reply" took effect and its reply was lost.                           *)
(***************************************************************************)
EXTENDS Submissions, JobStream, Faults

CONSTANTS
    Slots,              \* slots of one worker, 1..PoolSize
    HeartbeatRetries    \* maxHeartbeatErrorRetries

ASSUME HeartbeatAssumption == HeartbeatRetries \in Nat \ {0}

VARIABLES
    up,     \* up[w]: "down", "up", or "idle": a process whose consumer has exited
    hs      \* hs[h]: the local state of handler h

consumerVars == <<up, hs>>

Handlers == Workers \X Slots

WorkerOf(h) == h[1]

PC == {"free", "fetch", "poison", "claim", "reclaim", "inspect", "run", "ran",
       "resolve", "finalize", "reject", "ack"}

Task == [pc    : PC,
         via   : {"new", "reclaim"},
         entry : Nat,
         job   : Jobs \cup {None},
         att   : Nat,           \* attempt_id the claim returned
         errs  : Nat,           \* consecutive heartbeat errors
         lost  : BOOLEAN,       \* the heartbeat has reported the lease lost
         src   : Nat]           \* attempt whose result will be written

FreeSlot == [pc |-> "free", via |-> "new", entry |-> 0, job |-> None, att |-> 0,
             errs |-> 0, lost |-> FALSE, src |-> 0]

ConsumerTypeOK ==
    /\ up \in [Workers -> {"down", "up", "idle"}]
    /\ hs \in [Handlers -> Task]

ConsumerInit ==
    /\ up = [w \in Workers |-> "down"]
    /\ hs = [h \in Handlers |-> FreeSlot]

\* h holds the fencing token hs[h].att: from its claim up to its final write.
Executing(h) == hs[h].pc \in {"run", "ran", "resolve", "finalize"}

\* h has read an entry from the group and not yet tried to claim the row.
Unclaimed(h) == hs[h].via = "new" /\ hs[h].pc \in {"fetch", "claim", "poison"}

\* h is the live holder of job j's lease: it will refresh or finalize it.
Holds(h, j) ==
    /\ Executing(h)
    /\ hs[h].job = j
    /\ hs[h].att = sub[j].attempt
    /\ ~hs[h].lost

Goto(h, p) == hs' = [hs EXCEPT ![h].pc = p]

Release(h) == hs' = [hs EXCEPT ![h] = FreeSlot]

\* A claim or reclaim CAS succeeded: execution starts under the attempt_id
\* the statement returns (RETURNING attempt_id).
StartRun(h) == hs' = [hs EXCEPT ![h] = [@ EXCEPT !.pc = "run",
                                                 !.att = sub'[hs[h].job].attempt]]

---------------------------------------------------------------------------
(* Run: EnsureGroup, then the read and the reclaim loops.  When EnsureGroup *)
(* fails Run returns, and main keeps waiting for a signal.                  *)
StartWorker(w) ==
    /\ up[w] = "down"
    /\ \/ EnsureGroup /\ up' = [up EXCEPT ![w] = "up"] /\ NoFault
       \/ /\ Fault("redis_group")
          /\ up' = [up EXCEPT ![w] = "idle"]
          /\ UNCHANGED redisVars
    /\ UNCHANGED <<sub, hs>>

(* The process dies (or is stopped) with everything its handlers hold. *)
CrashWorker(w) ==
    /\ up[w] # "down"
    /\ Fault(IF \E h \in Handlers : WorkerOf(h) = w /\ Unclaimed(h)
             THEN "crash_unclaimed" ELSE "crash")
    /\ up' = [up EXCEPT ![w] = "down"]
    /\ hs' = [h \in Handlers |-> IF WorkerOf(h) = w THEN FreeSlot ELSE hs[h]]
    /\ UNCHANGED <<sub, redisVars>>

Deliver(h, e, how) ==
    hs' = [hs EXCEPT ![h] = [FreeSlot EXCEPT !.pc = "fetch", !.via = how,
                                             !.entry = e, !.job = stream[e]]]

(* Run's loop body: a slot is reserved, an entry read, a goroutine started. *)
ReadNew(h) ==
    /\ up[WorkerOf(h)] = "up"
    /\ hs[h].pc = "free"
    /\ \E e \in Entries :
          /\ ReadNewEntry(e)
          /\ \/ Deliver(h, e, "new") /\ NoFault
             \/ Fault("redis_read_reply") /\ UNCHANGED hs   \* in the PEL, unseen
    /\ UNCHANGED <<sub, up>>

(* reclaimOnce *)
AutoClaim(h) ==
    /\ up[WorkerOf(h)] = "up"
    /\ hs[h].pc = "free"
    /\ \E e \in idle :
          \/ AutoClaimEntry(e) /\ Deliver(h, e, "reclaim")
          \/ AckDeletedEntry(e) /\ UNCHANGED hs
    /\ NoFault
    /\ UNCHANGED <<sub, up>>

(* GET payload.  An error of Redis is treated like a missing payload. *)
FetchPayload(h) ==
    /\ hs[h].pc = "fetch"
    /\ \/ /\ hs[h].job \in payload
          /\ Goto(h, IF hs[h].via = "new" THEN "claim" ELSE "reclaim")
          /\ NoFault
       \/ /\ hs[h].job \notin payload
          /\ Goto(h, "poison")
          /\ NoFault
       \/ /\ Fault("redis_get")
          /\ Goto(h, "poison")
    /\ UNCHANGED <<sub, up, redisVars>>

(* markPoisonBeforeAck: the entry is only acknowledged once it succeeded. *)
MarkPoison(h) ==
    /\ hs[h].pc = "poison"
    /\ \/ MarkSubmissionPoison(hs[h].job) /\ Goto(h, "ack") /\ NoFault
       \/ Fault("db_poison") /\ Release(h) /\ UNCHANGED sub
       \/ Fault("db_poison_reply") /\ MarkSubmissionPoison(hs[h].job) /\ Release(h)
    /\ UNCHANGED <<up, redisVars>>

Claim(h) ==
    /\ hs[h].pc = "claim"
    /\ \/ ClaimSubmissionForRun(hs[h].job, WorkerOf(h)) /\ StartRun(h) /\ NoFault
       \/ ~ClaimMatches(hs[h].job) /\ Goto(h, "ack") /\ NoFault /\ UNCHANGED sub
       \/ Fault("db_claim") /\ Release(h) /\ UNCHANGED sub
       \/ /\ Fault("db_claim_reply")
          /\ ClaimSubmissionForRun(hs[h].job, WorkerOf(h))
          /\ Release(h)
    /\ UNCHANGED <<up, redisVars>>

Reclaim(h) ==
    /\ hs[h].pc = "reclaim"
    /\ \/ ReclaimSubmissionForRun(hs[h].job, WorkerOf(h)) /\ StartRun(h) /\ NoFault
       \/ ~ReclaimMatches(hs[h].job) /\ Goto(h, "inspect") /\ NoFault /\ UNCHANGED sub
       \/ Fault("db_reclaim") /\ Release(h) /\ UNCHANGED sub
       \/ /\ Fault("db_reclaim_reply")
          /\ ReclaimSubmissionForRun(hs[h].job, WorkerOf(h))
          /\ Release(h)
    /\ UNCHANGED <<up, redisVars>>

InspectReclaimAcksAll(h) ==
    /\ hs[h].pc = "inspect"
    /\ Goto(h, "ack")
    /\ NoFault
    /\ UNCHANGED <<sub, up, redisVars>>

(* The SELECT after a refused takeover, and what the handler does with it. *)
InspectReclaim(h) ==
    /\ hs[h].pc = "inspect"
    /\ \/ /\ ReclaimDecision(hs[h].job) \in {"done_or_stale", "not_found"}
          /\ Goto(h, "ack")
          /\ NoFault
       \/ /\ ReclaimDecision(hs[h].job) = "lease_still_valid"
          /\ Release(h)
          /\ NoFault
       \/ Fault("db_reclaim") /\ Release(h)
    /\ UNCHANGED <<sub, up, redisVars>>

---------------------------------------------------------------------------
(* runLeaseHeartbeat, concurrent with the execution.  It may still be in   *)
(* RefreshSubmissionLease when ExecuteTask has returned ("ran").           *)
Heartbeat(h) ==
    LET j == hs[h].job
        a == hs[h].att
        w == WorkerOf(h)
    IN  /\ hs[h].pc \in {"run", "ran"}
        /\ ~hs[h].lost
        /\ \/ /\ RefreshSubmissionLease(j, a, w)
              /\ hs' = [hs EXCEPT ![h].errs = 0]
              /\ NoFault
           \/ /\ ~RefreshMatches(j, a, w)
              /\ hs' = [hs EXCEPT ![h] = [@ EXCEPT !.errs = 0, !.lost = TRUE]]
              /\ NoFault
              /\ UNCHANGED sub
           \/ /\ Fault("db_heartbeat")
              /\ hs' = [hs EXCEPT ![h] = [@ EXCEPT !.errs = hs[h].errs + 1,
                                                   !.lost = hs[h].errs + 1 >= HeartbeatRetries]]
              /\ RefreshSubmissionLease(j, a, w) \/ UNCHANGED sub    \* reply lost, or no effect
        /\ UNCHANGED <<up, redisVars>>

(* cancelRun hits a refresh in flight: one more error, maybe the last one. *)
HeartbeatCancelled(h) ==
    /\ hs[h].pc = "ran"
    /\ ~hs[h].lost
    /\ hs[h].errs + 1 >= HeartbeatRetries
    /\ hs' = [hs EXCEPT ![h].lost = TRUE]
    /\ NoFault
    /\ UNCHANGED <<sub, up, redisVars>>

(* ExecuteTask returns: normally it has reported a result.  A cancelled    *)
(* execution or a failed SETNX returns without one.                        *)
ExecuteTask(h) ==
    /\ hs[h].pc = "run"
    /\ \/ ReportResult(hs[h].job, hs[h].att) /\ NoFault
       \/ hs[h].lost /\ NoFault /\ UNCHANGED redisVars
       \/ Fault("redis_report") /\ UNCHANGED redisVars
    /\ Goto(h, "ran")
    /\ UNCHANGED <<sub, up>>

(* cancelRun ; hbRes := <-hbCh.  A lost lease ends the handler: no final   *)
(* write, no XACK.                                                         *)
JoinHeartbeat(h) ==
    /\ hs[h].pc = "ran"
    /\ IF hs[h].lost THEN Release(h) ELSE Goto(h, "resolve")
    /\ NoFault
    /\ UNCHANGED <<sub, up, redisVars>>

(* resolveFinalResult: result:<job>, whichever attempt wrote it, else a    *)
(* fallback built from this execution's response.                          *)
ResolveFinalResult(h) ==
    /\ hs[h].pc = "resolve"
    /\ \E fromKey \in BOOLEAN :
          /\ IF fromKey THEN resultKey[hs[h].job] # 0 /\ NoFault
                        ELSE IF resultKey[hs[h].job] = 0 THEN NoFault
                                                         ELSE Fault("redis_result")
          /\ hs' = [hs EXCEPT ![h] = [@ EXCEPT !.pc = "finalize",
                                               !.src = IF fromKey THEN resultKey[hs[h].job] ELSE hs[h].att]]
    /\ UNCHANGED <<sub, up, redisVars>>

Finalize(h) ==
    LET j == hs[h].job
        a == hs[h].att
        w == WorkerOf(h)
    IN  /\ hs[h].pc = "finalize"
        /\ \/ /\ FinalizeSubmissionWithFence(j, a, w, hs[h].src)
              /\ Goto(h, "ack")
              /\ NoFault
           \/ /\ ~FinalizeMatches(j, a, w)
              /\ Goto(h, "reject")
              /\ NoFault
              /\ UNCHANGED sub
           \/ Fault("db_finalize") /\ Release(h) /\ UNCHANGED sub
           \/ /\ Fault("db_finalize_reply")
              /\ FinalizeSubmissionWithFence(j, a, w, hs[h].src)
              /\ Release(h)
        /\ UNCHANGED <<up, redisVars>>

BusinessRejects == {"stale_attempt", "already_finished", "not_in_expected_state",
                    "lease_lost_or_owner_mismatch"}

(* A refused final write is acknowledged when its reason is a business one. *)
ExplainReject(h) ==
    /\ hs[h].pc = "reject"
    /\ \/ /\ FinalizeRejectReason(hs[h].job, hs[h].att, WorkerOf(h)) \in BusinessRejects
          /\ Goto(h, "ack")
          /\ NoFault
       \/ Fault("db_finalize") /\ Release(h)
    /\ UNCHANGED <<sub, up, redisVars>>

(* xackWithRetry; both tries failing is one failure here. *)
Ack(h) ==
    /\ hs[h].pc = "ack"
    /\ \/ XAck(hs[h].entry) /\ NoFault
       \/ Fault("redis_ack") /\ UNCHANGED redisVars
    /\ Release(h)
    /\ UNCHANGED <<sub, up>>

---------------------------------------------------------------------------
(* Time.  A lease held by a live handler only runs out when its worker     *)
(* stalls for longer than lease_sec.  slow_inspect is the lease running    *)
(* out between the two statements of ReclaimSubmissionForRun.              *)
LeasePasses(j) ==
    /\ LeaseExpires(j)
    /\ IF \E h \in Handlers : Holds(h, j) THEN Fault("slow_lease")
       ELSE IF \E h \in Handlers : hs[h].pc = "inspect" /\ hs[h].job = j
       THEN Fault("slow_inspect")
       ELSE NoFault
    /\ UNCHANGED <<up, hs, redisVars>>

(* An entry turns idle in the hands of a handler that does not execute it  *)
(* (yet, or any more) only when that handler stalls for lease + grace.     *)
IdlePasses(e) ==
    /\ EntryTurnsIdle(e)
    /\ IF \E h \in Handlers : hs[h].entry = e /\ ~Executing(h)
       THEN Fault("slow_handler") ELSE NoFault
    /\ UNCHANGED <<sub, up, hs>>

(* Redis drops a key whose TTL is over. *)
KeyExpires(j) ==
    /\ Fault("ttl")
    /\ (j \in payload /\ DelPayload(j)) \/ ResultExpires(j)
    /\ UNCHANGED <<sub, up, hs>>

HandlerStep(h) ==
    \/ FetchPayload(h)
    \/ MarkPoison(h)
    \/ Claim(h)
    \/ Reclaim(h)
    \/ InspectReclaim(h)
    \/ ExecuteTask(h)
    \/ JoinHeartbeat(h)
    \/ ResolveFinalResult(h)
    \/ Finalize(h)
    \/ ExplainReject(h)
    \/ Ack(h)

ConsumerNext ==
    \/ \E w \in Workers : StartWorker(w) \/ CrashWorker(w)
    \/ \E h \in Handlers :
          \/ ReadNew(h)
          \/ AutoClaim(h)
          \/ HandlerStep(h)
          \/ Heartbeat(h)
          \/ HeartbeatCancelled(h)
    \/ \E j \in Jobs : LeasePasses(j) \/ KeyExpires(j)
    \/ \E e \in pel : IdlePasses(e)
=============================================================================
