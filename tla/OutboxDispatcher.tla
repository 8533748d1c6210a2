-------------------------- MODULE OutboxDispatcher --------------------------
(***************************************************************************)
(* The transactional outbox: the table outbox_events                       *)
(* (src/go/internal/repository/postgres_outbox.go) and the dispatcher of   *)
(* every API replica (src/go/internal/api/outbox_dispatcher.go), which     *)
(* turns a pending event into SET payload ; XADD ; MarkOutboxDispatched.   *)
(*                                                                         *)
(* attempts and next_attempt_at are abstracted to whether the backoff the  *)
(* last claim has set is over.                                             *)
(***************************************************************************)
EXTENDS JobStream, Faults

CONSTANT Dispatchers    \* one per API replica

VARIABLES
    outbox,     \* outbox[j]: "none", "pending" or "delivered"
    due,        \* pending events with next_attempt_at <= NOW()
    batch,      \* batch[d]: events d has claimed and not finished
    cur,        \* cur[d]: the event dispatchOne is working on, or None
    dpc         \* dpc[d]: where dispatchOne is: "next", "xadd", "del", "mark"

outboxVars == <<outbox, due, batch, cur, dpc>>

DispatcherTypeOK ==
    /\ outbox \in [Jobs -> {"none", "pending", "delivered"}]
    /\ due \subseteq Jobs
    /\ batch \in [Dispatchers -> SUBSET Jobs]
    /\ cur \in [Dispatchers -> Jobs \cup {None}]
    /\ dpc \in [Dispatchers -> {"next", "xadd", "del", "mark"}]

DispatcherInit ==
    /\ outbox = [j \in Jobs |-> "none"]
    /\ due = {}
    /\ batch = [d \in Dispatchers |-> {}]
    /\ cur = [d \in Dispatchers |-> None]
    /\ dpc = [d \in Dispatchers |-> "next"]

(* The INSERT of the event, part of the submission's transaction. *)
InsertOutboxEvent(j) ==
    /\ outbox' = [outbox EXCEPT ![j] = "pending"]
    /\ due' = due \cup {j}
    /\ UNCHANGED <<batch, cur, dpc>>

---------------------------------------------------------------------------
(* Claiming pushes next_attempt_at into the future, so that no other       *)
(* replica takes the event until the backoff is over.  SKIP LOCKED and     *)
(* LIMIT make the batch some set of the due events.                        *)
ClaimPendingOutboxEvents(d) ==
    /\ batch[d] = {}
    /\ \E S \in SUBSET due :
          /\ S # {}
          /\ batch' = [batch EXCEPT ![d] = S]
          /\ due' = due \ S
    /\ NoFault
    /\ UNCHANGED <<outbox, cur, dpc, redisVars>>

\* dispatchOne returns: the event leaves the batch, whatever became of it.
FinishEvent(d) ==
    /\ batch' = [batch EXCEPT ![d] = @ \ {cur[d]}]
    /\ cur' = [cur EXCEPT ![d] = None]
    /\ dpc' = [dpc EXCEPT ![d] = "next"]

DispatchSet(d, j) ==
    /\ dpc[d] = "next"
    /\ j \in batch[d]
    /\ \/ /\ SetPayload(j)
          /\ cur' = [cur EXCEPT ![d] = j]
          /\ dpc' = [dpc EXCEPT ![d] = "xadd"]
          /\ NoFault
          /\ UNCHANGED batch
       \/ /\ Fault("redis_set")     \* markDispatchError: stays pending
          /\ batch' = [batch EXCEPT ![d] = @ \ {j}]
          /\ UNCHANGED <<cur, dpc, redisVars>>
    /\ UNCHANGED <<outbox, due>>

DispatchXAddIgnoresError(d) ==
    /\ dpc[d] = "xadd"
    /\ \/ XAdd(cur[d]) /\ NoFault
       \/ Fault("redis_xadd") /\ UNCHANGED redisVars
    /\ dpc' = [dpc EXCEPT ![d] = "mark"]
    /\ UNCHANGED <<outbox, due, batch, cur>>

(* A failed XADD may or may not have added the entry (the reply is lost). *)
DispatchXAdd(d) ==
    /\ dpc[d] = "xadd"
    /\ \/ /\ XAdd(cur[d])
          /\ NoFault
          /\ dpc' = [dpc EXCEPT ![d] = "mark"]
       \/ /\ Fault("redis_xadd")
          /\ dpc' = [dpc EXCEPT ![d] = "del"]
          /\ UNCHANGED redisVars
       \/ /\ Fault("redis_xadd_reply")
          /\ XAdd(cur[d])
          /\ dpc' = [dpc EXCEPT ![d] = "del"]
    /\ UNCHANGED <<outbox, due, batch, cur>>

(* After a failed XADD the payload key is deleted (the DEL may fail with   *)
(* the same outage) and markDispatchError leaves the event pending.        *)
DispatchDel(d) ==
    /\ dpc[d] = "del"
    /\ DelPayload(cur[d]) \/ UNCHANGED redisVars
    /\ FinishEvent(d)
    /\ NoFault
    /\ UNCHANGED <<outbox, due>>

DispatchMarkCleansUp(d) ==
    /\ dpc[d] = "mark"
    /\ \/ /\ outbox' = [outbox EXCEPT ![cur[d]] = "delivered"]
          /\ due' = due \ {cur[d]}
          /\ FinishEvent(d)
          /\ NoFault
       \/ /\ Fault("db_outbox")
          /\ dpc' = [dpc EXCEPT ![d] = "del"]
          /\ UNCHANGED <<outbox, due, batch, cur>>
    /\ UNCHANGED redisVars

(* The UPDATE of MarkOutboxDispatched has no guard on the old status. *)
DispatchMark(d) ==
    /\ dpc[d] = "mark"
    /\ \/ /\ outbox' = [outbox EXCEPT ![cur[d]] = "delivered"]
          /\ due' = due \ {cur[d]}
          /\ NoFault
       \/ /\ Fault("db_outbox")     \* stays pending: it will be sent again
          /\ UNCHANGED <<outbox, due>>
    /\ FinishEvent(d)
    /\ UNCHANGED redisVars

(* The API process dies; its claims are only given back by the backoff. *)
CrashDispatcher(d) ==
    /\ batch[d] # {}
    /\ Fault("crash_api")
    /\ batch' = [batch EXCEPT ![d] = {}]
    /\ cur' = [cur EXCEPT ![d] = None]
    /\ dpc' = [dpc EXCEPT ![d] = "next"]
    /\ UNCHANGED <<outbox, due, redisVars>>

BackoffOnlyOnceSent(j) ==
    /\ outbox[j] = "pending"
    /\ j \notin due
    /\ j \in payload
    /\ due' = due \cup {j}
    /\ IF \E d \in Dispatchers : j \in batch[d] THEN Fault("slow_dispatch") ELSE NoFault
    /\ UNCHANGED <<outbox, batch, cur, dpc, redisVars>>

(* NOW() reaches next_attempt_at.  That this happens while a dispatcher    *)
(* still works on the event takes a dispatcher slower than its backoff.    *)
BackoffElapses(j) ==
    /\ outbox[j] = "pending"
    /\ j \notin due
    /\ due' = due \cup {j}
    /\ IF \E d \in Dispatchers : j \in batch[d] THEN Fault("slow_dispatch") ELSE NoFault
    /\ UNCHANGED <<outbox, batch, cur, dpc, redisVars>>

DispatcherStep(d) ==
    \/ ClaimPendingOutboxEvents(d)
    \/ \E j \in Jobs : DispatchSet(d, j)
    \/ DispatchXAdd(d)
    \/ DispatchDel(d)
    \/ DispatchMark(d)

DispatcherNext ==
    \/ \E d \in Dispatchers : DispatcherStep(d) \/ CrashDispatcher(d)
    \/ \E j \in Jobs : BackoffElapses(j)
=============================================================================
