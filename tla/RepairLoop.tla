----------------------------- MODULE RepairLoop -----------------------------
(***************************************************************************)
(* The scheduler's control plane: the repair loop, which re-enqueues old   *)
(* pending submissions (src/go/internal/scheduler/repair_loop.go), and the *)
(* garbage collector (gc_loop.go).  The repair loop is off by default.     *)
(***************************************************************************)
EXTENDS Submissions, JobStream, Faults

CONSTANTS
    RepairEnabled,  \* SCHEDULER_REPAIR_ENABLED
    MaxEntries      \* bound: in a stream of this length, a job is not enqueued
                    \* again while an entry of it waits

ASSUME RepairAssumption == RepairEnabled \in BOOLEAN /\ MaxEntries \in Nat

VARIABLES
    candidates,     \* jobs the running cycle still has to enqueue
    repairing       \* the job whose payload was set and whose XADD is next

repairVars == <<candidates, repairing>>

RepairTypeOK == candidates \subseteq Jobs /\ repairing \in Jobs \cup {None}

RepairInit == candidates = {} /\ repairing = None

\* An entry of j that the group has yet to see or has pending.
Waiting(j) == \E e \in Entries : stream[e] = j /\ e > trimPos /\ (e >= NextEntry \/ e \in pel)

\* The row is pending.  The bound, which the code does not have, only stops
\* duplicates of entries that still wait, never what would bring a job back.
Repairable(j) == sub[j].state = "pending" /\ (Len(stream) < MaxEntries \/ ~Waiting(j))

RepairScanMissingPayload ==
    /\ RepairEnabled
    /\ candidates = {}
    /\ \E S \in SUBSET {j \in Jobs \ payload : Repairable(j)} : S # {} /\ candidates' = S
    /\ NoFault
    /\ UNCHANGED <<repairing, sub, redisVars>>

\* fetchRepairCandidates: pending rows older than min_age, at most a batch.
RepairScan ==
    /\ RepairEnabled
    /\ candidates = {}
    /\ \E S \in SUBSET {j \in Jobs : Repairable(j)} : S # {} /\ candidates' = S
    /\ NoFault
    /\ UNCHANGED <<repairing, sub, redisVars>>

(* enqueueRepairedJob, first half.  The row is not looked at again. *)
RepairSetPayload(j) ==
    /\ repairing = None
    /\ j \in candidates
    /\ \/ /\ SetPayload(j)
          /\ repairing' = j
          /\ NoFault
          /\ UNCHANGED candidates
       \/ /\ Fault("redis_set")
          /\ candidates' = candidates \ {j}
          /\ UNCHANGED <<repairing, redisVars>>
    /\ UNCHANGED sub

(* Second half: a failed XADD leaves the payload key in place. *)
RepairXAdd ==
    /\ repairing # None
    /\ \/ XAdd(repairing) /\ NoFault
       \/ Fault("redis_xadd") /\ UNCHANGED redisVars
    /\ candidates' = candidates \ {repairing}
    /\ repairing' = None
    /\ UNCHANGED sub

GcDone(j) ==
    /\ Fault("gc")
    /\ DeleteOldDoneSubmission(j)
    /\ UNCHANGED <<repairVars, redisVars>>

StreamTrim ==
    /\ Fault("trim")
    /\ TrimOldest
    /\ UNCHANGED <<repairVars, sub>>

RepairStep == RepairScan \/ RepairXAdd \/ \E j \in Jobs : RepairSetPayload(j)

ControlPlaneNext == RepairStep \/ StreamTrim \/ \E j \in Jobs : GcDone(j)
=============================================================================
