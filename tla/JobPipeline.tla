---------------------------- MODULE JobPipeline ----------------------------
(***************************************************************************)
(* The data plane: API (outbox) -> Redis stream -> worker (XREADGROUP) ->  *)
(* final write in PostgreSQL -> XACK, with the reclaim loop (XAUTOCLAIM)   *)
(* and the scheduler's repair and GC loops beside it.                      *)
(***************************************************************************)
EXTENDS OutboxDispatcher, StreamConsumer, RepairLoop

vars == <<sub, redisVars, budget, outboxVars, consumerVars, repairVars>>

Init ==
    /\ SubmissionsInit
    /\ JobStreamInit
    /\ FaultsInit
    /\ DispatcherInit
    /\ ConsumerInit
    /\ RepairInit

(* CreateSubmissionAndOutbox: both rows in one transaction. *)
Submit(j) ==
    /\ CreateSubmission(j)
    /\ InsertOutboxEvent(j)
    /\ NoFault
    /\ UNCHANGED <<redisVars, consumerVars, repairVars>>

Next ==
    \/ \E j \in Jobs : Submit(j)
    \/ DispatcherNext /\ UNCHANGED <<sub, consumerVars, repairVars>>
    \/ ConsumerNext /\ UNCHANGED <<outboxVars, repairVars>>
    \/ ControlPlaneNext /\ UNCHANGED <<outboxVars, consumerVars>>

Spec == Init /\ [][Next]_vars

---------------------------------------------------------------------------
(* Fairness.  Processes that run keep running: a dispatcher's ticker, the  *)
(* read and reclaim loops of a worker and its handlers, the repair loop,   *)
(* and a process manager that restarts workers.  Clocks advance: a lease   *)
(* nobody refreshes runs out sooner or later at an instant that is not     *)
(* between the two statements of some reclaim, even if reclaims keep being *)
(* refused (hence SF).  Nothing is assumed of submissions and of the       *)
(* heartbeat, and NoFault keeps a failure from ever being what fairness    *)
(* asks for.                                                               *)
Fairness ==
    /\ \A d \in Dispatchers :
          WF_vars(DispatcherStep(d) /\ NoFault /\ UNCHANGED <<sub, consumerVars, repairVars>>)
    /\ \A j \in Jobs :
          /\ WF_vars(BackoffElapses(j) /\ NoFault /\ UNCHANGED <<sub, consumerVars, repairVars>>)
          /\ SF_vars(LeasePasses(j) /\ NoFault /\ UNCHANGED <<outboxVars, repairVars>>)
    /\ \A w \in Workers :
          WF_vars(StartWorker(w) /\ NoFault /\ UNCHANGED <<outboxVars, repairVars>>)
    /\ \A h \in Handlers :
          /\ WF_vars(HandlerStep(h) /\ NoFault /\ UNCHANGED <<outboxVars, repairVars>>)
          /\ WF_vars(ReadNew(h) /\ NoFault /\ UNCHANGED <<outboxVars, repairVars>>)
          /\ WF_vars(AutoClaim(h) /\ UNCHANGED <<outboxVars, repairVars>>)
    /\ \A e \in 1..(2 * MaxEntries) :      \* a stream has no more in any of the runs
          WF_vars(e \in pel /\ IdlePasses(e) /\ NoFault /\ UNCHANGED <<outboxVars, repairVars>>)
    /\ WF_vars(RepairStep /\ NoFault /\ UNCHANGED <<outboxVars, consumerVars>>)

FairSpec == Spec /\ Fairness

---------------------------------------------------------------------------
(* The types of all variables: in particular an idle entry is pending, and *)
(* what is in flight (batch, candidates, handlers) names real jobs.        *)
TypeOK ==
    /\ SubmissionsTypeOK
    /\ JobStreamTypeOK
    /\ budget \in Nat
    /\ DispatcherTypeOK
    /\ ConsumerTypeOK
    /\ RepairTypeOK

(* The attempt_id is a fencing token: whatever the duplicates, crashes and *)
(* takeovers, no two handlers ever execute the same job under the same     *)
(* attempt_id (claim and reclaim CAS), not even two slots of one worker,   *)
(* which share the lease owner.                                            *)
UniqueExecutor ==
    \A g, h \in Handlers :
        /\ g # h
        /\ Executing(g) /\ Executing(h)
        /\ hs[g].job = hs[h].job
        => hs[g].att # hs[h].att

(* INV-3, "claim -> DB CAS(RUNNING)" before execution: the token of an     *)
(* executing handler was handed out by the row, and as long as the row     *)
(* still runs under that token the handler's worker owns the lease.        *)
TokenFromRow ==
    \A h \in Handlers : Executing(h) =>
        LET r == sub[hs[h].job] IN
        /\ hs[h].att \in 1..r.attempt
        /\ r.state = "processing" /\ r.attempt = hs[h].att => r.owner = WorkerOf(h)

(* INV-1 and INV-5: a judged row carries the attempt_id of the newest      *)
(* claim, never that of an execution that was taken over, and the result   *)
(* it stores was computed under one of the claims of this job.             *)
JudgedByNewestAttempt ==
    \A j \in Jobs : sub[j].verdict = "judged" =>
        /\ sub[j].by = sub[j].attempt
        /\ sub[j].src \in 1..sub[j].attempt

(* A done row is final: no late finalize, heartbeat, takeover, duplicate   *)
(* entry or poison mark changes it; only retention removes it.             *)
DoneIsFinal ==
    [][\A j \in Jobs : sub[j].state \in {"done", "gone"} =>
          sub'[j] \in {sub[j], [sub[j] EXCEPT !.state = "gone"]}]_vars

(* An event is only marked delivered after an entry for its job was added  *)
(* to the stream, and no event is dropped: an accepted job's event is      *)
(* pending until then (outbox at-least-once delivery).                     *)
DeliveredHasEntry ==
    \A j \in Jobs :
        /\ outbox[j] = "delivered" => \E e \in Entries : stream[e] = j
        /\ outbox[j] = "none" <=> sub[j].state = "none"

(* The pipeline implements the lifecycle a client relies on. *)
Lifecycle == INSTANCE JobLifecycle WITH
    job <- [j \in Jobs |-> [phase   |-> sub[j].state,
                            attempt |-> sub[j].attempt,
                            leased  |-> sub[j].lease = "valid",
                            outcome |-> sub[j].verdict,
                            by      |-> sub[j].by]],
    tokens <- {<<hs[h].job, hs[h].att>> : h \in {g \in Handlers : Executing(g)}}

(* Every step of dispatcher, stream, workers and loops is a step of the    *)
(* abstract job lifecycle or invisible to it.                              *)
ImplementsLifecycle == Lifecycle!Spec

---------------------------------------------------------------------------
Open(j) == sub[j].state \in {"pending", "processing"}

\* Something that will still drive j: its event, an entry that waits, or a
\* handler or repair cycle that works on it.
Driven(j) ==
    \/ outbox[j] = "pending"
    \/ Waiting(j)
    \/ \E h \in Handlers : hs[h].job = j
    \/ j \in candidates

(* No job is lost: an open job always has something left that drives it.   *)
NoOrphan == \A j \in Jobs : Open(j) => Driven(j)

(* No accepted job is ended as poisoned: its payload was valid when it was *)
(* submitted.                                                              *)
NeverPoisoned == \A j \in Jobs : sub[j].verdict # "poison"

(* While an execution holds the live lease of its job, no other message    *)
(* about the job ends it as poisoned: duplicates are turned away by the    *)
(* claim, not by overriding the attempt that runs.                         *)
DuplicatesAreRejected ==
    [][\A j \in Jobs :
          Running(j) /\ sub[j].lease = "valid" /\ (\E h \in Handlers : Holds(h, j))
          => sub'[j].verdict # "poison"]_vars

(* Every accepted job reaches a final state: with the repair loop off,     *)
(* after the failures that leave it something that drives it; with the     *)
(* loop on, after any failure that does not leave the row in processing.   *)
EventuallyDone == \A j \in Jobs : Open(j) ~> ~Open(j)
=============================================================================
