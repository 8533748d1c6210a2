--------------------------- MODULE RecoveryProofs ---------------------------
(***************************************************************************)
(* No accepted job is lost: as long as none of LossyFaults happens, an     *)
(* open job always has something left that drives it and is never ended as *)
(* poisoned, whatever else fails and however often.                        *)
(***************************************************************************)
EXTENDS JobPipelineProofs

\* The failures that do lose jobs: an XADD whose error makes the dispatcher
\* delete the payload, replies of Redis that a handler mistakes for a missing
\* payload or never sees, a first claim that fails or is never made, keys and
\* entries that disappear, and stalls longer than lease or grace.
LossyFaults == {"redis_xadd", "redis_xadd_reply", "redis_get", "redis_read_reply",
                "db_claim", "crash_unclaimed", "slow_lease", "slow_inspect",
                "slow_handler", "ttl", "trim"}

Recoverable == FaultKinds \cap LossyFaults = {} /\ ~FirstBoot

\* The row of j has been claimed at least once.
Claimed(j) == sub[j].state \in {"processing", "done", "gone"}

\* h has read a new entry and not yet claimed its row ...
Fetching(h) == hs[h].via = "new" /\ hs[h].pc \in {"fetch", "claim"}

\* ... or will not acknowledge its entry while the row runs.
Keeps(h) ==
    \/ Executing(h)
    \/ hs[h].pc \in {"reclaim", "inspect"}
    \/ hs[h].pc = "fetch" /\ hs[h].via = "reclaim"

\* Whatever is or will be in the stream was submitted and has its payload.
PayloadInv ==
    /\ Listed \subseteq payload
    /\ \A j \in Listed \cup candidates : sub[j].state # "none"
    /\ \A d \in Dispatchers : dpc[d] # "del"
    /\ \A d \in Dispatchers : dpc[d] # "next" => cur[d] \in payload
    /\ repairing # None => repairing \in payload /\ sub[repairing].state # "none"

\* The group never skips an entry, and a handler works on a delivered one.
PositionInv ==
    /\ group
    /\ trimPos = 0
    /\ groupPos <= Len(stream)
    /\ \A e \in pel : e <= groupPos
    /\ \A h \in Handlers : hs[h].pc # "free" =>
          /\ hs[h].entry \in Entries
          /\ hs[h].entry <= groupPos
          /\ stream[hs[h].entry] = hs[h].job

\* An entry nobody has claimed the row for is in the hands of one handler.
UnclaimedInv ==
    /\ \A h \in Handlers : hs[h].pc = "claim" => hs[h].via = "new"
    /\ \A h \in Handlers : Fetching(h) =>
          /\ hs[h].entry \in pel \ idle
          /\ \A g \in Handlers \ {h} : hs[g].pc # "free" => hs[g].entry # hs[h].entry
    /\ \A h \in Handlers : hs[h].pc # "free" /\ ~Fetching(h) => Claimed(hs[h].job)
    /\ \A e \in idle : Claimed(stream[e])

\* An execution that has not lost its lease still has it.
LeaseInv ==
    /\ \A j \in Jobs : sub[j].state = "processing" => sub[j].lease # "null"
    /\ \A h \in Handlers : hs[h].pc \in {"resolve", "finalize"} => ~hs[h].lost
    /\ \A h \in Handlers : Executing(h) /\ ~hs[h].lost =>
          /\ sub[hs[h].job].state = "processing"
          /\ sub[hs[h].job].attempt = hs[h].att
          /\ sub[hs[h].job].lease = "valid"
    /\ \A h \in Handlers : hs[h].pc = "inspect" /\ sub[hs[h].job].state = "processing" =>
          sub[hs[h].job].lease = "valid"

\* Nothing is given up: the poison and the reject paths are never taken.
NothingGivenUp ==
    /\ NeverPoisoned
    /\ \A h \in Handlers : hs[h].pc \notin {"poison", "reject"}

\* Every entry of a pending job is still to be delivered or in the hands of a
\* handler that will claim the row.
PendingInv ==
    \A j \in Jobs : sub[j].state = "pending" =>
        \A e \in Entries : stream[e] = j =>
            e > groupPos \/ \E h \in Handlers : Fetching(h) /\ hs[h].entry = e

\* A running job has a pending entry that nobody acknowledges while it runs.
AnchorInv ==
    \A j \in Jobs : sub[j].state = "processing" =>
        \E e \in pel : /\ stream[e] = j
                       /\ \A h \in Handlers : hs[h].pc # "free" /\ hs[h].entry = e => Keeps(h)

CoreInv ==
    /\ PositionInv /\ UnclaimedInv /\ LeaseInv /\ NothingGivenUp
    /\ PendingInv /\ AnchorInv

RecoveryInv == FenceInv /\ DeliveryInv /\ PayloadInv /\ CoreInv

---------------------------------------------------------------------------
(* The shapes of a step, when nothing of LossyFaults happens.              *)

\* The stream, the group and its pending entries stay as they are.
StreamQuiet == UNCHANGED <<stream, groupPos, pel, idle>>

\* A dispatcher or the repair loop adds an entry of a submitted job.
Enqueues ==
    /\ \E j \in payload : stream' = Append(stream, j) /\ sub[j].state # "none"
    /\ UNCHANGED <<groupPos, pel, idle, hs, sub>>

\* h takes the next new entry, or one that has been idle for too long.
Reads(h) ==
    /\ hs[h].pc = "free"
    /\ groupPos + 1 \in Entries
    /\ groupPos' = groupPos + 1
    /\ pel' = pel \cup {groupPos + 1}
    /\ Deliver(h, groupPos + 1, "new")
    /\ UNCHANGED <<stream, idle, sub>>

TakesOver(h) ==
    /\ hs[h].pc = "free"
    /\ \E e \in idle : idle' = idle \ {e} /\ Deliver(h, e, "reclaim")
    /\ UNCHANGED <<stream, groupPos, pel, sub>>

Acknowledges(h) ==
    /\ hs[h].pc = "ack"
    /\ pel' = pel \ {hs[h].entry}
    /\ idle' = idle \ {hs[h].entry}
    /\ Release(h)
    /\ UNCHANGED <<stream, groupPos, sub>>

\* Only an entry no handler is about to claim or to acknowledge turns idle.
TurnsIdle ==
    /\ \E e \in pel : /\ idle' = idle \cup {e}
                      /\ \A h \in Handlers : hs[h].entry = e => Executing(h)
    /\ UNCHANGED <<stream, groupPos, pel, hs, sub>>

Crashes ==
    /\ \E w \in Workers :
          /\ \A h \in Handlers : WorkerOf(h) = w => ~Unclaimed(h)
          /\ hs' = [h \in Handlers |-> IF WorkerOf(h) = w THEN FreeSlot ELSE hs[h]]
    /\ StreamQuiet
    /\ UNCHANGED sub

\* The row of j is created, collected, or its lease runs out with nobody
\* holding it or looking at it.
RowMoves(j) ==
    /\ \/ sub[j].state = "none" /\ Becomes(j, "pending", 0, "null", "none", 0)
       \/ /\ sub[j].state = "done"
          /\ Becomes(j, "gone", sub[j].attempt, sub[j].lease, sub[j].verdict, sub[j].by)
       \/ /\ \A h \in Handlers : ~Holds(h, j)
          /\ \A h \in Handlers : ~(hs[h].pc = "inspect" /\ hs[h].job = j)
          /\ sub[j].lease = "valid"
          /\ Becomes(j, sub[j].state, sub[j].attempt, "expired", sub[j].verdict, sub[j].by)
    /\ StreamQuiet
    /\ UNCHANGED hs

\* What handler h, with entry, job and via unchanged, becomes, and what it does
\* to the row of j, its job.
Enters(j) ==
    Becomes(j, "processing", sub[j].attempt + 1, "valid", sub[j].verdict, sub[j].by)

Proceeds(h, j, t) ==
    \/ /\ hs[h].pc = "fetch" /\ UNCHANGED sub
       /\ t.pc = (IF hs[h].via = "new" THEN "claim" ELSE "reclaim")
    \/ /\ hs[h].pc = "claim" /\ t.pc = "run" /\ t.att = sub[j].attempt + 1
       /\ sub[j].state = "pending" /\ Enters(j)
    \/ /\ hs[h].pc = "claim" /\ t.pc = "ack" /\ sub[j].state # "pending" /\ UNCHANGED sub
    \/ /\ hs[h].pc = "reclaim" /\ t.pc = "run" /\ t.att = sub[j].attempt + 1
       /\ sub[j].state = "processing" /\ sub[j].lease = "expired" /\ Enters(j)
    \/ /\ hs[h].pc = "reclaim" /\ t.pc = "inspect" /\ UNCHANGED sub
       /\ ~(sub[j].state = "processing" /\ sub[j].lease = "expired")
    \/ /\ hs[h].pc = "inspect" /\ t.pc = "ack" /\ UNCHANGED sub
       /\ ~(sub[j].state = "processing" /\ sub[j].lease = "valid")
    \/ /\ t.att = hs[h].att /\ UNCHANGED sub
       /\ \/ hs[h].pc = "run" /\ t.pc = "ran" /\ t.lost = hs[h].lost
          \/ hs[h].pc = "ran" /\ t.pc = "resolve" /\ ~hs[h].lost /\ ~t.lost
          \/ hs[h].pc = "resolve" /\ t.pc = "finalize" /\ t.lost = hs[h].lost
    \/ /\ hs[h].pc \in {"run", "ran"} /\ t.pc = hs[h].pc /\ t.att = hs[h].att
       /\ ~hs[h].lost
       /\ \/ UNCHANGED sub
          \/ /\ sub[j].state = "processing" /\ sub[j].attempt = hs[h].att
             /\ Becomes(j, "processing", sub[j].attempt, "valid", sub[j].verdict, sub[j].by)
    \/ /\ hs[h].pc = "finalize" /\ t.pc = "ack"
       /\ sub[j].state = "processing" /\ sub[j].attempt = hs[h].att
       /\ Becomes(j, "done", hs[h].att, "null", "judged", hs[h].att)

\* Handler h lets go of its entry: a reply was lost, or the lease.
LetsGo(h, j) ==
    \/ hs[h].pc \notin {"fetch", "claim"} /\ UNCHANGED sub
    \/ hs[h].pc = "claim" /\ sub[j].state = "pending" /\ Enters(j)
    \/ hs[h].pc = "reclaim" /\ sub[j].state = "processing" /\ sub[j].lease = "expired" /\ Enters(j)
    \/ /\ hs[h].pc = "finalize" /\ sub[j].state = "processing" /\ sub[j].attempt = hs[h].att
       /\ Becomes(j, "done", hs[h].att, "null", "judged", hs[h].att)

\* h becomes t, with the entry it has.
Turns(h, t) ==
    /\ hs' = [hs EXCEPT ![h] = t]
    /\ t.entry = hs[h].entry /\ t.job = hs[h].job /\ t.via = hs[h].via

Works(h, j) ==
    /\ j = hs[h].job /\ hs[h].pc # "free"
    /\ \/ \E t \in Task : Turns(h, t) /\ Proceeds(h, j, t)
       \/ Release(h) /\ LetsGo(h, j)
    /\ StreamQuiet

Rests == StreamQuiet /\ UNCHANGED <<hs, sub>>

Shape ==
    \/ Rests \/ Enqueues \/ TurnsIdle \/ Crashes
    \/ \E h \in Handlers : Reads(h) \/ TakesOver(h) \/ Acknowledges(h)
    \/ \E j \in Jobs : RowMoves(j)
    \/ \E h \in Handlers, j \in Jobs : Works(h, j)
(* No lossy failure happens in a recoverable configuration. *)
LEMMA NothingLossy ==
    ASSUME Recoverable
    PROVE  \A kind \in LossyFaults : ~Fault(kind)
BY DEF Recoverable, Fault

(* What the local moves of a handler make of it. *)
LEMMA GotoTurns ==
    ASSUME hs \in [Handlers -> Task], NEW h \in Handlers, NEW p \in PC, Goto(h, p)
    PROVE  \E t \in Task : /\ Turns(h, t) /\ t.pc = p
                           /\ t.att = hs[h].att /\ t.lost = hs[h].lost
<1> DEFINE t == [hs[h] EXCEPT !.pc = p]
<1>1. /\ t \in Task /\ t.entry = hs[h].entry /\ t.job = hs[h].job /\ t.via = hs[h].via
      /\ t.pc = p /\ t.att = hs[h].att /\ t.lost = hs[h].lost
  BY DEF Task
<1>2. hs' = [hs EXCEPT ![h] = t]
  BY DEF Goto
<1> QED  BY <1>1, <1>2 DEF Turns

LEMMA StartTurns ==
    ASSUME hs \in [Handlers -> Task], NEW h \in Handlers, StartRun(h),
           NEW a \in Nat, a = sub'[hs[h].job].attempt
    PROVE  \E t \in Task : Turns(h, t) /\ t.pc = "run" /\ t.att = a
<1> DEFINE t == [hs[h] EXCEPT !.pc = "run", !.att = a]
<1>1. hs' = [hs EXCEPT ![h] = t]
  BY DEF StartRun
<1>2. /\ t \in Task /\ t.entry = hs[h].entry /\ t.job = hs[h].job /\ t.via = hs[h].via
      /\ t.pc = "run" /\ t.att = a
  BY ZenonT(60) DEF Task, PC
<1> QED  BY <1>1, <1>2 DEF Turns

LEMMA HeartbeatTurns ==
    ASSUME hs \in [Handlers -> Task], NEW h \in Handlers,
           \/ hs' = [hs EXCEPT ![h] = [hs[h] EXCEPT !.errs = 0]]
           \/ hs' = [hs EXCEPT ![h] = [hs[h] EXCEPT !.lost = TRUE]]
           \/ \E n \in Nat, b \in BOOLEAN :
                 hs' = [hs EXCEPT ![h] = [hs[h] EXCEPT !.errs = n, !.lost = b]]
    PROVE  \E t \in Task : Turns(h, t) /\ t.pc = hs[h].pc /\ t.att = hs[h].att
<1>1. CASE hs' = [hs EXCEPT ![h] = [hs[h] EXCEPT !.errs = 0]]
  <2> DEFINE t == [hs[h] EXCEPT !.errs = 0]
  <2>1. /\ t \in Task /\ t.entry = hs[h].entry /\ t.job = hs[h].job /\ t.via = hs[h].via
        /\ t.pc = hs[h].pc /\ t.att = hs[h].att
    BY ZenonT(60) DEF Task
  <2> QED  BY <1>1, <2>1 DEF Turns
<1>2. CASE hs' = [hs EXCEPT ![h] = [hs[h] EXCEPT !.lost = TRUE]]
  <2> DEFINE t == [hs[h] EXCEPT !.lost = TRUE]
  <2>1. /\ t \in Task /\ t.entry = hs[h].entry /\ t.job = hs[h].job /\ t.via = hs[h].via
        /\ t.pc = hs[h].pc /\ t.att = hs[h].att
    BY ZenonT(60) DEF Task
  <2> QED  BY <1>2, <2>1 DEF Turns
<1>3. ASSUME NEW n \in Nat, NEW b \in BOOLEAN,
             hs' = [hs EXCEPT ![h] = [hs[h] EXCEPT !.errs = n, !.lost = b]]
      PROVE  \E t \in Task : Turns(h, t) /\ t.pc = hs[h].pc /\ t.att = hs[h].att
  <2> DEFINE t == [hs[h] EXCEPT !.errs = n, !.lost = b]
  <2>1. /\ t \in Task /\ t.entry = hs[h].entry /\ t.job = hs[h].job /\ t.via = hs[h].via
        /\ t.pc = hs[h].pc /\ t.att = hs[h].att
    BY ZenonT(60) DEF Task
  <2> QED  BY <1>3, <2>1 DEF Turns
<1> QED  BY <1>1, <1>2, <1>3

LEMMA ResolveTurns ==
    ASSUME hs \in [Handlers -> Task], NEW h \in Handlers, NEW s \in Nat,
           hs' = [hs EXCEPT ![h] = [hs[h] EXCEPT !.pc = "finalize", !.src = s]]
    PROVE  \E t \in Task : /\ Turns(h, t) /\ t.pc = "finalize"
                           /\ t.att = hs[h].att /\ t.lost = hs[h].lost
<1> DEFINE t == [hs[h] EXCEPT !.pc = "finalize", !.src = s]
<1>1. /\ t \in Task /\ t.entry = hs[h].entry /\ t.job = hs[h].job /\ t.via = hs[h].via
      /\ t.pc = "finalize" /\ t.att = hs[h].att /\ t.lost = hs[h].lost
  BY ZenonT(60) DEF Task, PC
<1> QED  BY <1>1 DEF Turns

(* A handler finds the payload of its entry and, unless it has seen its    *)
(* lease lost, finalizes under the lease its row still grants.             *)
LEMMA HandlerShape ==
    ASSUME Recoverable, RecoveryInv, NEW h \in Handlers, HandlerStep(h)
    PROVE  Acknowledges(h) \/ \E j \in Jobs : Works(h, j)
<1>1. /\ TypeInv /\ TokenFromRow
      /\ PayloadInv /\ PositionInv /\ LeaseInv /\ NothingGivenUp
  BY DEF RecoveryInv, FenceInv, CoreInv
<1>2. /\ hs \in [Handlers -> Task] /\ sub \in [Jobs -> Row]
      /\ \A g \in Handlers : hs[g].pc # "free" => hs[g].job \in Jobs
  BY <1>1 DEF TypeInv, TypeOK, ConsumerTypeOK, SubmissionsTypeOK, InFlightNamesJob
<1>3. hs[h].pc # "free"
  BY DEF HandlerStep, FetchPayload, MarkPoison, Claim, Reclaim, InspectReclaim, ExecuteTask,
         JoinHeartbeat, ResolveFinalResult, Finalize, ExplainReject, Ack
<1>4. PICK j \in Jobs : j = hs[h].job
  BY <1>2, <1>3
<1>5. sub[j].attempt \in Nat
  BY <1>2 DEF Row
<1>6. \A kind \in LossyFaults : ~Fault(kind)
  BY NothingLossy
<1>7. UNCHANGED redisVars => StreamQuiet
  BY DEF redisVars, StreamQuiet
<1>8. ASSUME StreamQuiet, \E t \in Task : Turns(h, t) /\ Proceeds(h, j, t)
      PROVE  Works(h, j)
  BY <1>3, <1>4, <1>8 DEF Works
<1>9. ASSUME StreamQuiet, Release(h), LetsGo(h, j)
      PROVE  Works(h, j)
  BY <1>3, <1>4, <1>9 DEF Works
<1>10. CASE FetchPayload(h)
  <2>1. hs[h].pc = "fetch" /\ UNCHANGED sub /\ StreamQuiet
    BY <1>7, <1>10 DEF FetchPayload
  <2>2. j \in payload
    BY <1>1, <1>3, <1>4 DEF PositionInv, PayloadInv, Listed
  <2>3. Goto(h, IF hs[h].via = "new" THEN "claim" ELSE "reclaim")
    BY <1>4, <1>6, <1>10, <2>2 DEF FetchPayload, LossyFaults
  <2>4. CASE hs[h].via = "new"
    <3>1. Goto(h, "claim")
      BY <2>3, <2>4
    <3>2. PICK t \in Task : Turns(h, t) /\ t.pc = "claim"
      BY <1>2, <3>1, GotoTurns DEF PC
    <3> QED  BY <1>8, <2>1, <2>4, <3>2 DEF Proceeds
  <2>5. CASE hs[h].via # "new"
    <3>1. Goto(h, "reclaim")
      BY <2>3, <2>5
    <3>2. PICK t \in Task : Turns(h, t) /\ t.pc = "reclaim"
      BY <1>2, <3>1, GotoTurns DEF PC
    <3> QED  BY <1>8, <2>1, <2>5, <3>2 DEF Proceeds
  <2> QED  BY <2>4, <2>5
<1>11. CASE MarkPoison(h) \/ ExplainReject(h)
  BY <1>1, <1>11 DEF MarkPoison, ExplainReject, NothingGivenUp
<1>12. CASE Claim(h)
  <2>1. hs[h].pc = "claim" /\ StreamQuiet
    BY <1>7, <1>12 DEF Claim
  <2> DEFINE w == WorkerOf(h)
  <2> HIDE DEF w
  <2>2. \/ ClaimSubmissionForRun(j, w) /\ (StartRun(h) \/ Release(h))
        \/ sub[j].state # "pending" /\ Goto(h, "ack") /\ UNCHANGED sub
    BY <1>4, <1>6, <1>12 DEF Claim, ClaimMatches, LossyFaults, w
  <2>3. CASE ClaimSubmissionForRun(j, w)
    <3>1. sub[j].state = "pending" /\ Enters(j)
      BY <1>2, <2>3, RowAfter DEF Enters
    <3>2. sub'[j].attempt = sub[j].attempt + 1 /\ sub'[j].attempt \in Nat
      BY <1>5, <3>1 DEF Enters, Becomes
    <3>3. CASE StartRun(h)
      <4>1. PICK t \in Task : Turns(h, t) /\ t.pc = "run" /\ t.att = sub[j].attempt + 1
        BY <1>2, <1>4, <3>2, <3>3, StartTurns
      <4> QED  BY <1>8, <2>1, <3>1, <4>1 DEF Proceeds
    <3>4. CASE Release(h)
      BY <1>9, <2>1, <3>1, <3>4 DEF LetsGo
    <3>5. CASE sub[j].state # "pending"
      BY <3>1, <3>5
    <3> QED  BY <2>2, <3>3, <3>4, <3>5
  <2>4. CASE sub[j].state # "pending" /\ Goto(h, "ack") /\ UNCHANGED sub
    <3>1. PICK t \in Task : Turns(h, t) /\ t.pc = "ack"
      BY <1>2, <2>4, GotoTurns DEF PC
    <3> QED  BY <1>8, <2>1, <2>4, <3>1 DEF Proceeds
  <2> QED  BY <2>2, <2>3, <2>4
<1>13. CASE Reclaim(h)
  <2>1. hs[h].pc = "reclaim" /\ StreamQuiet
    BY <1>7, <1>13 DEF Reclaim
  <2> DEFINE w == WorkerOf(h)
  <2> HIDE DEF w
  <2>2. \/ ReclaimSubmissionForRun(j, w) /\ (StartRun(h) \/ Release(h))
        \/ ~ReclaimMatches(j) /\ Goto(h, "inspect") /\ UNCHANGED sub
        \/ Release(h) /\ UNCHANGED sub
    BY <1>4, <1>13 DEF Reclaim, ReclaimMatches, Running, w
  <2>3. CASE ReclaimSubmissionForRun(j, w) /\ (StartRun(h) \/ Release(h))
    <3>1. sub[j].state = "processing" /\ sub[j].lease = "expired" /\ Enters(j)
      BY <1>2, <2>3, RowAfter DEF Enters
    <3>2. sub'[j].attempt = sub[j].attempt + 1 /\ sub'[j].attempt \in Nat
      BY <1>5, <3>1 DEF Enters, Becomes
    <3>3. CASE StartRun(h)
      <4>1. PICK t \in Task : Turns(h, t) /\ t.pc = "run" /\ t.att = sub[j].attempt + 1
        BY <1>2, <1>4, <3>2, <3>3, StartTurns
      <4> QED  BY <1>8, <2>1, <3>1, <4>1 DEF Proceeds
    <3>4. CASE Release(h)
      BY <1>9, <2>1, <3>1, <3>4 DEF LetsGo
    <3> QED  BY <2>3, <3>3, <3>4
  <2>4. CASE ~ReclaimMatches(j) /\ Goto(h, "inspect") /\ UNCHANGED sub
    <3>1. PICK t \in Task : Turns(h, t) /\ t.pc = "inspect"
      BY <1>2, <2>4, GotoTurns DEF PC
    <3> QED  BY <1>8, <2>1, <2>4, <3>1 DEF Proceeds, ReclaimMatches, Running
  <2>5. CASE Release(h) /\ UNCHANGED sub
    BY <1>9, <2>1, <2>5 DEF LetsGo
  <2> QED  BY <2>2, <2>3, <2>4, <2>5
<1>14. CASE InspectReclaim(h)
  <2>1. hs[h].pc = "inspect" /\ StreamQuiet /\ UNCHANGED sub
    BY <1>7, <1>14 DEF InspectReclaim
  <2>2. \/ ReclaimDecision(j) \in {"done_or_stale", "not_found"} /\ Goto(h, "ack")
        \/ Release(h)
    BY <1>4, <1>14 DEF InspectReclaim, ReclaimDecision, Running
  <2>3. CASE ReclaimDecision(j) \in {"done_or_stale", "not_found"} /\ Goto(h, "ack")
    <3>1. PICK t \in Task : Turns(h, t) /\ t.pc = "ack"
      BY <1>2, <2>3, GotoTurns DEF PC
    <3>2. ~(sub[j].state = "processing" /\ sub[j].lease = "valid")
      BY <2>3 DEF ReclaimDecision, Running
    <3> QED  BY <1>8, <2>1, <3>1, <3>2 DEF Proceeds
  <2>4. CASE Release(h)
    BY <1>9, <2>1, <2>4 DEF LetsGo
  <2> QED  BY <2>2, <2>3, <2>4
<1>15. CASE ExecuteTask(h)
  <2>1. hs[h].pc = "run" /\ UNCHANGED sub /\ Goto(h, "ran") /\ StreamQuiet
    BY <1>7, <1>15 DEF ExecuteTask, ReportResult, StreamQuiet
  <2>2. PICK t \in Task : Turns(h, t) /\ t.pc = "ran" /\ t.att = hs[h].att /\ t.lost = hs[h].lost
    BY <1>2, <2>1, GotoTurns DEF PC
  <2> QED  BY <1>8, <2>1, <2>2 DEF Proceeds
<1>16. CASE JoinHeartbeat(h)
  <2>1. hs[h].pc = "ran" /\ UNCHANGED sub /\ StreamQuiet
    BY <1>7, <1>16 DEF JoinHeartbeat
  <2>2. CASE hs[h].lost
    <3>1. Release(h)
      BY <1>16, <2>2, Zenon DEF JoinHeartbeat
    <3> QED  BY <1>9, <2>1, <3>1 DEF LetsGo
  <2>3. CASE ~hs[h].lost
    <3>1. Goto(h, "resolve")
      BY <1>16, <2>3, Zenon DEF JoinHeartbeat
    <3>2. PICK t \in Task : Turns(h, t) /\ t.pc = "resolve" /\ t.att = hs[h].att /\ t.lost = hs[h].lost
      BY <1>2, <3>1, GotoTurns DEF PC
    <3> QED  BY <1>8, <2>1, <2>3, <3>2 DEF Proceeds
  <2> QED  BY <2>2, <2>3
<1>17. CASE ResolveFinalResult(h)
  <2>1. hs[h].pc = "resolve" /\ UNCHANGED sub /\ StreamQuiet
    BY <1>7, <1>17 DEF ResolveFinalResult
  <2>2. resultKey[j] \in Nat /\ hs[h].att \in Nat
    BY <1>1, <1>2 DEF TypeInv, TypeOK, JobStreamTypeOK, Task
  <2>3. \E s \in Nat : hs' = [hs EXCEPT ![h] = [hs[h] EXCEPT !.pc = "finalize", !.src = s]]
    BY <1>4, <1>17, <2>2 DEF ResolveFinalResult
  <2>4. PICK t \in Task : Turns(h, t) /\ t.pc = "finalize" /\ t.att = hs[h].att /\ t.lost = hs[h].lost
    BY <1>2, <2>3, ResolveTurns
  <2> QED  BY <1>8, <2>1, <2>4 DEF Proceeds
<1>18. CASE Finalize(h)
  <2> DEFINE w == WorkerOf(h)
             a == hs[h].att
             s == hs[h].src
  <2>1. hs[h].pc = "finalize" /\ StreamQuiet /\ Executing(h)
    BY <1>7, <1>18 DEF Finalize, Executing
  <2>2. FinalizeMatches(j, a, w)
    BY <1>1, <1>4, <2>1 DEF LeaseInv, TokenFromRow, FinalizeMatches, Running
  <2>3. PICK v, b, r :
            /\ b = a
            /\ \/ FinalizeSubmissionWithFence(j, b, v, r) /\ (Goto(h, "ack") \/ Release(h))
               \/ Release(h) /\ UNCHANGED sub
    <3>1. \/ FinalizeSubmissionWithFence(hs[h].job, a, w, s) /\ (Goto(h, "ack") \/ Release(h))
          \/ Release(h) /\ UNCHANGED sub
          \/ ~FinalizeMatches(hs[h].job, a, w)
      BY <1>18, Zenon DEF Finalize
    <3>2. FinalizeMatches(hs[h].job, a, w)
      BY <1>4, <2>2
    <3>3. hs[h].job \in Jobs
      BY <1>4
    <3>4. \E k, v, b, r :
            /\ b = a /\ k = hs[h].job
            /\ \/ FinalizeSubmissionWithFence(k, b, v, r) /\ (Goto(h, "ack") \/ Release(h))
               \/ Release(h) /\ UNCHANGED sub
      BY <3>1, <3>2, Zenon
    <3> QED  BY <1>4, <3>4
  <2>4. CASE FinalizeSubmissionWithFence(j, b, v, r) /\ (Goto(h, "ack") \/ Release(h))
    <3>1. /\ sub[j].state = "processing" /\ sub[j].attempt = hs[h].att
          /\ Becomes(j, "done", hs[h].att, "null", "judged", hs[h].att)
      <4>1. /\ sub[j].state = "processing" /\ sub[j].attempt = b
            /\ Becomes(j, "done", b, "null", "judged", b)
        BY <1>2, <2>4, RowAfter
      <4> QED  BY <2>3, <4>1 DEF Becomes
    <3>2. CASE Goto(h, "ack")
      <4>1. PICK t \in Task : Turns(h, t) /\ t.pc = "ack"
        BY <1>2, <3>2, GotoTurns DEF PC
      <4> QED  BY <1>8, <2>1, <3>1, <4>1 DEF Proceeds
    <3>3. CASE Release(h)
      BY <1>9, <2>1, <3>1, <3>3 DEF LetsGo
    <3> QED  BY <2>4, <3>2, <3>3
  <2>5. CASE Release(h) /\ UNCHANGED sub
    BY <1>9, <2>1, <2>5 DEF LetsGo
  <2> QED  BY <2>3, <2>4, <2>5
<1>19. CASE Ack(h)
  <2>1. hs[h].pc = "ack" /\ Release(h) /\ UNCHANGED sub
    BY <1>19 DEF Ack
  <2>2. CASE XAck(hs[h].entry)
    BY <2>1, <2>2 DEF XAck, Acknowledges
  <2>3. CASE UNCHANGED redisVars
    BY <1>7, <1>9, <2>1, <2>3 DEF LetsGo
  <2> QED  BY <1>19, <2>2, <2>3 DEF Ack
<1> QED  BY <1>10, <1>11, <1>12, <1>13, <1>14, <1>15, <1>16, <1>17, <1>18, <1>19 DEF HandlerStep

(* The heartbeat renews the lease of its own attempt or gives it up. *)
LEMMA HeartbeatShape ==
    ASSUME TypeInv, NEW h \in Handlers, Heartbeat(h) \/ HeartbeatCancelled(h)
    PROVE  \E j \in Jobs : Works(h, j)
<1>1. hs \in [Handlers -> Task] /\ sub \in [Jobs -> Row] /\ hs[h].errs + 1 \in Nat
  BY DEF TypeInv, TypeOK, ConsumerTypeOK, SubmissionsTypeOK, Task
<1>2. hs[h].pc \in {"run", "ran"} /\ ~hs[h].lost /\ UNCHANGED redisVars
  <2>1. UNCHANGED redisVars
    BY Zenon DEF Heartbeat, HeartbeatCancelled
  <2>2. ~hs[h].lost
    BY Zenon DEF Heartbeat, HeartbeatCancelled
  <2>3. hs[h].pc \in {"run", "ran"}
    BY DEF Heartbeat, HeartbeatCancelled
  <2> QED  BY <2>1, <2>2, <2>3
<1>3. StreamQuiet
  BY <1>2 DEF redisVars, StreamQuiet
<1>4. PICK j \in Jobs : j = hs[h].job
  BY <1>2 DEF TypeInv, InFlightNamesJob
<1>5. (hs[h].errs + 1 >= HeartbeatRetries) \in BOOLEAN
  OBVIOUS
<1>6. \/ hs' = [hs EXCEPT ![h] = [hs[h] EXCEPT !.errs = 0]]
      \/ hs' = [hs EXCEPT ![h] = [hs[h] EXCEPT !.lost = TRUE]]
      \/ \E n \in Nat, b \in BOOLEAN :
            hs' = [hs EXCEPT ![h] = [hs[h] EXCEPT !.errs = n, !.lost = b]]
  <2>1. 0 \in Nat /\ TRUE \in BOOLEAN
    OBVIOUS
  <2> QED  BY <1>1, <1>5, <2>1, Zenon DEF Heartbeat, HeartbeatCancelled
<1>7. PICK t \in Task : Turns(h, t) /\ t.pc = hs[h].pc /\ t.att = hs[h].att
  BY <1>1, <1>6, HeartbeatTurns
<1>8. \/ UNCHANGED sub
      \/ /\ sub[j].state = "processing" /\ sub[j].attempt = hs[h].att
         /\ Becomes(j, "processing", sub[j].attempt, "valid", sub[j].verdict, sub[j].by)
  <2>1. PICK k, a, w :
            /\ k = hs[h].job /\ a = hs[h].att
            /\ UNCHANGED sub \/ RefreshSubmissionLease(k, a, w)
    BY Zenon DEF Heartbeat, HeartbeatCancelled
  <2>2. CASE RefreshSubmissionLease(k, a, w)
    <3>1. /\ sub[j].state = "processing" /\ sub[j].attempt = a
          /\ Becomes(j, "processing", a, "valid", sub[j].verdict, sub[j].by)
      BY <1>1, <1>4, <2>1, <2>2, RowAfter
    <3> QED  BY <2>1, <3>1 DEF Becomes
  <2> QED  BY <2>1, <2>2
<1> QED  BY <1>2, <1>3, <1>4, <1>7, <1>8 DEF Works, Proceeds

(* Every step has one of the shapes above. *)
LEMMA StepShape ==
    ASSUME Recoverable, RecoveryInv, [Next]_vars
    PROVE  Shape
<1>1. /\ TypeInv /\ EventsHaveRows
      /\ PayloadInv /\ PositionInv /\ NothingGivenUp
  BY DEF RecoveryInv, DeliveryInv, CoreInv
<1>2. /\ hs \in [Handlers -> Task] /\ sub \in [Jobs -> Row] /\ groupPos \in Nat
      /\ pel \subseteq Entries /\ idle \subseteq pel
  BY <1>1 DEF TypeInv, TypeOK, ConsumerTypeOK, SubmissionsTypeOK, JobStreamTypeOK
<1>3. \A kind \in LossyFaults : ~Fault(kind)
  BY NothingLossy
<1>4. UNCHANGED redisVars => StreamQuiet
  BY DEF redisVars, StreamQuiet
<1>5. trimPos = 0
  BY <1>1 DEF PositionInv
<1>6. CASE UNCHANGED vars
  BY <1>4, <1>6 DEF vars, consumerVars, Rests, Shape
<1>7. ASSUME NEW j \in Jobs, Submit(j)  PROVE Shape
  <2>1. CreateSubmission(j) /\ StreamQuiet /\ UNCHANGED hs
    BY <1>4, <1>7 DEF Submit, consumerVars
  <2>2. RowMoves(j)
    BY <1>2, <2>1, RowAfter DEF RowMoves
  <2> QED  BY <2>2 DEF Shape
<1>8. CASE DispatcherNext /\ UNCHANGED <<sub, consumerVars, repairVars>>
  <2>1. UNCHANGED <<sub, hs>>
    BY <1>8 DEF consumerVars
  <2>2. ASSUME NEW d \in Dispatchers, DispatchXAdd(d)  PROVE Shape
    <3>1. dpc[d] = "xadd" /\ XAdd(cur[d])
      BY <1>3, <2>2 DEF DispatchXAdd, LossyFaults
    <3>2. cur[d] \in Jobs /\ cur[d] \in payload /\ sub[cur[d]].state # "none"
      BY <1>1, <3>1 DEF TypeInv, InFlightNamesJob, PayloadInv, EventsHaveRows
    <3> QED  BY <2>1, <3>1, <3>2 DEF XAdd, Enqueues, Shape
  <2>3. ASSUME NEW d \in Dispatchers,
               ClaimPendingOutboxEvents(d) \/ DispatchDel(d) \/ DispatchMark(d)
                 \/ CrashDispatcher(d) \/ \E j \in Jobs : DispatchSet(d, j)
        PROVE  StreamQuiet
    <3>1. ~DispatchDel(d)
      BY <1>1 DEF DispatchDel, PayloadInv
    <3>2. CASE ClaimPendingOutboxEvents(d) \/ DispatchMark(d) \/ CrashDispatcher(d)
      BY <1>4, <3>2, Zenon DEF ClaimPendingOutboxEvents, DispatchMark, CrashDispatcher
    <3>3. ASSUME NEW j \in Jobs, DispatchSet(d, j)  PROVE StreamQuiet
      BY <1>4, <3>3 DEF DispatchSet, SetPayload, StreamQuiet
    <3> QED  BY <2>3, <3>1, <3>2, <3>3
  <2>4. ASSUME NEW j \in Jobs, BackoffElapses(j)  PROVE StreamQuiet
    BY <1>4, <2>4, Zenon DEF BackoffElapses
  <2>5. StreamQuiet => Shape
    BY <2>1 DEF Rests, Shape
  <2> QED  BY <1>8, <2>2, <2>3, <2>4, <2>5 DEF DispatcherNext, DispatcherStep
<1>9. CASE ConsumerNext
  <2>1. ASSUME NEW w \in Workers, StartWorker(w)  PROVE Shape
    <3>1. group /\ UNCHANGED <<sub, hs>>
      BY <1>1, <2>1 DEF StartWorker, PositionInv
    <3>2. StreamQuiet
      BY <1>4, <2>1, <3>1 DEF StartWorker, EnsureGroup, StreamQuiet
    <3> QED  BY <3>1, <3>2 DEF Rests, Shape
  <2>2. ASSUME NEW w \in Workers, CrashWorker(w)  PROVE Shape
    <3>1. ~(\E h \in Handlers : WorkerOf(h) = w /\ Unclaimed(h))
      <4>1. SUFFICES ASSUME \E h \in Handlers : WorkerOf(h) = w /\ Unclaimed(h)
                     PROVE  Fault("crash_unclaimed")
        BY <1>3 DEF LossyFaults
      <4> QED  BY <2>2, <4>1, Zenon DEF CrashWorker
    <3>2. /\ hs' = [h \in Handlers |-> IF WorkerOf(h) = w THEN FreeSlot ELSE hs[h]]
          /\ UNCHANGED sub /\ StreamQuiet
      BY <1>4, <2>2, Zenon DEF CrashWorker
    <3> QED  BY <3>1, <3>2 DEF Crashes, Shape
  <2>3. ASSUME NEW h \in Handlers, ReadNew(h)  PROVE Shape
    <3>1. PICK e \in Entries : ReadNewEntry(e) /\ Deliver(h, e, "new")
      BY <1>3, <2>3 DEF ReadNew, LossyFaults
    <3>2. e = groupPos + 1
      BY <1>2, <1>5, <3>1 DEF ReadNewEntry, NextEntry
    <3>3. Reads(h)
      BY <2>3, <3>1, <3>2 DEF ReadNew, ReadNewEntry, Reads
    <3> QED  BY <3>3 DEF Shape
  <2>4. ASSUME NEW h \in Handlers, AutoClaim(h)  PROVE Shape
    <3>1. \A e \in idle : e > trimPos
      BY <1>2, <1>5 DEF Entries
    <3>2. PICK e \in idle : AutoClaimEntry(e) /\ Deliver(h, e, "reclaim")
      BY <1>2, <1>5, <2>4 DEF AutoClaim, AckDeletedEntry, Entries
    <3>3. TakesOver(h)
      BY <2>4, <3>2 DEF AutoClaim, AutoClaimEntry, TakesOver
    <3> QED  BY <3>3 DEF Shape
  <2>5. ASSUME NEW h \in Handlers, HandlerStep(h) \/ Heartbeat(h) \/ HeartbeatCancelled(h)
        PROVE  Shape
    BY <1>1, <2>5, HandlerShape, HeartbeatShape DEF Shape
  <2>6. ASSUME NEW j \in Jobs, LeasePasses(j)  PROVE Shape
    <3>1. ~(\E h \in Handlers : Holds(h, j))
      <4>1. SUFFICES ASSUME \E h \in Handlers : Holds(h, j)  PROVE Fault("slow_lease")
        BY <1>3 DEF LossyFaults
      <4> QED  BY <2>6, <4>1, Zenon DEF LeasePasses
    <3>2. ~(\E h \in Handlers : hs[h].pc = "inspect" /\ hs[h].job = j)
      <4>1. SUFFICES ASSUME \E h \in Handlers : hs[h].pc = "inspect" /\ hs[h].job = j
                     PROVE  Fault("slow_inspect")
        BY <1>3 DEF LossyFaults
      <4> QED  BY <2>6, <3>1, <4>1, Zenon DEF LeasePasses
    <3>3. LeaseExpires(j) /\ UNCHANGED hs /\ StreamQuiet
      BY <1>4, <2>6, Zenon DEF LeasePasses
    <3>4. /\ sub[j].lease = "valid"
          /\ Becomes(j, sub[j].state, sub[j].attempt, "expired", sub[j].verdict, sub[j].by)
      BY <1>2, <3>3, RowAfter
    <3>5. RowMoves(j)
      BY <3>1, <3>2, <3>3, <3>4, Zenon DEF RowMoves
    <3> QED  BY <3>5 DEF Shape
  <2>7. ASSUME NEW j \in Jobs, KeyExpires(j)  PROVE Shape
    BY <1>3, <2>7 DEF KeyExpires, LossyFaults
  <2>8. ASSUME NEW e \in pel, IdlePasses(e)  PROVE Shape
    <3>1. ~(\E h \in Handlers : hs[h].entry = e /\ ~Executing(h))
      <4>1. SUFFICES ASSUME \E h \in Handlers : hs[h].entry = e /\ ~Executing(h)
                     PROVE  Fault("slow_handler")
        BY <1>3 DEF LossyFaults
      <4> QED  BY <2>8, <4>1, Zenon DEF IdlePasses
    <3> QED  BY <2>8, <3>1 DEF IdlePasses, EntryTurnsIdle, TurnsIdle, Shape
  <2> QED  BY <1>9, <2>1, <2>2, <2>3, <2>4, <2>5, <2>6, <2>7, <2>8 DEF ConsumerNext
<1>10. CASE ControlPlaneNext /\ UNCHANGED <<outboxVars, consumerVars>>
  <2>1. UNCHANGED hs
    BY <1>10 DEF consumerVars
  <2>2. CASE RepairXAdd
    <3>1. repairing \in Jobs /\ repairing \in payload /\ sub[repairing].state # "none"
      BY <1>1, <2>2 DEF RepairXAdd, TypeInv, TypeOK, RepairTypeOK, PayloadInv
    <3>2. XAdd(repairing) /\ UNCHANGED sub
      BY <1>3, <2>2 DEF RepairXAdd, LossyFaults
    <3> QED  BY <2>1, <3>1, <3>2 DEF XAdd, Enqueues, Shape
  <2>3. CASE RepairScan
    BY <1>4, <2>1, <2>3 DEF RepairScan, Rests, Shape
  <2>4. ASSUME NEW j \in Jobs, RepairSetPayload(j)  PROVE Shape
    BY <1>4, <2>1, <2>4 DEF RepairSetPayload, SetPayload, StreamQuiet, Rests, Shape
  <2>5. CASE StreamTrim
    BY <1>3, <2>5 DEF StreamTrim, LossyFaults
  <2>6. ASSUME NEW j \in Jobs, GcDone(j)  PROVE Shape
    <3>1. DeleteOldDoneSubmission(j) /\ StreamQuiet
      BY <1>4, <2>6 DEF GcDone
    <3>2. RowMoves(j)
      BY <1>2, <2>1, <3>1, RowAfter DEF RowMoves
    <3> QED  BY <3>2 DEF Shape
  <2> QED  BY <1>10, <2>2, <2>3, <2>4, <2>5, <2>6 DEF ControlPlaneNext, RepairStep
<1> QED  BY <1>6, <1>7, <1>8, <1>9, <1>10 DEF Next
---------------------------------------------------------------------------
(* Payloads stay, entries are not trimmed, the group is not recreated. *)
LEMMA PayloadGrows ==
    ASSUME Recoverable, RecoveryInv, [Next]_vars
    PROVE  payload \subseteq payload' /\ trimPos' = trimPos /\ group' = group
<1> DEFINE Kept == payload \subseteq payload' /\ trimPos' = trimPos /\ group' = group
<1>1. /\ \A kind \in LossyFaults : ~Fault(kind)
      /\ PayloadInv /\ group = TRUE /\ trimPos = 0 /\ idle \subseteq Entries
  <2>1. TypeInv /\ PositionInv /\ PayloadInv
    BY DEF RecoveryInv, CoreInv, DeliveryInv
  <2> QED  BY <2>1, NothingLossy
           DEF TypeInv, TypeOK, JobStreamTypeOK, PositionInv
<1>2. UNCHANGED redisVars => Kept
  BY DEF redisVars
<1>3. CASE DispatcherNext
  <2>1. ASSUME NEW d \in Dispatchers, DispatchXAdd(d) \/ \E j \in Jobs : DispatchSet(d, j)
        PROVE  Kept
    BY <1>2, <2>1 DEF DispatchXAdd, DispatchSet, XAdd, SetPayload
  <2>2. ASSUME NEW d \in Dispatchers, DispatchDel(d)  PROVE Kept
    BY <1>1, <2>2 DEF DispatchDel, PayloadInv
  <2>3. ASSUME NEW d \in Dispatchers,
               ClaimPendingOutboxEvents(d) \/ DispatchMark(d) \/ CrashDispatcher(d)
        PROVE  Kept
    BY <1>2, <2>3, Zenon DEF ClaimPendingOutboxEvents, DispatchMark, CrashDispatcher
  <2>4. ASSUME NEW j \in Jobs, BackoffElapses(j)  PROVE Kept
    BY <1>2, <2>4, Zenon DEF BackoffElapses
  <2> QED  BY <1>3, <2>1, <2>2, <2>3, <2>4 DEF DispatcherNext, DispatcherStep
<1>4. CASE ConsumerNext
  <2>1. ASSUME NEW w \in Workers, StartWorker(w)  PROVE Kept
    BY <1>1, <1>2, <2>1 DEF StartWorker, EnsureGroup
  <2>2. ASSUME NEW w \in Workers, CrashWorker(w)  PROVE Kept
    BY <1>2, <2>2, Zenon DEF CrashWorker
  <2>3. ASSUME NEW h \in Handlers, ReadNew(h) \/ AutoClaim(h)  PROVE Kept
    BY <2>3 DEF ReadNew, AutoClaim, ReadNewEntry, AutoClaimEntry, AckDeletedEntry
  <2>4. ASSUME NEW h \in Handlers, Heartbeat(h) \/ HeartbeatCancelled(h)  PROVE Kept
    BY <1>2, <2>4, Zenon DEF Heartbeat, HeartbeatCancelled
  <2>5. ASSUME NEW h \in Handlers, HandlerStep(h)  PROVE Kept
    <3>1. CASE ExecuteTask(h) \/ Ack(h)
      BY <1>2, <3>1 DEF ExecuteTask, Ack, ReportResult, XAck
    <3>2. CASE UNCHANGED redisVars
      BY <1>2, <3>2
    <3> QED  BY <2>5, <3>1, <3>2, Zenon DEF HandlerStep, FetchPayload, MarkPoison, Claim,
             Reclaim, InspectReclaim, JoinHeartbeat, ResolveFinalResult, Finalize, ExplainReject
  <2>6. ASSUME NEW k \in Jobs, LeasePasses(k)  PROVE Kept
    BY <1>2, <2>6, Zenon DEF LeasePasses
  <2>7. ASSUME NEW k \in Jobs, KeyExpires(k)  PROVE Kept
    BY <1>1, <2>7 DEF KeyExpires, LossyFaults
  <2>8. ASSUME NEW e \in pel, IdlePasses(e)  PROVE Kept
    BY <2>8 DEF IdlePasses, EntryTurnsIdle
  <2> QED  BY <1>4, <2>1, <2>2, <2>3, <2>4, <2>5, <2>6, <2>7, <2>8 DEF ConsumerNext
<1>5. CASE ControlPlaneNext
  <2>1. CASE RepairScan \/ RepairXAdd
    BY <1>2, <2>1 DEF RepairScan, RepairXAdd, XAdd
  <2>2. CASE StreamTrim
    BY <1>1, <2>2 DEF StreamTrim, LossyFaults
  <2>3. ASSUME NEW k \in Jobs, RepairSetPayload(k) \/ GcDone(k)  PROVE Kept
    BY <1>2, <2>3 DEF RepairSetPayload, GcDone, SetPayload
  <2> QED  BY <1>5, <2>1, <2>2, <2>3 DEF ControlPlaneNext, RepairStep
<1> QED  BY <1>2, <1>3, <1>4, <1>5 DEF Next, Submit, vars

(* What was submitted stays submitted. *)
LEMMA SubmittedStays ==
    ASSUME TypeInv, [Next]_vars
    PROVE  \A j \in Jobs : sub[j].state # "none" => sub'[j].state # "none"
<1>1. \A j \in Jobs : Submit(j) => sub[j].state = "none"
  BY DEF Submit, CreateSubmission
<1> QED  BY <1>1, ExistenceStays

(* Whatever enters the stream has its payload. *)
LEMMA PayloadStep ==
    ASSUME Recoverable, RecoveryInv, [Next]_vars
    PROVE  PayloadInv'
<1>1. TypeInv /\ PayloadInv /\ stream \in Seq(Jobs) /\ candidates \subseteq Jobs
      /\ RepairTypeOK /\ DispatcherTypeOK
  BY DEF RecoveryInv, DeliveryInv, TypeInv, TypeOK, JobStreamTypeOK, RepairTypeOK
<1>2. /\ payload \subseteq payload'
      /\ \A j \in Jobs : sub[j].state # "none" => sub'[j].state # "none"
      /\ \A kind \in LossyFaults : ~Fault(kind)
  BY <1>1, PayloadGrows, SubmittedStays, NothingLossy
<1>3. /\ Listed' \subseteq payload'
      /\ \A j \in Listed' : sub'[j].state # "none"
  <2>1. Listed \subseteq Jobs
    BY <1>1 DEF Listed, Entries
  <2>2. CASE UNCHANGED stream
    BY <1>1, <1>2, <2>1, <2>2 DEF PayloadInv, Listed, Entries
  <2>3. ASSUME NEW k \in payload, stream' = Append(stream, k), sub[k].state # "none", k \in Jobs
        PROVE  /\ Listed' \subseteq payload'
               /\ \A j \in Listed' : sub'[j].state # "none"
    <3>1. Listed' \subseteq Listed \cup {k}
      BY <1>1, <2>3 DEF Listed, Entries
    <3> QED  BY <1>1, <1>2, <2>1, <2>3, <3>1 DEF PayloadInv
  <2>4. payload \subseteq Jobs
    BY <1>1 DEF TypeInv, TypeOK, JobStreamTypeOK
  <2>5. UNCHANGED stream \/ Enqueues
    BY StepShape DEF Shape, Rests, TurnsIdle, Crashes, Reads, TakesOver, Acknowledges,
                     RowMoves, Works, StreamQuiet
  <2> QED  BY <2>2, <2>3, <2>4, <2>5 DEF Enqueues
<1>4. /\ \A d \in Dispatchers : dpc'[d] # "del"
      /\ \A d \in Dispatchers : dpc'[d] # "next" => cur'[d] \in payload'
  <2> DEFINE Good == /\ \A d \in Dispatchers : dpc'[d] # "del"
                     /\ \A d \in Dispatchers : dpc'[d] # "next" => cur'[d] \in payload'
  <2>1. UNCHANGED <<cur, dpc>> => Good
    BY <1>1, <1>2 DEF PayloadInv
  <2>2. CASE DispatcherNext
    <3>1. ASSUME NEW d \in Dispatchers, ClaimPendingOutboxEvents(d)  PROVE Good
      BY <2>1, <3>1 DEF ClaimPendingOutboxEvents
    <3>2. ASSUME NEW d \in Dispatchers, NEW j \in Jobs, DispatchSet(d, j)  PROVE Good
      <4>1. \/ UNCHANGED <<cur, dpc>>
            \/ cur' = [cur EXCEPT ![d] = j] /\ dpc' = [dpc EXCEPT ![d] = "xadd"] /\ j \in payload'
        BY <3>2 DEF DispatchSet, SetPayload
      <4> QED  BY <1>1, <1>2, <2>1, <4>1 DEF PayloadInv, DispatcherTypeOK
    <3>3. ASSUME NEW d \in Dispatchers, DispatchXAdd(d)  PROVE Good
      <4>1. UNCHANGED cur /\ dpc[d] = "xadd" /\ dpc' = [dpc EXCEPT ![d] = "mark"]
        BY <1>2, <3>3 DEF DispatchXAdd, LossyFaults
      <4> QED  BY <1>1, <1>2, <4>1 DEF PayloadInv, DispatcherTypeOK
    <3>4. ASSUME NEW d \in Dispatchers, DispatchDel(d) \/ DispatchMark(d) \/ CrashDispatcher(d)
          PROVE  Good
      <4>1. cur' = [cur EXCEPT ![d] = None] /\ dpc' = [dpc EXCEPT ![d] = "next"]
        BY <3>4 DEF DispatchDel, DispatchMark, CrashDispatcher, FinishEvent
      <4> QED  BY <1>1, <1>2, <4>1 DEF PayloadInv, DispatcherTypeOK
    <3>5. ASSUME NEW j \in Jobs, BackoffElapses(j)  PROVE Good
      BY <2>1, <3>5, Zenon DEF BackoffElapses
    <3> QED  BY <2>2, <3>1, <3>2, <3>3, <3>4, <3>5 DEF DispatcherNext, DispatcherStep
  <2> QED  BY <2>1, <2>2 DEF Next, Submit, InsertOutboxEvent, vars, outboxVars
<1>5. /\ \A j \in candidates' : sub'[j].state # "none"
      /\ repairing' # None => repairing' \in payload' /\ sub'[repairing'].state # "none"
  <2> DEFINE Good == /\ \A j \in candidates' : sub'[j].state # "none"
                     /\ repairing' # None =>
                           repairing' \in payload' /\ sub'[repairing'].state # "none"
  <2>1. UNCHANGED repairVars => Good
    BY <1>1, <1>2 DEF PayloadInv, repairVars, RepairTypeOK
  <2>2. CASE RepairScan
    BY <1>1, <1>2, <2>2 DEF RepairScan, Repairable, PayloadInv, RepairTypeOK
  <2>3. CASE RepairXAdd
    BY <1>1, <1>2, <2>3 DEF RepairXAdd, PayloadInv
  <2>4. ASSUME NEW j \in Jobs, RepairSetPayload(j)  PROVE Good
    BY <1>1, <1>2, <2>4 DEF RepairSetPayload, SetPayload, PayloadInv, RepairTypeOK
  <2>5. ASSUME NEW j \in Jobs, GcDone(j)  PROVE Good
    BY <2>1, <2>5 DEF GcDone
  <2>6. CASE StreamTrim
    BY <2>1, <2>6 DEF StreamTrim
  <2> QED  BY <2>1, <2>2, <2>3, <2>4, <2>5, <2>6
           DEF Next, Submit, ControlPlaneNext, RepairStep, vars
<1> QED  BY <1>3, <1>4, <1>5 DEF PayloadInv
---------------------------------------------------------------------------
(* The core of the invariant, shape by shape.                              *)

\* What the cases below share about the state before the step.
Before ==
    /\ RecoveryInv
    /\ stream \in Seq(Jobs) /\ groupPos \in Nat
    /\ pel \subseteq Entries /\ idle \subseteq pel
    /\ hs \in [Handlers -> Task] /\ sub \in [Jobs -> Row]
    /\ group' /\ trimPos' = 0

LEMMA BeforeHolds ==
    ASSUME Recoverable, RecoveryInv, [Next]_vars
    PROVE  Before
<1>1. TypeInv /\ PositionInv
  BY DEF RecoveryInv, CoreInv, DeliveryInv
<1>2. group' /\ trimPos' = 0
  BY <1>1, PayloadGrows DEF PositionInv
<1> QED  BY <1>1, <1>2 DEF Before, TypeInv, TypeOK, JobStreamTypeOK, ConsumerTypeOK,
         SubmissionsTypeOK

(* A new entry waits for the group. *)
LEMMA EnqueueKeeps ==
    ASSUME Before, Enqueues
    PROVE  CoreInv'
<1>1. CoreInv
  BY DEF Before, RecoveryInv
<1>2. PICK k \in payload : stream' = Append(stream, k)
  BY DEF Enqueues
<1>3. k \in Jobs
  BY DEF Before, RecoveryInv, DeliveryInv, TypeInv, TypeOK, JobStreamTypeOK
<1>4. /\ Len(stream') = Len(stream) + 1
      /\ Entries' = Entries \cup {Len(stream) + 1}
      /\ \A e \in Entries : stream'[e] = stream[e]
      /\ Len(stream) \in Nat
  BY <1>2, <1>3 DEF Before, Entries
<1>5. UNCHANGED <<groupPos, pel, idle, hs, sub>>
  BY DEF Enqueues
<1>6. PositionInv'
  BY <1>1, <1>4, <1>5 DEF CoreInv, PositionInv, Before
<1>7. UnclaimedInv'
  BY <1>1, <1>4, <1>5 DEF CoreInv, UnclaimedInv, Fetching, Claimed, Before
<1>8. LeaseInv' /\ NothingGivenUp'
  BY <1>1, <1>5 DEF CoreInv, LeaseInv, NothingGivenUp, NeverPoisoned, Executing
<1>9. PendingInv'
  BY <1>1, <1>4, <1>5 DEF CoreInv, PendingInv, PositionInv, Fetching, Before
<1>10. AnchorInv'
  BY <1>1, <1>4, <1>5 DEF CoreInv, AnchorInv, Keeps, Executing, Before
<1> QED  BY <1>6, <1>7, <1>8, <1>9, <1>10 DEF CoreInv

(* An entry that turns idle belongs to a row that was claimed: the handler *)
(* of an unclaimed one would have been too slow.                           *)
LEMMA TurnsIdleKeeps ==
    ASSUME Before, TurnsIdle
    PROVE  CoreInv'
<1>1. CoreInv /\ PayloadInv
  BY DEF Before, RecoveryInv
<1>2. PICK e \in pel : /\ idle' = idle \cup {e}
                       /\ \A h \in Handlers : hs[h].entry = e => Executing(h)
  BY DEF TurnsIdle
<1>3. UNCHANGED <<stream, groupPos, pel, hs, sub>>
  BY DEF TurnsIdle
<1>4. \A h \in Handlers : Fetching(h) => hs[h].entry # e
  BY <1>2 DEF Fetching, Executing
<1>5. Claimed(stream[e])
  <2>1. stream[e] \in Jobs /\ sub[stream[e]].state # "none" /\ e \in Entries
    BY <1>1, <1>2 DEF PayloadInv, Listed, Before, Entries
  <2>2. e <= groupPos /\ e \in Nat
    BY <1>1, <1>2, <2>1 DEF CoreInv, PositionInv, Before, Entries
  <2>3. sub[stream[e]].state # "pending"
    BY <1>1, <1>4, <2>1, <2>2 DEF CoreInv, PendingInv, Before
  <2> QED  BY <2>1, <2>3 DEF Claimed, Before, Row, RowState
<1>6. PositionInv' /\ LeaseInv' /\ NothingGivenUp' /\ PendingInv' /\ AnchorInv'
  BY <1>1, <1>3 DEF CoreInv, PositionInv, LeaseInv, NothingGivenUp, NeverPoisoned, PendingInv,
     AnchorInv, Fetching, Keeps, Executing, Entries, Before
<1>7. UnclaimedInv'
  BY <1>1, <1>2, <1>3, <1>4, <1>5 DEF CoreInv, UnclaimedInv, Fetching, Claimed
<1> QED  BY <1>6, <1>7 DEF CoreInv

(* A crash loses no entry that is not pending of a claimed row. *)
LEMMA CrashKeeps ==
    ASSUME Before, Crashes
    PROVE  CoreInv'
<1>1. CoreInv
  BY DEF Before, RecoveryInv
<1>2. PICK w \in Workers :
          /\ \A h \in Handlers : WorkerOf(h) = w => ~Unclaimed(h)
          /\ hs' = [h \in Handlers |-> IF WorkerOf(h) = w THEN FreeSlot ELSE hs[h]]
  BY DEF Crashes
<1>3. UNCHANGED <<stream, groupPos, pel, idle, sub>>
  BY DEF Crashes, StreamQuiet
<1>4. \A h \in Handlers : hs'[h] = hs[h] \/ (hs'[h] = FreeSlot /\ ~Fetching(h))
  BY <1>2 DEF Unclaimed, Fetching
<1>5. FreeSlot.pc = "free"
  BY DEF FreeSlot
<1>6. PositionInv'
  BY <1>1, <1>3, <1>4, <1>5 DEF CoreInv, PositionInv, Entries, Before
<1>7. UnclaimedInv'
  BY <1>1, <1>3, <1>4, <1>5 DEF CoreInv, UnclaimedInv, Fetching, Claimed
<1>8. LeaseInv' /\ NothingGivenUp'
  BY <1>1, <1>3, <1>4, <1>5 DEF CoreInv, LeaseInv, NothingGivenUp, NeverPoisoned, Executing
<1>9. PendingInv'
  BY <1>1, <1>3, <1>4 DEF CoreInv, PendingInv, Fetching, Entries
<1>10. AnchorInv'
  BY <1>1, <1>3, <1>4, <1>5 DEF CoreInv, AnchorInv, Keeps, Executing
<1> QED  BY <1>6, <1>7, <1>8, <1>9, <1>10 DEF CoreInv

(* A new entry passes from the stream to the hands of one handler. *)
LEMMA ReadKeeps ==
    ASSUME Before, NEW h \in Handlers, Reads(h)
    PROVE  CoreInv'
<1>1. CoreInv /\ PayloadInv
  BY DEF Before, RecoveryInv
<1> DEFINE e == groupPos + 1
<1>2. /\ e \in Entries /\ groupPos' = e /\ pel' = pel \cup {e}
      /\ UNCHANGED <<stream, idle, sub>> /\ hs[h].pc = "free"
  BY DEF Reads
<1>3. /\ hs'[h].pc = "fetch" /\ hs'[h].via = "new" /\ hs'[h].entry = e
      /\ hs'[h].job = stream[e]
      /\ \A g \in Handlers \ {h} : hs'[g] = hs[g]
  BY DEF Reads, Deliver, FreeSlot, Before
<1>4. /\ \A f \in pel : f # e /\ f <= groupPos
      /\ \A g \in Handlers \ {h} : hs[g].pc # "free" => hs[g].entry # e
      /\ groupPos \in Nat /\ Len(stream) \in Nat /\ e \in Nat
  BY <1>1, <1>2 DEF CoreInv, PositionInv, Before, Entries
<1>5. /\ \A g \in Handlers \ {h} : hs[g].pc # "free" =>
             hs[g].entry \in Entries /\ hs[g].entry <= groupPos /\ stream[hs[g].entry] = hs[g].job
  BY <1>1 DEF CoreInv, PositionInv
<1>6. Entries' = Entries /\ e <= Len(stream)
  BY <1>2 DEF Entries
<1> HIDE DEF e
<1>7. groupPos < e /\ Entries \subseteq Nat
  BY <1>4 DEF e, Entries
<1>8. PositionInv'
  <2>1. \A g \in Handlers : hs'[g].pc # "free" =>
            hs'[g].entry \in Entries /\ hs'[g].entry <= e /\ stream[hs'[g].entry] = hs'[g].job
    <3> SUFFICES ASSUME NEW g \in Handlers, hs'[g].pc # "free"
                 PROVE  hs'[g].entry \in Entries /\ hs'[g].entry <= e
                        /\ stream[hs'[g].entry] = hs'[g].job
      OBVIOUS
    <3>1. CASE g = h
      BY <1>2, <1>3, <1>4, <3>1
    <3>2. CASE g # h
      <4>1. /\ hs'[g] = hs[g] /\ hs[g].entry \in Entries /\ hs[g].entry <= groupPos
            /\ stream[hs[g].entry] = hs[g].job
        BY <1>3, <1>5, <3>2
      <4>2. \A n \in Nat : n <= groupPos => n <= e
        BY <1>4, <1>7
      <4> QED  BY <1>7, <4>1, <4>2
    <3> QED  BY <3>1, <3>2
  <2>2. \A f \in pel' : f <= e
    BY <1>2, <1>4, <1>7 DEF Before
  <2> QED  BY <1>2, <1>4, <1>6, <2>1, <2>2 DEF PositionInv, Before
<1>9. UnclaimedInv'
  <2>1. UnclaimedInv /\ e \notin idle
    BY <1>1, <1>4 DEF CoreInv, Before
  <2> QED  BY <1>2, <1>3, <1>4, <2>1 DEF UnclaimedInv, Fetching, Claimed
<1>10. LeaseInv' /\ NothingGivenUp'
  BY <1>1, <1>2, <1>3 DEF CoreInv, LeaseInv, NothingGivenUp, NeverPoisoned, Executing
<1>11. PendingInv'
  <2> SUFFICES ASSUME NEW j \in Jobs, sub[j].state = "pending",
                      NEW f \in Entries, stream[f] = j
               PROVE  f > e \/ \E g \in Handlers : Fetching(g)' /\ hs'[g].entry = f
    BY <1>2, <1>6 DEF PendingInv
  <2>1. f > groupPos \/ \E g \in Handlers : Fetching(g) /\ hs[g].entry = f
    BY <1>1 DEF CoreInv, PendingInv
  <2>2. CASE f > groupPos
    <3>1. f = e \/ f > e
      BY <1>4, <1>7, <2>2 DEF e
    <3> QED  BY <1>3, <3>1 DEF Fetching
  <2>3. ASSUME NEW g \in Handlers, Fetching(g), hs[g].entry = f
        PROVE  Fetching(g)' /\ hs'[g].entry = f
    BY <1>2, <1>3, <2>3 DEF Fetching
  <2> QED  BY <2>1, <2>2, <2>3
<1>12. AnchorInv'
  BY <1>1, <1>2, <1>3, <1>4 DEF CoreInv, AnchorInv, Keeps, Executing
<1> QED  BY <1>8, <1>9, <1>10, <1>11, <1>12 DEF CoreInv

(* An idle entry passes to a handler that will not acknowledge it while    *)
(* the row runs.                                                           *)
LEMMA TakeOverKeeps ==
    ASSUME Before, NEW h \in Handlers, TakesOver(h)
    PROVE  CoreInv'
<1>1. CoreInv
  BY DEF Before, RecoveryInv
<1>2. PICK e \in idle : idle' = idle \ {e} /\ Deliver(h, e, "reclaim")
  BY DEF TakesOver
<1>3. UNCHANGED <<stream, groupPos, pel, sub>> /\ hs[h].pc = "free"
  BY DEF TakesOver
<1>4. /\ hs'[h].pc = "fetch" /\ hs'[h].via = "reclaim" /\ hs'[h].entry = e
      /\ hs'[h].job = stream[e]
      /\ \A g \in Handlers \ {h} : hs'[g] = hs[g]
  BY <1>2 DEF Deliver, FreeSlot, Before
<1>5. e \in Entries /\ e <= groupPos /\ Claimed(stream[e])
  BY <1>1, <1>2 DEF CoreInv, PositionInv, UnclaimedInv, Before
<1>6. PositionInv'
  BY <1>1, <1>3, <1>4, <1>5 DEF CoreInv, PositionInv, Entries, Before
<1>7. UnclaimedInv'
  BY <1>1, <1>2, <1>3, <1>4, <1>5 DEF CoreInv, UnclaimedInv, Fetching, Claimed
<1>8. LeaseInv' /\ NothingGivenUp'
  BY <1>1, <1>3, <1>4 DEF CoreInv, LeaseInv, NothingGivenUp, NeverPoisoned, Executing
<1>9. PendingInv'
  <2>1. \A g \in Handlers : Fetching(g) => Fetching(g)' /\ hs'[g].entry = hs[g].entry
    BY <1>3, <1>4 DEF Fetching
  <2> QED  BY <1>1, <1>3, <2>1 DEF CoreInv, PendingInv, Entries
<1>10. AnchorInv'
  BY <1>1, <1>3, <1>4 DEF CoreInv, AnchorInv, Keeps, Executing
<1> QED  BY <1>6, <1>7, <1>8, <1>9, <1>10 DEF CoreInv

(* An acknowledged entry is not the one a running row rests on. *)
LEMMA AcknowledgeKeeps ==
    ASSUME Before, NEW h \in Handlers, Acknowledges(h)
    PROVE  CoreInv'
<1>1. CoreInv
  BY DEF Before, RecoveryInv
<1> DEFINE e == hs[h].entry
<1>2. /\ pel' = pel \ {e} /\ idle' = idle \ {e} /\ UNCHANGED <<stream, groupPos, sub>>
      /\ hs[h].pc = "ack"
  BY DEF Acknowledges
<1>3. hs'[h].pc = "free" /\ \A g \in Handlers \ {h} : hs'[g] = hs[g]
  BY DEF Acknowledges, Release, FreeSlot, Before
<1>4. \A g \in Handlers : Fetching(g) => hs[g].entry # e
  BY <1>1, <1>2 DEF CoreInv, UnclaimedInv, Fetching
<1>5. PositionInv'
  BY <1>1, <1>2, <1>3 DEF CoreInv, PositionInv, Entries, Before
<1>6. UnclaimedInv'
  BY <1>1, <1>2, <1>3, <1>4 DEF CoreInv, UnclaimedInv, Fetching, Claimed
<1>7. LeaseInv' /\ NothingGivenUp'
  BY <1>1, <1>2, <1>3 DEF CoreInv, LeaseInv, NothingGivenUp, NeverPoisoned, Executing
<1>8. PendingInv'
  <2>1. \A g \in Handlers : Fetching(g) => Fetching(g)' /\ hs'[g].entry = hs[g].entry
    BY <1>2, <1>3 DEF Fetching
  <2> QED  BY <1>1, <1>2, <2>1 DEF CoreInv, PendingInv, Entries
<1>9. AnchorInv'
  <2>1. ~Keeps(h)
    BY <1>2 DEF Keeps, Executing
  <2> QED  BY <1>1, <1>2, <1>3, <2>1 DEF CoreInv, AnchorInv, Keeps, Executing
<1> QED  BY <1>5, <1>6, <1>7, <1>8, <1>9 DEF CoreInv

(* A row is created with no entry yet, collected when nothing depends on   *)
(* it, and loses its lease when nobody counts on it.                       *)
LEMMA RowMoveKeeps ==
    ASSUME Before, NEW j \in Jobs, RowMoves(j)
    PROVE  CoreInv'
<1>1. CoreInv /\ PayloadInv /\ FenceInv
  BY DEF Before, RecoveryInv
<1>2. UNCHANGED <<stream, groupPos, pel, idle, hs>>
  BY DEF RowMoves, StreamQuiet
<1>3. \A i \in Jobs \ {j} : sub'[i] = sub[i]
  BY DEF RowMoves, Becomes
<1>4. \/ sub[j].state = "none" /\ sub'[j].state = "pending"
      \/ sub[j].state = "done" /\ sub'[j].state = "gone"
      \/ sub[j].state = sub'[j].state /\ sub'[j].state # "none"
  <2>1. sub[j].state = "none" => sub[j].lease = "null"
    BY <1>1 DEF FenceInv, RowInv, RowOK
  <2> QED  BY <2>1 DEF RowMoves, Becomes
<1>5. \A i \in Jobs : Claimed(i) => Claimed(i)'
  BY <1>3, <1>4 DEF Claimed
<1>6. \A h \in Handlers : hs[h].pc # "free" => hs[h].job \in Jobs
  BY <1>1 DEF FenceInv, TypeInv, InFlightNamesJob
<1>7. \A e \in Entries : stream[e] \in Jobs
  BY DEF Before, Entries
<1>8. PositionInv'
  BY <1>1, <1>2 DEF CoreInv, PositionInv, Entries, Before
<1>9. UnclaimedInv'
  BY <1>1, <1>2, <1>5, <1>6, <1>7 DEF CoreInv, UnclaimedInv, Fetching, Before
<1>10. LeaseInv'
  <2>1. \/ UNCHANGED sub
        \/ sub[j].state \in {"none", "done"} /\ sub'[j].state # "processing"
        \/ /\ sub'[j].state = sub[j].state /\ sub'[j].lease = "expired"
           /\ \A h \in Handlers : ~Holds(h, j) /\ ~(hs[h].pc = "inspect" /\ hs[h].job = j)
    BY DEF RowMoves, Becomes
  <2>2. \A h \in Handlers : Executing(h) /\ ~hs[h].lost => hs[h].job # j \/ UNCHANGED sub
    BY <1>1, <2>1 DEF CoreInv, LeaseInv, Holds
  <2>3. \A h \in Handlers : Executing(h) \/ hs[h].pc = "inspect" => hs[h].job \in Jobs
    BY <1>6 DEF Executing
  <2>4. \A i \in Jobs : sub'[i].state = "processing" => sub'[i].lease # "null"
    BY <1>1, <1>3, <2>1 DEF CoreInv, LeaseInv
  <2>5. \A h \in Handlers : Executing(h) /\ ~hs[h].lost =>
          /\ sub'[hs[h].job].state = "processing"
          /\ sub'[hs[h].job].attempt = hs[h].att
          /\ sub'[hs[h].job].lease = "valid"
    BY <1>1, <1>3, <2>2, <2>3 DEF CoreInv, LeaseInv
  <2>6. \A h \in Handlers : hs[h].pc = "inspect" /\ sub'[hs[h].job].state = "processing" =>
          sub'[hs[h].job].lease = "valid"
    BY <1>1, <1>3, <2>1, <2>3 DEF CoreInv, LeaseInv
  <2> QED  BY <1>1, <1>2, <2>4, <2>5, <2>6 DEF CoreInv, LeaseInv, Executing
<1>11. NothingGivenUp'
  BY <1>1, <1>2, <1>3 DEF RowMoves, Becomes, CoreInv, NothingGivenUp, NeverPoisoned
<1>12. PendingInv'
  <2>1. \A e \in Entries : sub[stream[e]].state # "none"
    BY <1>1 DEF PayloadInv, Listed
  <2> QED  BY <1>1, <1>2, <1>3, <1>4, <2>1 DEF CoreInv, PendingInv, Fetching, Entries
<1>13. AnchorInv'
  BY <1>1, <1>2, <1>3, <1>4 DEF CoreInv, AnchorInv, Keeps, Executing
<1> QED  BY <1>8, <1>9, <1>10, <1>11, <1>12, <1>13 DEF CoreInv

(* A handler lets its entry go only when the row has got past it. *)
LEMMA WorkKeeps ==
    ASSUME Before, NEW h \in Handlers, NEW j \in Jobs, Works(h, j)
    PROVE  CoreInv'
<1>1. CoreInv /\ PayloadInv /\ FenceInv
  BY DEF Before, RecoveryInv
<1>2. /\ UNCHANGED <<stream, groupPos, pel, idle>> /\ Entries' = Entries
      /\ hs[h].pc # "free" /\ hs[h].job = j
  BY DEF Works, StreamQuiet, Entries
<1>3. /\ \A g \in Handlers \ {h} : hs'[g] = hs[g]
      /\ \/ Proceeds(h, j, hs'[h]) /\ hs'[h].entry = hs[h].entry /\ hs'[h].job = j
            /\ hs'[h].via = hs[h].via
         \/ hs'[h].pc = "free" /\ LetsGo(h, j)
  <2>1. ASSUME NEW t \in Task, Turns(h, t), Proceeds(h, j, t)
        PROVE  /\ \A g \in Handlers \ {h} : hs'[g] = hs[g]
               /\ Proceeds(h, j, hs'[h]) /\ hs'[h].entry = hs[h].entry /\ hs'[h].job = j
               /\ hs'[h].via = hs[h].via
    <3>1. hs'[h] = t /\ \A g \in Handlers \ {h} : hs'[g] = hs[g]
      BY <2>1 DEF Turns, Before
    <3> QED  BY <1>2, <2>1, <3>1 DEF Turns, Proceeds
  <2>2. ASSUME Release(h)
        PROVE  hs'[h].pc = "free" /\ \A g \in Handlers \ {h} : hs'[g] = hs[g]
    BY <2>2 DEF Release, FreeSlot, Before
  <2> QED  BY <2>1, <2>2 DEF Works
<1>4. \/ UNCHANGED sub
      \/ sub[j].state \in {"pending", "processing"} /\ sub'[j].state \in {"processing", "done"}
  BY <1>3 DEF Proceeds, LetsGo, Enters, Becomes
<1>5. /\ \A i \in Jobs \ {j} : sub'[i] = sub[i]
      /\ \A i \in Jobs : Claimed(i) => Claimed(i)'
  <2>1. \A i \in Jobs \ {j} : sub'[i] = sub[i]
    BY <1>3 DEF Proceeds, LetsGo, Enters, Becomes
  <2> QED  BY <1>4, <2>1 DEF Claimed
<1>6. \A g \in Handlers : hs[g].pc # "free" =>
          hs[g].job \in Jobs /\ hs[g].entry \in Entries /\ stream[hs[g].entry] = hs[g].job
  BY <1>1 DEF FenceInv, TypeInv, InFlightNamesJob, CoreInv, PositionInv
<1>7. \A e \in Entries : stream[e] \in Jobs /\ sub[stream[e]].state # "none"
  BY <1>1 DEF PayloadInv, Listed, Before, Entries
<1>8. PositionInv'
  BY <1>1, <1>2, <1>3 DEF CoreInv, PositionInv, Before
<1>9. UnclaimedInv'
  <2>1. hs'[h].pc = "claim" => hs'[h].via = "new"
    BY <1>3 DEF Proceeds
  <2>2. Fetching(h)' => Fetching(h) /\ hs'[h].entry = hs[h].entry
    BY <1>3 DEF Proceeds, Fetching
  <2>3. hs'[h].pc # "free" /\ ~Fetching(h)' => Claimed(j)'
    <3>1. CASE ~Fetching(h)
      BY <1>1, <1>2, <1>5, <3>1 DEF CoreInv, UnclaimedInv
    <3>2. CASE Fetching(h)
      <4>1. sub[j].state # "none" /\ sub[j].state \in RowState
        BY <1>2, <1>6, <1>7 DEF Before, Row
      <4> QED  BY <1>3, <3>2, <4>1 DEF Proceeds, Fetching, Claimed, RowState, Enters, Becomes
    <3> QED  BY <3>1, <3>2
  <2>4. \A g \in Handlers \ {h} : Fetching(g)' <=> Fetching(g)
    BY <1>3 DEF Fetching
  <2>5. \A e \in idle : Claimed(stream[e])'
    BY <1>1, <1>2, <1>5, <1>7 DEF CoreInv, UnclaimedInv, Before, Claimed
  <2>6. \A g \in Handlers : hs'[g].pc # "free" =>
            hs[g].pc # "free" /\ hs'[g].entry = hs[g].entry /\ hs'[g].job = hs[g].job
    BY <1>2, <1>3
  <2>7. \A g \in Handlers : hs'[g].pc = "claim" => hs'[g].via = "new"
    BY <1>1, <1>3, <2>1 DEF CoreInv, UnclaimedInv
  <2>8. \A g \in Handlers : Fetching(g)' =>
          /\ hs'[g].entry \in pel \ idle
          /\ \A f \in Handlers \ {g} : hs'[f].pc # "free" => hs'[f].entry # hs'[g].entry
    <3>1. \A g \in Handlers : Fetching(g)' => Fetching(g) /\ hs'[g].pc # "free"
      BY <2>2, <2>4 DEF Fetching
    <3> QED  BY <1>1, <2>6, <3>1 DEF CoreInv, UnclaimedInv
  <2>9. \A g \in Handlers : hs'[g].pc # "free" /\ ~Fetching(g)' =>
          sub'[hs'[g].job].state \in {"processing", "done", "gone"}
    <3> SUFFICES ASSUME NEW g \in Handlers, hs'[g].pc # "free", ~Fetching(g)'
                 PROVE  sub'[hs'[g].job].state \in {"processing", "done", "gone"}
      OBVIOUS
    <3>1. CASE g = h
      BY <1>2, <2>3, <2>6, <3>1 DEF Claimed
    <3>2. CASE g # h
      BY <1>1, <1>5, <1>6, <2>4, <2>6, <3>2 DEF CoreInv, UnclaimedInv, Claimed
    <3> QED  BY <3>1, <3>2
  <2> QED  BY <1>2, <2>5, <2>7, <2>8, <2>9 DEF UnclaimedInv, Claimed
<1>10. LeaseInv'
  <2>1. LeaseInv /\ UniqueExecutor
    BY <1>1 DEF CoreInv, FenceInv
  <2>2. \A i \in Jobs : sub'[i].state = "processing" => sub'[i].lease # "null"
    <3>1. \/ UNCHANGED sub \/ Enters(j)
          \/ Becomes(j, "processing", sub[j].attempt, "valid", sub[j].verdict, sub[j].by)
          \/ Becomes(j, "done", hs[h].att, "null", "judged", hs[h].att)
      BY <1>3, Zenon DEF Proceeds, LetsGo
    <3> QED  BY <2>1, <3>1 DEF LeaseInv, Enters, Becomes
  <2>3. \A g \in Handlers : hs'[g].pc \in {"resolve", "finalize"} => ~hs'[g].lost
    <3>1. hs'[h].pc \in {"resolve", "finalize"} => ~hs'[h].lost
      BY <1>3, <2>1 DEF LeaseInv, Proceeds
    <3> QED  BY <1>3, <2>1, <3>1 DEF LeaseInv
  <2>4. \A g \in Handlers : Executing(g)' /\ ~hs'[g].lost =>
          /\ sub'[hs'[g].job].state = "processing"
          /\ sub'[hs'[g].job].attempt = hs'[g].att
          /\ sub'[hs'[g].job].lease = "valid"
    <3>1. Executing(h)' /\ ~hs'[h].lost =>
            /\ sub'[j].state = "processing"
            /\ sub'[j].attempt = hs'[h].att
            /\ sub'[j].lease = "valid"
      BY <1>2, <1>3, <2>1 DEF LeaseInv, Proceeds, Enters, Becomes, Executing
    <3>2. ASSUME NEW g \in Handlers \ {h}, Executing(g), ~hs[g].lost, hs[g].job = j
          PROVE  /\ sub'[j].state = "processing"
                 /\ sub'[j].attempt = hs[g].att
                 /\ sub'[j].lease = "valid"
      <4>1. sub[j].state = "processing" /\ sub[j].attempt = hs[g].att /\ sub[j].lease = "valid"
        BY <2>1, <3>2 DEF LeaseInv
      <4>2. Executing(h) => hs[h].att # hs[g].att
        BY <1>2, <2>1, <3>2 DEF UniqueExecutor
      <4> QED  BY <1>3, <4>1, <4>2 DEF Proceeds, LetsGo, Enters, Becomes, Executing
    <3>3. \A g \in Handlers \ {h} : Executing(g)' <=> Executing(g)
      BY <1>3 DEF Executing
    <3>4. \A g \in Handlers \ {h} : Executing(g) => hs[g].job \in Jobs
      BY <1>6 DEF Executing
    <3> SUFFICES ASSUME NEW g \in Handlers, Executing(g)', ~hs'[g].lost
                 PROVE  /\ sub'[hs'[g].job].state = "processing"
                        /\ sub'[hs'[g].job].attempt = hs'[g].att
                        /\ sub'[hs'[g].job].lease = "valid"
      OBVIOUS
    <3>5. CASE g = h
      <4>1. hs'[h].job = j
        BY <1>3, <3>5 DEF Executing
      <4> QED  BY <3>1, <3>5, <4>1
    <3>6. CASE g # h /\ hs[g].job = j
      BY <1>3, <3>2, <3>3, <3>6
    <3>7. CASE g # h /\ hs[g].job # j
      BY <1>3, <1>5, <2>1, <3>3, <3>4, <3>7 DEF LeaseInv
    <3> QED  BY <3>5, <3>6, <3>7
  <2>5. \A g \in Handlers : hs'[g].pc = "inspect" /\ sub'[hs'[g].job].state = "processing" =>
          sub'[hs'[g].job].lease = "valid"
    <3>1. hs'[h].pc = "inspect" /\ sub'[j].state = "processing" => sub'[j].lease = "valid"
      <4>1. sub[j].lease \in {"null", "valid", "expired"}
        BY DEF Before, Row
      <4> QED  BY <1>3, <2>1, <4>1 DEF LeaseInv, Proceeds
    <3>2. sub'[j].state = "processing" =>
             sub'[j].lease = "valid" \/ (sub[j].state = "processing" /\ sub'[j].lease = sub[j].lease)
      BY <1>3 DEF Proceeds, LetsGo, Enters, Becomes
    <3> SUFFICES ASSUME NEW g \in Handlers, hs'[g].pc = "inspect",
                        sub'[hs'[g].job].state = "processing"
                 PROVE  sub'[hs'[g].job].lease = "valid"
      OBVIOUS
    <3>3. CASE g = h
      BY <1>3, <3>1, <3>3
    <3>4. CASE g # h
      BY <1>3, <1>5, <1>6, <2>1, <3>2, <3>4 DEF LeaseInv
    <3> QED  BY <3>3, <3>4
  <2> QED  BY <2>2, <2>3, <2>4, <2>5 DEF LeaseInv
<1>11. NothingGivenUp'
  <2>1. hs'[h].pc \notin {"poison", "reject"}
    BY <1>3 DEF Proceeds
  <2>2. sub'[j].verdict \in {sub[j].verdict, "judged"}
    BY <1>3 DEF Proceeds, LetsGo, Enters, Becomes
  <2> QED  BY <1>1, <1>3, <1>5, <2>1, <2>2 DEF CoreInv, NothingGivenUp, NeverPoisoned
<1>12. PendingInv'
  <2> SUFFICES ASSUME NEW i \in Jobs, sub'[i].state = "pending",
                      NEW e \in Entries, stream[e] = i
               PROVE  e > groupPos \/ \E g \in Handlers : Fetching(g)' /\ hs'[g].entry = e
    BY <1>2 DEF PendingInv
  <2>1. sub[i] = sub'[i]
    BY <1>4, <1>5
  <2>2. e > groupPos \/ \E g \in Handlers : Fetching(g) /\ hs[g].entry = e
    BY <1>1, <2>1 DEF CoreInv, PendingInv
  <2>3. ASSUME NEW g \in Handlers, Fetching(g), hs[g].entry = e
        PROVE  Fetching(g)' /\ hs'[g].entry = e
    <3>1. CASE g # h
      BY <1>3, <2>3, <3>1 DEF Fetching
    <3>2. CASE g = h
      <4>1. i = j
        BY <1>2, <1>6, <2>3, <3>2
      <4> QED  BY <1>3, <2>1, <2>3, <3>2, <4>1 DEF Fetching, Proceeds, LetsGo, Enters, Becomes
    <3> QED  BY <3>1, <3>2
  <2> QED  BY <2>2, <2>3
<1>13. AnchorInv'
  <2> SUFFICES ASSUME NEW i \in Jobs, sub'[i].state = "processing"
               PROVE  \E e \in pel :
                         /\ stream[e] = i
                         /\ \A g \in Handlers : hs'[g].pc # "free" /\ hs'[g].entry = e => Keeps(g)'
    BY <1>2 DEF AnchorInv
  <2>1. \A g \in Handlers \ {h} : Keeps(g)' <=> Keeps(g)
    BY <1>3 DEF Keeps, Executing
  <2>2. CASE sub[i].state = "processing"
    <3>1. PICK e \in pel :
              /\ stream[e] = i
              /\ \A g \in Handlers : hs[g].pc # "free" /\ hs[g].entry = e => Keeps(g)
      BY <1>1, <2>2 DEF CoreInv, AnchorInv
    <3>2. hs'[h].pc # "free" /\ hs'[h].entry = e => Keeps(h)'
      <4> SUFFICES ASSUME hs'[h].pc # "free", hs'[h].entry = e  PROVE Keeps(h)'
        OBVIOUS
      <4>1. hs[h].entry = e /\ Keeps(h) /\ i = j /\ hs'[h].via = hs[h].via /\ Proceeds(h, j, hs'[h])
        BY <1>2, <1>3, <1>6, <3>1
      <4>2. hs[h].pc = "inspect" => sub[j].lease = "valid"
        BY <1>1, <1>2, <2>2, <4>1 DEF CoreInv, LeaseInv
      <4> QED  BY <2>2, <4>1, <4>2 DEF Keeps, Executing, Proceeds, Becomes
    <3> QED  BY <1>3, <2>1, <3>1, <3>2
  <2>3. CASE sub[i].state # "processing"
    <3>1. i = j /\ hs[h].pc = "claim"
      BY <1>3, <1>5, <2>3 DEF Proceeds, LetsGo, Enters, Becomes
    <3>2. Fetching(h)
      BY <1>1, <3>1 DEF CoreInv, UnclaimedInv, Fetching
    <3>3. /\ hs[h].entry \in pel /\ stream[hs[h].entry] = i
          /\ \A g \in Handlers \ {h} : hs[g].pc # "free" => hs[g].entry # hs[h].entry
      BY <1>1, <1>2, <1>6, <3>1, <3>2 DEF CoreInv, UnclaimedInv
    <3>4. hs'[h].pc # "free" => Keeps(h)'
      BY <1>3, <2>3, <3>1 DEF Proceeds, Keeps, Executing
    <3> QED  BY <1>3, <3>3, <3>4
  <2> QED  BY <2>2, <2>3
<1> QED  BY <1>8, <1>9, <1>10, <1>11, <1>12, <1>13 DEF CoreInv

(* The invariant is inductive as long as nothing lossy happens. *)
LEMMA RecoveryStep ==
    ASSUME Recoverable, RecoveryInv, [Next]_vars
    PROVE  RecoveryInv'
<1>1. FenceInv' /\ DeliveryInv' /\ PayloadInv'
  BY FenceStep, DeliveryStep, PayloadStep DEF RecoveryInv
<1>2. Before /\ Shape
  BY BeforeHolds, StepShape
<1>3. ASSUME Rests  PROVE CoreInv'
  <2>1. CoreInv /\ UNCHANGED <<stream, groupPos, pel, idle, hs, sub>>
    BY <1>3 DEF Rests, StreamQuiet, RecoveryInv
  <2>2. PositionInv' /\ UnclaimedInv'
    BY <1>2, <2>1 DEF CoreInv, Before, PositionInv, UnclaimedInv, Fetching, Claimed, Entries
  <2>3. LeaseInv' /\ NothingGivenUp'
    BY <2>1 DEF CoreInv, LeaseInv, NothingGivenUp, NeverPoisoned, Executing
  <2>4. PendingInv' /\ AnchorInv'
    BY <2>1 DEF CoreInv, PendingInv, AnchorInv, Fetching, Keeps, Executing, Entries
  <2> QED  BY <2>2, <2>3, <2>4 DEF CoreInv
<1>4. CoreInv'
  BY <1>2, <1>3, EnqueueKeeps, TurnsIdleKeeps, CrashKeeps, ReadKeeps, TakeOverKeeps,
     AcknowledgeKeeps, RowMoveKeeps, WorkKeeps DEF Shape
<1> QED  BY <1>1, <1>4 DEF RecoveryInv

(* Nothing is in flight when the system starts with its consumer group.    *)
LEMMA RecoveryInit ==
    ASSUME Recoverable, Init
    PROVE  RecoveryInv
<1>1. FenceInv /\ DeliveryInv
  BY FenceInit, DeliveryInit
<1>2. /\ \A j \in Jobs : sub[j].state = "none" /\ sub[j].verdict = "none"
      /\ \A h \in Handlers : hs[h].pc = "free"
      /\ stream = <<>> /\ trimPos = 0 /\ groupPos = 0 /\ pel = {} /\ idle = {} /\ group
      /\ \A d \in Dispatchers : dpc[d] = "next"
      /\ candidates = {} /\ repairing = None
  BY DEF Init, SubmissionsInit, AbsentRow, JobStreamInit, DispatcherInit, ConsumerInit, FreeSlot,
         RepairInit, Recoverable
<1>3. Entries = {} /\ Listed = {}
  BY <1>2 DEF Entries, Listed
<1>4. PayloadInv
  BY <1>2, <1>3 DEF PayloadInv
<1>5. PositionInv
  BY <1>2 DEF PositionInv
<1>6. UnclaimedInv /\ LeaseInv /\ NothingGivenUp /\ PendingInv /\ AnchorInv
  BY <1>2, <1>3 DEF UnclaimedInv, LeaseInv, NothingGivenUp, NeverPoisoned, PendingInv, AnchorInv,
     Fetching, Executing
<1> QED  BY <1>1, <1>4, <1>5, <1>6 DEF RecoveryInv, CoreInv

(* The recovery invariant holds in every reachable state. *)
THEOREM RecoveryInvariance ==
    ASSUME Recoverable
    PROVE  Spec => []RecoveryInv
<1>1. Init => RecoveryInv
  BY RecoveryInit
<1>2. RecoveryInv /\ [Next]_vars => RecoveryInv'
  BY RecoveryStep
<1> QED  BY <1>1, <1>2, PTL DEF Spec

(* No job is lost: as long as no failure of LossyFaults happens, an open   *)
(* job has its event pending, an entry the group has yet to see or has     *)
(* pending, or a handler at work, however many dispatchers, workers and    *)
(* slots there are and however often they crash, stall and lose replies.   *)
THEOREM NoOrphanCorrect ==
    ASSUME Recoverable
    PROVE  Spec => []NoOrphan
<1>1. ASSUME RecoveryInv  PROVE NoOrphan
  <2>1. /\ TypeInv /\ DeliveredListed /\ EventsHaveRows
        /\ PositionInv /\ PendingInv /\ AnchorInv
    BY <1>1 DEF RecoveryInv, CoreInv, DeliveryInv
  <2>2. NextEntry = groupPos + 1 /\ groupPos \in Nat /\ trimPos = 0 /\ Entries \subseteq Nat \ {0}
    BY <2>1 DEF TypeInv, TypeOK, JobStreamTypeOK, PositionInv, NextEntry, Entries
  <2> SUFFICES ASSUME NEW j \in Jobs, Open(j)  PROVE Driven(j)
    BY DEF NoOrphan
  <2>3. CASE sub[j].state = "pending"
    <3>1. outbox[j] \in {"pending", "delivered"}
      BY <2>1, <2>3 DEF EventsHaveRows, TypeInv, TypeOK, DispatcherTypeOK
    <3>2. CASE outbox[j] = "delivered"
      <4>1. PICK e \in Entries : stream[e] = j
        BY <2>1, <3>2 DEF DeliveredListed, Listed
      <4>2. e > groupPos => e > trimPos /\ e >= NextEntry
        BY <2>2
      <4>3. ASSUME NEW h \in Handlers, Fetching(h), hs[h].entry = e  PROVE hs[h].job = j
        BY <2>1, <4>1, <4>3 DEF PositionInv, Fetching
      <4> QED  BY <2>1, <2>3, <4>1, <4>2, <4>3 DEF PendingInv, Driven, Waiting
    <3> QED  BY <3>1, <3>2 DEF Driven, Waiting
  <2>4. CASE sub[j].state = "processing"
    <3>1. PICK e \in pel : stream[e] = j
      BY <2>1, <2>4 DEF AnchorInv
    <3>2. e \in Entries /\ e > trimPos
      BY <2>1, <2>2 DEF TypeInv, TypeOK, JobStreamTypeOK
    <3> QED  BY <3>1, <3>2 DEF Driven, Waiting
  <2> QED  BY <2>3, <2>4 DEF Open
<1>2. RecoveryInv => NoOrphan
  BY <1>1
<1> QED  BY <1>2, RecoveryInvariance, PTL

(* No accepted job is ended as poisoned, as long as no failure of          *)
(* LossyFaults happens: every entry a handler fetches has its payload, and *)
(* no handler mistakes an error for a missing one.                         *)
THEOREM NeverPoisonedCorrect ==
    ASSUME Recoverable
    PROVE  Spec => []NeverPoisoned
<1>1. RecoveryInv => NeverPoisoned
  BY DEF RecoveryInv, CoreInv, NothingGivenUp
<1> QED  BY <1>1, RecoveryInvariance, PTL
=============================================================================
