------------------------------- MODULE Submit -------------------------------
(***************************************************************************)
(* POST /submit and what it leaves behind for GET /status                  *)
(* (src/go/internal/api/handler.go, stream_enqueue.go): the fixed window   *)
(* rate limit, the result cache, the cap on active submissions, the dedupe *)
(* key, and the submission row with its outbox event or stream entry.      *)
(*                                                                         *)
(* A handler is one request in progress.  Job ids are drawn in order: the  *)
(* UUIDs 1, 2, ...  What the pipeline makes of an enqueued job is one      *)
(* step, JobEnds; JobPipeline is about it.                                 *)
(***************************************************************************)
EXTENDS Naturals, FiniteSetsExt, Faults

CONSTANTS
    Handlers,
    Users,
    Addrs,              \* client IP addresses
    Keys,               \* cache keys: code, limits, problem and test data hash
    MaxJobs,            \* bound: job ids that are drawn
    IpLimit, UserLimit, \* RATE_LIMIT_IP_PER_WINDOW, RATE_LIMIT_USER_PER_WINDOW
    SubmitMaxInflight,  \* SUBMIT_MAX_INFLIGHT
    Deployments,        \* the deployments a run looks at: OUTBOX_ENABLED, and whether
                        \* anything outside this repository fills the result cache
    None

Jobs == 1..MaxJobs

Limit(k) == IF k \in Addrs THEN IpLimit ELSE UserLimit

ASSUME SubmitAssumption ==
    /\ MaxJobs \in Nat
    /\ IpLimit \in Nat \ {0} /\ UserLimit \in Nat \ {0}
    /\ SubmitMaxInflight \in Nat \ {0}
    /\ IsFiniteSet(Handlers)
    /\ Deployments \subseteq [outbox : BOOLEAN, cacheWriter : BOOLEAN]
    /\ None \notin Users \cup Addrs \cup Keys
    /\ Users \cap Addrs = {}

VARIABLES
    deployment, \* how the API was started
    req,        \* req[h]: the request of handler h
    rate,       \* rate[k]: the counter of an address or a user, and whether it has a TTL
    cache,      \* keys with a cached result
    inflight,   \* inflight[k]: the job id under the dedupe key of k, 0 when absent
    row,        \* row[j]: the submission of job j
    driven,     \* jobs with an outbox event or a stream entry
    result,     \* jobs with a result:<job> key
    drawn,      \* how many job ids were drawn
    told        \* what clients were answered

vars == <<deployment, req, rate, cache, inflight, row, driven, result, drawn, told, budget>>

OutboxEnabled == deployment.outbox

CacheWriter == deployment.cacheWriter

NoRow == [state |-> "absent", user |-> None, key |-> None]

NoRequest == [pc |-> "idle", user |-> None, addr |-> None, key |-> None, job |-> 0]

(* Types; every job id in use was drawn once (uuid.New).                    *)
TypeOK ==
    /\ deployment \in Deployments
    /\ req \in [Handlers ->
          [pc : {"idle", "ip", "ipexp", "user", "userexp", "check", "hit", "hitdone", "count",
                 "setnx", "get", "persist", "payload", "xadd", "undo"},
           user : Users \cup {None}, addr : Addrs \cup {None}, key : Keys \cup {None},
           job : 0..MaxJobs]]
    /\ \A k \in Addrs \cup Users : rate[k] \in [n : 0..(Limit(k) + 1), ttl : BOOLEAN]
    /\ cache \subseteq Keys
    /\ inflight \in [Keys -> 0..MaxJobs]
    /\ row \in [Jobs -> [state : {"absent", "pending", "done"}, user : Users \cup {None},
                         key : Keys \cup {None}]]
    /\ driven \subseteq Jobs
    /\ result \subseteq Jobs
    /\ drawn \in 0..MaxJobs
    /\ told \subseteq [how : {"own", "cached", "dedupe"}, user : Users, job : Jobs]
    /\ budget \in Nat
    /\ \A h \in Handlers : req[h].job <= drawn

Init ==
    /\ deployment \in Deployments
    /\ req = [h \in Handlers |-> NoRequest]
    /\ rate = [k \in Addrs \cup Users |-> [n |-> 0, ttl |-> FALSE]]
    /\ cache = {}
    /\ inflight = [k \in Keys |-> 0]
    /\ row = [j \in Jobs |-> NoRow]
    /\ driven = {}
    /\ result = {}
    /\ drawn = 0
    /\ told = {}
    /\ FaultsInit

---------------------------------------------------------------------------
Goto(h, pc) == req' = [req EXCEPT ![h].pc = pc]

\* The handler answers without a job id (400, 429 or 500).
Refuse(h) == req' = [req EXCEPT ![h] = NoRequest]

Answer(h, how, j) ==
    /\ req' = [req EXCEPT ![h] = NoRequest]
    /\ told' = told \cup {[how |-> how, user |-> req[h].user, job |-> j]}

\* Every request that has begun will find a job id.
Arrive(h, u, a, k) ==
    /\ req[h].pc = "idle"
    /\ drawn + Cardinality({g \in Handlers : req[g].pc # "idle"}) < MaxJobs
    /\ req' = [req EXCEPT ![h] = [pc |-> "ip", user |-> u, addr |-> a, key |-> k, job |-> 0]]
    /\ NoFault
    /\ UNCHANGED <<rate, cache, inflight, row, driven, drawn, told, result>>

---------------------------------------------------------------------------
(* consumeRateLimit: INCR, then EXPIRE when the counter was new.  A Redis  *)
(* error lets the request pass, whether or not INCR was applied; the error *)
(* of EXPIRE is ignored.  Counts above the limit are not told apart.       *)

Count(k) == [rate EXCEPT ![k].n = Min({rate[k].n + 1, Limit(k) + 1})]

Incr(h, k, expire, next) ==
    /\ \/ /\ rate' = Count(k)
          /\ IF rate[k].n = 0 THEN Goto(h, expire)
             ELSE IF rate[k].n < Limit(k) THEN Goto(h, next) ELSE Refuse(h)
          /\ NoFault
       \/ /\ Fault("redis_rate")
          /\ rate' \in {rate, Count(k)}
          /\ Goto(h, next)
    /\ UNCHANGED <<cache, inflight, row, driven, drawn, told, result>>

Expire(h, k, next) ==
    /\ \/ rate' = [rate EXCEPT ![k].ttl = TRUE] /\ NoFault
       \/ Fault("redis_rate") /\ UNCHANGED rate
    /\ Goto(h, next)
    /\ UNCHANGED <<cache, inflight, row, driven, drawn, told, result>>

CheckRateLimit(h) ==
    \/ req[h].pc = "ip" /\ Incr(h, req[h].addr, "ipexp", "user")
    \/ req[h].pc = "ipexp" /\ Expire(h, req[h].addr, "user")
    \/ req[h].pc = "user" /\ Incr(h, req[h].user, "userexp", "check")
    \/ req[h].pc = "userexp" /\ Expire(h, req[h].user, "check")

---------------------------------------------------------------------------
\* A request that is not valid is refused; an error of the cache is a miss.
Check(h) ==
    /\ req[h].pc = "check"
    /\ \/ Refuse(h) /\ NoFault
       \/ Goto(h, IF req[h].key \in cache THEN "hit" ELSE "count") /\ NoFault
       \/ Fault("redis_cache") /\ Goto(h, "count")
    /\ UNCHANGED <<rate, cache, inflight, row, driven, drawn, told, result>>

Pending(h) == [state |-> "pending", user |-> req[h].user, key |-> req[h].key]

\* A cache hit inserts a row without an event ...
HitInsert(h) ==
    LET j == drawn + 1
        stored == [row EXCEPT ![j] = Pending(h)]
    IN  /\ req[h].pc = "hit"
        /\ drawn' = j
        /\ \/ row' = stored /\ req' = [req EXCEPT ![h].pc = "hitdone", ![h].job = j] /\ NoFault
           \/ Fault("db_insert") /\ row' \in {row, stored} /\ Refuse(h)
        /\ UNCHANGED <<rate, cache, inflight, driven, told, result>>

HitUpdateLeavesRow(h) ==
    /\ req[h].pc = "hitdone"
    /\ Answer(h, "cached", req[h].job)
    /\ NoFault
    /\ UNCHANGED <<rate, cache, inflight, row, driven, drawn, result>>

\* ... and updates it with the cached result, whose error is ignored.
HitUpdate(h) ==
    LET j == req[h].job IN
    /\ req[h].pc = "hitdone"
    /\ \/ row' = [row EXCEPT ![j].state = "done"] /\ NoFault
       \/ Fault("db_update") /\ UNCHANGED row
    /\ Answer(h, "cached", j)
    /\ UNCHANGED <<rate, cache, inflight, driven, drawn, result>>

Active == {j \in Jobs : row[j].state = "pending"}

CountActiveAllowsOneMore(h) ==
    /\ req[h].pc = "count"
    /\ \/ Cardinality(Active) > SubmitMaxInflight /\ Refuse(h) /\ NoFault
       \/ Cardinality(Active) <= SubmitMaxInflight /\ Goto(h, "setnx") /\ NoFault
       \/ Fault("db_count") /\ Goto(h, "setnx")
    /\ UNCHANGED <<rate, cache, inflight, row, driven, drawn, told, result>>

\* The cap; it is skipped when the count fails.
CountActive(h) ==
    /\ req[h].pc = "count"
    /\ \/ Cardinality(Active) >= SubmitMaxInflight /\ Refuse(h) /\ NoFault
       \/ Cardinality(Active) < SubmitMaxInflight /\ Goto(h, "setnx") /\ NoFault
       \/ Fault("db_count") /\ Goto(h, "setnx")
    /\ UNCHANGED <<rate, cache, inflight, row, driven, drawn, told, result>>

DedupeReusesId(h) ==
    LET j == drawn + 1
        k == req[h].key
    IN  /\ req[h].pc = "setnx"
        /\ inflight' = [inflight EXCEPT ![k] = IF @ = 0 THEN j ELSE @]
        /\ req' = [req EXCEPT ![h].pc = IF inflight[k] = 0 THEN "persist" ELSE "get", ![h].job = j]
        /\ NoFault
        /\ UNCHANGED <<rate, cache, row, driven, drawn, told, result>>

DedupeGoesOn(h) ==
    LET j == drawn + 1
        k == req[h].key
    IN  /\ req[h].pc = "setnx"
        /\ drawn' = j
        /\ inflight' = [inflight EXCEPT ![k] = IF @ = 0 THEN j ELSE @]
        /\ req' = [req EXCEPT ![h].pc = "persist", ![h].job = j]
        /\ NoFault
        /\ UNCHANGED <<rate, cache, row, driven, told, result>>

\* SETNX of the dedupe key to a new job id.  Without an answer the request
\* goes on as if it had the key.
Dedupe(h) ==
    LET j == drawn + 1
        k == req[h].key
        set == [inflight EXCEPT ![k] = IF @ = 0 THEN j ELSE @]
        goto(pc) == req' = [req EXCEPT ![h].pc = pc, ![h].job = j]
    IN  /\ req[h].pc = "setnx"
        /\ drawn' = j
        /\ \/ inflight' = set /\ goto(IF inflight[k] = 0 THEN "persist" ELSE "get") /\ NoFault
           \/ Fault("redis_setnx") /\ inflight' \in {inflight, set} /\ goto("persist")
        /\ UNCHANGED <<rate, cache, row, driven, told, result>>

ReadInflightAnswersOwn(h) ==
    LET j == inflight[req[h].key] IN
    /\ req[h].pc = "get"
    /\ IF j # 0 THEN Answer(h, "dedupe", req[h].job) ELSE Goto(h, "persist") /\ UNCHANGED told
    /\ NoFault
    /\ UNCHANGED <<rate, cache, inflight, row, driven, drawn, result>>

\* GET of the key that was there; if it is gone by now, or GET fails, the
\* request goes on without a key of its own.
ReadInflight(h) ==
    LET j == inflight[req[h].key] IN
    /\ req[h].pc = "get"
    /\ \/ j # 0 /\ Answer(h, "dedupe", j) /\ NoFault
       \/ j = 0 /\ Goto(h, "persist") /\ NoFault /\ UNCHANGED told
       \/ Fault("redis_get") /\ Goto(h, "persist") /\ UNCHANGED told
    /\ UNCHANGED <<rate, cache, inflight, row, driven, drawn, result>>

---------------------------------------------------------------------------
(* persistSubmissionWithDeliveryMode.  A failed transaction may have been  *)
(* committed.                                                              *)

PersistIgnoresError(h) ==
    LET j == req[h].job
        stored == [row EXCEPT ![j] = Pending(h)]
    IN  /\ OutboxEnabled
        /\ req[h].pc = "persist"
        /\ \/ row' = stored /\ driven' = driven \cup {j} /\ NoFault
           \/ Fault("db_insert") /\ UNCHANGED <<row, driven>>
        /\ Answer(h, "own", j)
        /\ UNCHANGED <<rate, cache, inflight, drawn, result>>

\* CreateSubmissionAndOutbox: row and event in one transaction.
Persist(h) ==
    LET j == req[h].job
        stored == [row EXCEPT ![j] = Pending(h)]
    IN  /\ OutboxEnabled
        /\ req[h].pc = "persist"
        /\ \/ row' = stored /\ driven' = driven \cup {j} /\ Answer(h, "own", j) /\ NoFault
           \/ /\ Fault("db_insert")
              /\ \/ UNCHANGED <<row, driven>>
                 \/ row' = stored /\ driven' = driven \cup {j}
              /\ Goto(h, "undo")
              /\ UNCHANGED told
        /\ UNCHANGED <<rate, cache, inflight, drawn, result>>

\* The direct mode: CreateSubmission, SET of the payload, XADD.
PersistDirect(h) ==
    LET stored == [row EXCEPT ![req[h].job] = Pending(h)]
    IN  /\ ~OutboxEnabled
        /\ req[h].pc = "persist"
        /\ \/ row' = stored /\ Goto(h, "payload") /\ NoFault
           \/ Fault("db_insert") /\ row' \in {row, stored} /\ Goto(h, "undo")
        /\ UNCHANGED <<rate, cache, inflight, driven, drawn, told, result>>

SetPayload(h) ==
    /\ req[h].pc = "payload"
    /\ \/ Goto(h, "xadd") /\ NoFault
       \/ Fault("redis_enqueue") /\ Goto(h, "undo")
    /\ UNCHANGED <<rate, cache, inflight, row, driven, drawn, told, result>>

\* An XADD that fails may have added the entry.  (Its payload is deleted, so
\* the worker ends that job as poisoned.)
EnqueueEntry(h) ==
    LET j == req[h].job IN
    /\ req[h].pc = "xadd"
    /\ \/ driven' = driven \cup {j} /\ Answer(h, "own", j) /\ NoFault
       \/ /\ Fault("redis_enqueue")
          /\ driven' \in {driven, driven \cup {j}}
          /\ Goto(h, "undo")
          /\ UNCHANGED told
    /\ UNCHANGED <<rate, cache, inflight, row, drawn, result>>

\* The error path deletes the dedupe key, whoever has set it.
Undo(h) ==
    /\ req[h].pc = "undo"
    /\ \/ inflight' = [inflight EXCEPT ![req[h].key] = 0] /\ NoFault
       \/ Fault("redis_del") /\ UNCHANGED inflight
    /\ Refuse(h)
    /\ UNCHANGED <<rate, cache, row, driven, drawn, told, result>>

---------------------------------------------------------------------------
(* The environment. *)

\* The API process dies, or the client is gone and the request's context
\* with it: nothing of the handler runs any more.  "crash_storing" is the case
\* of a request that has, or takes itself for, the holder of the dedupe key.
Abandon(h) ==
    /\ req[h].pc # "idle"
    /\ Fault(IF req[h].pc \in {"persist", "payload", "xadd", "undo"} THEN "crash_storing" ELSE "crash")
    /\ Refuse(h)
    /\ UNCHANGED <<rate, cache, inflight, row, driven, drawn, told, result>>

\* The worker has executed the job and reports its result ...
JobReports(j) ==
    /\ j \in driven \ result
    /\ row[j].state = "pending"
    /\ result' = result \cup {j}
    /\ NoFault
    /\ UNCHANGED <<req, rate, cache, inflight, row, driven, drawn, told>>

\* ... and finalizes the row, if it was not ended without a result.
JobEnds(j) ==
    /\ j \in driven
    /\ row[j].state = "pending"
    /\ row' = [row EXCEPT ![j].state = "done"]
    /\ NoFault
    /\ UNCHANGED <<req, rate, cache, inflight, driven, drawn, told, result>>

\* RESULT_TTL_SEC; the row is final by then unless the worker died or the
\* database was away for so long.
ResultExpires(j) ==
    /\ j \in result
    /\ IF j \in Active THEN Fault("slow_job") ELSE NoFault
    /\ result' = result \ {j}
    /\ UNCHANGED <<req, rate, cache, inflight, row, driven, drawn, told>>

\* SUBMIT_INFLIGHT_TTL_SEC.  A job that is still active then was slow, and
\* that the key expires just between SETNX and GET is a rare coincidence.
InflightExpires(k) ==
    /\ inflight[k] # 0
    /\ IF inflight[k] \in Active \/ \E h \in Handlers : req[h].job = inflight[k]
       THEN Fault("slow_job")
       ELSE IF \E h \in Handlers : req[h].pc = "get" /\ req[h].key = k
       THEN Fault("expiry_race")
       ELSE NoFault
    /\ inflight' = [inflight EXCEPT ![k] = 0]
    /\ UNCHANGED <<req, rate, cache, row, driven, drawn, told, result>>

WindowEnds(k) ==
    /\ rate[k].ttl
    /\ rate' = [rate EXCEPT ![k] = [n |-> 0, ttl |-> FALSE]]
    /\ NoFault
    /\ UNCHANGED <<req, cache, inflight, row, driven, drawn, told, result>>

\* Nothing in this repository writes a result under a cache key.
CacheFilled(k) ==
    /\ CacheWriter
    /\ \E j \in Jobs : row[j].state = "done" /\ row[j].key = k
    /\ cache' = cache \cup {k}
    /\ NoFault
    /\ UNCHANGED <<req, rate, inflight, row, driven, drawn, told, result>>

---------------------------------------------------------------------------
HandleSubmit(h) ==
    \/ CheckRateLimit(h) \/ Check(h) \/ HitInsert(h) \/ HitUpdate(h) \/ CountActive(h)
    \/ Dedupe(h) \/ ReadInflight(h) \/ Persist(h)
    \/ PersistDirect(h) \/ SetPayload(h) \/ EnqueueEntry(h) \/ Undo(h)

Next ==
    /\ \/ \E h \in Handlers :
             \/ HandleSubmit(h) \/ Abandon(h)
             \/ \E u \in Users, a \in Addrs, k \in Keys : Arrive(h, u, a, k)
       \/ \E j \in Jobs : JobReports(j) \/ JobEnds(j) \/ ResultExpires(j)
       \/ \E k \in Keys : InflightExpires(k) \/ CacheFilled(k)
       \/ \E k \in Addrs \cup Users : WindowEnds(k)
    /\ UNCHANGED deployment

Spec == Init /\ [][Next]_vars

\* Requests run to their end, and keys with a TTL expire.  Nothing is assumed
\* of the pipeline.
FairSpec ==
    /\ Spec
    /\ \A h \in Handlers : WF_vars(HandleSubmit(h) /\ NoFault /\ UNCHANGED deployment)
    /\ \A k \in Addrs \cup Users : WF_vars(WindowEnds(k) /\ UNCHANGED deployment)

---------------------------------------------------------------------------
\* HandleStatus: what GET /status/<j> answers to u.  The row decides who may
\* ask, the result key comes before what the row says.
HandleStatus(j, u) ==
    CASE row[j].state = "absent" -> "not_found"
      [] row[j].state # "absent" /\ row[j].user # u -> "forbidden"
      [] row[j].user = u /\ j \in result -> "done"
      [] OTHER -> row[j].state

(* A client that was given a new job id, or a cached result, is the owner  *)
(* of a stored submission, and a new job has something that drives it to   *)
(* its end; in both delivery modes and whatever fails.                     *)
AcceptedIsStored ==
    \A t \in told :
        /\ t.how # "dedupe" => HandleStatus(t.job, t.user) \in {"pending", "done"}
        /\ t.how = "own" => t.job \in driven

(* A job id given to a client, also one of another request with the same   *)
(* code, exists or is about to be stored by the request it belongs to.     *)
ToldJobExists ==
    \A t \in told : HandleStatus(t.job, t.user) = "not_found" =>
        \E h \in Handlers : req[h].job = t.job /\ req[h].pc = "persist"

(* A client can ask for the status of the job it was given.                *)
ToldJobIsReadable ==
    \A t \in told : HandleStatus(t.job, t.user) # "forbidden"

(* A client that has read a finished job never reads it as unfinished      *)
(* again.                                                                  *)
DoneStaysDone ==
    [][\A j \in Jobs, u \in Users : HandleStatus(j, u) = "done" => HandleStatus(j, u)' = "done"]_vars

(* The same submission is never judged twice at a time: while a job of a   *)
(* key is active, further requests get its id.                             *)
NoDuplicateWork ==
    \A i, j \in Active \cap driven : row[i].key = row[j].key => i = j

(* Active submissions exceed the cap at most by the requests that were     *)
(* past the count at the same time.  The rows of cache hits, which are not *)
(* held against the cap, are left out.                                     *)
CapOvershoot == CacheWriter \/ Cardinality(Active) < SubmitMaxInflight + Cardinality(Handlers)

\* Rows that count against the cap for ever: nothing drives them, and no
\* request is about to.
StuckRows == {j \in Active \ driven : \A h \in Handlers : req[h].job = j => req[h].pc = "undo"}

\* The request of h is between INCR and EXPIRE of the counter k.
WillExpire(h, k) ==
    \/ req[h].pc = "ipexp" /\ req[h].addr = k
    \/ req[h].pc = "userexp" /\ req[h].user = k

\* Counters that never return to zero: they have no TTL and will not get one.
StuckCounters ==
    {k \in Addrs \cup Users : rate[k].n > 0 /\ ~rate[k].ttl /\ \A h \in Handlers : ~WillExpire(h, k)}

\* How much has failed so far.
Failures == MaxFaults - budget

(* A failure leaves at most one thing behind that no later step clears, a  *)
(* row that counts against the cap or a counter without a TTL, and a       *)
(* request that is answered, refused or turned away without a failure      *)
(* leaves nothing, in both delivery modes and after a cache hit.           *)
OneLeftoverPerFailure == Cardinality(StuckRows) + Cardinality(StuckCounters) <= Failures

(* The pipeline ends what it is given; JobPipeline says when it does.      *)
PipelineEnds == \A j \in Jobs : j \in driven ~> row[j].state # "pending"

AtCap == Cardinality(Active) >= SubmitMaxInflight

(* A system at its cap accepts submissions again when its jobs end.        *)
CapRecovers == PipelineEnds => (AtCap ~> ~AtCap)

(* Every refusal for a limit is temporary or comes of a failure: the cap   *)
(* frees up again, if the pipeline ends what it is given, unless rows that *)
(* as many failures have left behind make it up alone; and a client over   *)
(* its rate limit is let in again when the window ends, unless a failure   *)
(* has left its counter without a TTL.                                     *)
LimitsAreTemporary ==
    /\ PipelineEnds =>
         (AtCap ~> \/ ~AtCap
                   \/ Cardinality(StuckRows) >= SubmitMaxInflight /\ Failures >= SubmitMaxInflight)
    /\ \A k \in Addrs \cup Users :
         rate[k].n > Limit(k) ~> rate[k].n = 0 \/ (k \in StuckCounters /\ Failures > 0)
=============================================================================
