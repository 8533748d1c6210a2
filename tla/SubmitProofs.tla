---------------------------- MODULE SubmitProofs ----------------------------
(***************************************************************************)
(* Why an accepted submission is stored and driven, by how much the cap on *)
(* active submissions may be exceeded, when dedupe keys lead to their job, *)
(* and how much failures leave behind.  Requests draw their own job        *)
(* ids, so that nobody but the request that was given an id writes its     *)
(* row until a client is told; from then on it only goes from pending to   *)
(* done.                                                                   *)
(***************************************************************************)
EXTENDS Submit, FiniteSetTheorems, TLAPS

\* The stages before a job id is drawn, and those with one.
Early == {"ip", "ipexp", "user", "userexp", "check", "hit", "count", "setnx"}

Late == {"hitdone", "get", "persist", "payload", "xadd", "undo"}

Request ==
    [pc : {"idle", "ip", "ipexp", "user", "userexp", "check", "hit", "hitdone", "count",
           "setnx", "get", "persist", "payload", "xadd", "undo"},
     user : Users \cup {None}, addr : Addrs \cup {None}, key : Keys \cup {None},
     job : 0..MaxJobs]

Row == [state : {"absent", "pending", "done"}, user : Users \cup {None}, key : Keys \cup {None}]

Counter(k) == [n : 0..(Limit(k) + 1), ttl : BOOLEAN]

RateTyped ==
    /\ rate = [k \in Addrs \cup Users |-> rate[k]]
    /\ \A k \in Addrs \cup Users : rate[k] \in Counter(k)

Typed ==
    /\ deployment \in Deployments
    /\ req \in [Handlers -> Request]
    /\ RateTyped
    /\ cache \subseteq Keys
    /\ inflight \in [Keys -> 0..MaxJobs]
    /\ row \in [Jobs -> Row]
    /\ driven \subseteq Jobs
    /\ result \subseteq Jobs
    /\ drawn \in 0..MaxJobs
    /\ told \subseteq [how : {"own", "cached", "dedupe"}, user : Users, job : Jobs]
    /\ budget \in Nat

\* The row of job j belongs to user u.
Stored(j, u) == row[j].state # "absent" /\ row[j].user = u

\* A request knows its client and its key, has a job id of its own as soon as
\* it is late, and finds the row it has inserted.
HandlerOK(h) ==
    /\ req[h].pc # "idle" => req[h].user \in Users /\ req[h].addr \in Addrs /\ req[h].key \in Keys
    /\ req[h].job # 0 <=> req[h].pc \in Late
    /\ req[h].job <= drawn
    /\ req[h].pc \in {"hitdone", "payload", "xadd"} => Stored(req[h].job, req[h].user)

HandlersInv ==
    /\ \A h \in Handlers : HandlerOK(h)
    /\ \A g, h \in Handlers : g # h /\ req[g].job # 0 => req[g].job # req[h].job

\* What a client was told, other than somebody else's job, nobody touches.
ToldOK(t) ==
    t.how # "dedupe" =>
        /\ Stored(t.job, t.user)
        /\ t.job <= drawn
        /\ \A h \in Handlers : req[h].job # t.job
        /\ t.how = "own" => t.job \in driven

ToldInv == \A t \in told : ToldOK(t)

\* Ids that were not drawn drive nothing.
DrawnInv == \A j \in driven : j <= drawn

\* Requests that will still draw an id.
NotDrawn == {h \in Handlers : req[h].pc \in Early}

\* Every one of them finds one.
IdsInv == drawn + Cardinality(NotDrawn) <= MaxJobs

\* Without a writer of the cache there are no hits.
CacheInv == ~CacheWriter => cache = {} /\ \A h \in Handlers : req[h].pc \notin {"hit", "hitdone"}

SubmitInv == Typed /\ HandlersInv /\ ToldInv /\ DrawnInv /\ IdsInv /\ CacheInv

\* Requests that are past the count and have not stored their row.
Past == {h \in Handlers : req[h].pc \in {"setnx", "get", "persist"}}

CapInv == ~CacheWriter => Cardinality(Active) + Cardinality(Past) < SubmitMaxInflight + Cardinality(Handlers)

\* Job j is stored, or its request is about to.
Exists(j) == row[j].state # "absent" \/ \E h \in Handlers : req[h].job = j /\ req[h].pc = "persist"

\* The dedupe key is held by the request that stores the job; a request that
\* was refused the key finds it.
KeyOK(h) ==
    /\ req[h].pc \in {"persist", "payload", "xadd"} => inflight[req[h].key] = req[h].job
    /\ req[h].pc \in {"payload", "xadd"} => row[req[h].job].key = req[h].key
    /\ req[h].pc = "get" => inflight[req[h].key] # 0
    /\ req[h].pc # "undo"

\* The job holds it as long as it is active, ...
ActiveHolds == \A j \in Active \cap driven : row[j].key \in Keys /\ inflight[row[j].key] = j

\* ... and no job is named, by a key or to a client, that does not exist.
NamedExist ==
    /\ \A k \in Keys : inflight[k] # 0 => Exists(inflight[k])
    /\ \A t \in told : Exists(t.job)

KeyInv == (\A h \in Handlers : KeyOK(h)) /\ ActiveHolds /\ NamedExist

---------------------------------------------------------------------------
\* The effects of a step on the requests.
Moves(h, pc, j) ==
    /\ req' \in [Handlers -> Request]
    /\ req'[h].pc = pc /\ req'[h].job = j
    /\ req'[h].user = req[h].user /\ req'[h].addr = req[h].addr /\ req'[h].key = req[h].key
    /\ \A g \in Handlers \ {h} : req'[g] = req[g]

Leaves(h) ==
    /\ req' \in [Handlers -> Request]
    /\ req'[h].pc = "idle" /\ req'[h].job = 0
    /\ \A g \in Handlers \ {h} : req'[g] = req[g]

Comes(h, u, a, k) ==
    /\ req' \in [Handlers -> Request]
    /\ req'[h].pc = "ip" /\ req'[h].job = 0
    /\ req'[h].user = u /\ req'[h].addr = a /\ req'[h].key = k
    /\ \A g \in Handlers \ {h} : req'[g] = req[g]

LEMMA NoRequestType == NoRequest \in Request
BY SubmitAssumption DEF NoRequest, Request

LEMMA LeavesBy ==
    ASSUME req \in [Handlers -> Request], NEW h \in Handlers, Refuse(h)
    PROVE  Leaves(h)
BY NoRequestType DEF Refuse, Leaves, NoRequest

LEMMA AnswersBy ==
    ASSUME req \in [Handlers -> Request], NEW h \in Handlers, NEW how, NEW j, Answer(h, how, j)
    PROVE  Leaves(h) /\ told' = told \cup {[how |-> how, user |-> req[h].user, job |-> j]}
BY NoRequestType DEF Answer, Leaves, NoRequest

LEMMA GotoBy ==
    ASSUME req \in [Handlers -> Request], NEW h \in Handlers, NEW pc \in Early \cup Late, Goto(h, pc)
    PROVE  Moves(h, pc, req[h].job)
BY DEF Goto, Moves, Request, Early, Late

LEMMA DrawBy ==
    ASSUME req \in [Handlers -> Request], NEW h \in Handlers, NEW pc \in Early \cup Late,
           NEW j \in 0..MaxJobs, req' = [req EXCEPT ![h].pc = pc, ![h].job = j]
    PROVE  Moves(h, pc, j)
BY ZenonT(60) DEF Moves, Request, Early, Late

LEMMA ArriveBy ==
    ASSUME req \in [Handlers -> Request], NEW h \in Handlers,
           NEW u \in Users, NEW a \in Addrs, NEW k \in Keys, Arrive(h, u, a, k)
    PROVE  Comes(h, u, a, k)
BY SubmitAssumption DEF Arrive, Comes, Request

LEMMA BudgetAfter ==
    ASSUME budget \in Nat
    PROVE  (NoFault => budget' \in Nat) /\ \A kind : Fault(kind) => budget' \in Nat
BY DEF NoFault, Fault

(* A counter never exceeds one more than its limit. *)
LEMMA MinOfTwo ==
    ASSUME NEW a \in Nat, NEW b \in Nat
    PROVE  Min({a, b}) = IF a <= b THEN a ELSE b
<1> DEFINE m == IF a <= b THEN a ELSE b
<1>1. m \in {a, b} /\ \A y \in {a, b} : m <= y
  OBVIOUS
<1>2. ASSUME NEW x \in {a, b}, \A y \in {a, b} : x <= y  PROVE x = m
  BY <1>2
<1> QED  BY <1>1, <1>2 DEF Min

LEMMA ZeroIsIn == 0 \in 0..MaxJobs
BY SubmitAssumption

LEMMA RateAfter ==
    ASSUME RateTyped, NEW k \in Addrs \cup Users
    PROVE  /\ rate' = rate => RateTyped'
           /\ rate' = Count(k) => RateTyped'
           /\ rate' = [rate EXCEPT ![k].ttl = TRUE] => RateTyped'
           /\ rate' = [rate EXCEPT ![k] = [n |-> 0, ttl |-> FALSE]] => RateTyped'
<1>1. Limit(k) \in Nat
  BY SubmitAssumption DEF Limit
<1>2. rate[k].n \in Nat /\ rate[k].ttl \in BOOLEAN
  BY <1>1 DEF RateTyped, Counter
<1>3. Min({rate[k].n + 1, Limit(k) + 1}) \in 0..(Limit(k) + 1)
  BY <1>1, <1>2, MinOfTwo
<1>4. rate' = rate => RateTyped'
  BY DEF RateTyped, Counter, Limit
<1>5. ASSUME rate' = Count(k)  PROVE RateTyped'
  <2>1. rate' = [g \in Addrs \cup Users |-> rate'[g]]
    BY <1>5 DEF RateTyped, Count
  <2>2. rate'[k] = [rate[k] EXCEPT !.n = Min({rate[k].n + 1, Limit(k) + 1})]
    BY <1>5 DEF RateTyped, Count
  <2>3. rate'[k] \in Counter(k)
    BY <1>3, <2>2 DEF RateTyped, Counter
  <2>4. \A g \in (Addrs \cup Users) \ {k} : rate'[g] = rate[g]
    BY <1>5 DEF RateTyped, Count
  <2> QED  BY <2>1, <2>3, <2>4 DEF RateTyped, Counter, Limit
<1>6. ASSUME rate' = [rate EXCEPT ![k].ttl = TRUE]  PROVE RateTyped'
  <2>1. rate' = [g \in Addrs \cup Users |-> rate'[g]]
    BY <1>6 DEF RateTyped
  <2>2. rate'[k] = [rate[k] EXCEPT !.ttl = TRUE]
    BY <1>6 DEF RateTyped
  <2>3. rate'[k] \in Counter(k)
    BY <2>2 DEF RateTyped, Counter
  <2>4. \A g \in (Addrs \cup Users) \ {k} : rate'[g] = rate[g]
    BY <1>6 DEF RateTyped
  <2> QED  BY <2>1, <2>3, <2>4 DEF RateTyped, Counter, Limit
<1>7. ASSUME rate' = [rate EXCEPT ![k] = [n |-> 0, ttl |-> FALSE]]  PROVE RateTyped'
  <2>1. rate' = [g \in Addrs \cup Users |-> rate'[g]]
    BY <1>7 DEF RateTyped
  <2>2. rate'[k] = [n |-> 0, ttl |-> FALSE]
    BY <1>7 DEF RateTyped
  <2>3. rate'[k] \in Counter(k)
    BY <1>1, <2>2 DEF Counter
  <2>4. \A g \in (Addrs \cup Users) \ {k} : rate'[g] = rate[g]
    BY <1>7 DEF RateTyped
  <2> QED  BY <2>1, <2>3, <2>4 DEF RateTyped, Counter, Limit
<1> QED  BY <1>4, <1>5, <1>6, <1>7

---------------------------------------------------------------------------
\* The effects on a row and on a dedupe key.
RowStored(h, j) ==
    /\ row' \in [Jobs -> Row]
    /\ row'[j].state = "pending" /\ row'[j].user = req[h].user /\ row'[j].key = req[h].key
    /\ \A n \in Jobs \ {j} : row'[n] = row[n]

RowDone(j) ==
    /\ row' \in [Jobs -> Row]
    /\ row'[j].state = "done" /\ row'[j].user = row[j].user /\ row'[j].key = row[j].key
    /\ \A n \in Jobs \ {j} : row'[n] = row[n]

KeySet(k, v) ==
    /\ inflight' \in [Keys -> 0..MaxJobs]
    /\ inflight'[k] = v
    /\ \A m \in Keys \ {k} : inflight'[m] = inflight[m]

LEMMA StoredBy ==
    ASSUME row \in [Jobs -> Row], NEW h \in Handlers, req[h] \in Request, NEW j \in Jobs,
           row' = [row EXCEPT ![j] = Pending(h)]
    PROVE  RowStored(h, j)
BY DEF RowStored, Pending, Row, Request

LEMMA DoneBy ==
    ASSUME row \in [Jobs -> Row], NEW j \in Jobs, row' = [row EXCEPT ![j].state = "done"]
    PROVE  RowDone(j)
BY DEF RowDone, Row

LEMMA SetBy ==
    ASSUME inflight \in [Keys -> 0..MaxJobs], NEW k \in Keys, NEW v \in 0..MaxJobs,
           inflight' = [inflight EXCEPT ![k] = v]
    PROVE  KeySet(k, v)
BY DEF KeySet

---------------------------------------------------------------------------
(* The shapes of a step. *)

\* Only counters, results or the cache change.
Waits == UNCHANGED <<req, row, driven, drawn, told, inflight>>

\* Nobody needs what is under key k.
Unneeded(k) ==
    /\ inflight[k] \notin Active
    /\ \A h \in Handlers : req[h].job # inflight[k] /\ ~(req[h].pc = "get" /\ req[h].key = k)

Expires(k) ==
    /\ KeySet(k, 0)
    /\ FaultKinds \cap {"slow_job", "expiry_race"} = {} => Unneeded(k)
    /\ UNCHANGED <<req, row, driven, drawn, told>>

Ends(j) ==
    /\ RowDone(j) /\ row[j].state = "pending"
    /\ UNCHANGED <<req, driven, drawn, told, inflight>>

Arrives(h, u, a, k) ==
    /\ Comes(h, u, a, k) /\ req[h].pc = "idle"
    /\ drawn + Cardinality({g \in Handlers : req[g].pc # "idle"}) < MaxJobs
    /\ UNCHANGED <<row, driven, drawn, told, inflight>>

Passes(h, pc) ==
    /\ Moves(h, pc, req[h].job)
    /\ \/ req[h].pc \in Early \ {"hit", "setnx"} /\ pc \in Early \ {"hit", "setnx"}
       \/ req[h].pc = "check" /\ pc = "hit" /\ req[h].key \in cache
       \/ /\ req[h].pc = "count" /\ pc = "setnx"
          /\ Cardinality(Active) < SubmitMaxInflight \/ "db_count" \in FaultKinds
       \/ /\ req[h].pc = "get" /\ pc = "persist"
          /\ inflight[req[h].key] = 0 \/ "redis_get" \in FaultKinds
       \/ req[h].pc = "payload" /\ pc = "xadd"
       \/ req[h].pc = "payload" /\ pc = "undo" /\ "redis_enqueue" \in FaultKinds
    /\ UNCHANGED <<row, driven, drawn, told, inflight>>

Quits(h) ==
    /\ Leaves(h)
    /\ \/ req[h].pc \in Early \cup {"hitdone", "get"} /\ inflight' = inflight
       \/ "crash_storing" \in FaultKinds /\ inflight' = inflight
       \/ req[h].pc = "undo" /\ (inflight' = inflight \/ KeySet(req[h].key, 0))
    /\ UNCHANGED <<row, driven, drawn, told>>

Hits(h, j) ==
    /\ req[h].pc = "hit" /\ j = drawn + 1 /\ j \in Jobs /\ drawn' = j
    /\ \/ RowStored(h, j) /\ Moves(h, "hitdone", j)
       \/ (RowStored(h, j) \/ row' = row) /\ Leaves(h)
    /\ UNCHANGED <<driven, told, inflight>>

HitEnds(h, j) ==
    /\ req[h].pc = "hitdone" /\ j = req[h].job /\ j \in Jobs
    /\ RowDone(j) \/ row' = row
    /\ Leaves(h)
    /\ told' = told \cup {[how |-> "cached", user |-> req[h].user, job |-> j]}
    /\ UNCHANGED <<driven, drawn, inflight>>

Dedupes(h, j) ==
    /\ req[h].pc = "setnx" /\ j = drawn + 1 /\ j \in Jobs /\ drawn' = j
    /\ \/ inflight[req[h].key] = 0 /\ KeySet(req[h].key, j) /\ Moves(h, "persist", j)
       \/ inflight[req[h].key] # 0 /\ inflight' = inflight /\ Moves(h, "get", j)
       \/ /\ "redis_setnx" \in FaultKinds /\ Moves(h, "persist", j)
          /\ inflight' = inflight \/ KeySet(req[h].key, j)
    /\ UNCHANGED <<row, driven, told>>

Refers(h, j) ==
    /\ req[h].pc = "get" /\ j = inflight[req[h].key] /\ j \in Jobs
    /\ Leaves(h)
    /\ told' = told \cup {[how |-> "dedupe", user |-> req[h].user, job |-> j]}
    /\ UNCHANGED <<row, driven, drawn, inflight>>

Stores(h, j) ==
    /\ req[h].pc = "persist" /\ j = req[h].job /\ j \in Jobs
    /\ \/ /\ RowStored(h, j) /\ driven' = driven \cup {j} /\ Leaves(h)
          /\ told' = told \cup {[how |-> "own", user |-> req[h].user, job |-> j]}
       \/ /\ "db_insert" \in FaultKinds /\ Moves(h, "undo", j) /\ told' = told
          /\ \/ row' = row /\ driven' = driven
             \/ RowStored(h, j) /\ driven' = driven \cup {j}
             \/ ~OutboxEnabled /\ RowStored(h, j) /\ driven' = driven
       \/ ~OutboxEnabled /\ RowStored(h, j) /\ Moves(h, "payload", j) /\ driven' = driven /\ told' = told
    /\ UNCHANGED <<drawn, inflight>>

Enqueues(h, j) ==
    /\ req[h].pc = "xadd" /\ j = req[h].job /\ j \in Jobs
    /\ \/ /\ driven' = driven \cup {j} /\ Leaves(h)
          /\ told' = told \cup {[how |-> "own", user |-> req[h].user, job |-> j]}
       \/ /\ "redis_enqueue" \in FaultKinds /\ Moves(h, "undo", j) /\ told' = told
          /\ driven' \in {driven, driven \cup {j}}
    /\ UNCHANGED <<row, drawn, inflight>>

Works(h) ==
    \/ \E pc \in Early \cup Late : Passes(h, pc)
    \/ Quits(h)
    \/ \E j : Hits(h, j) \/ HitEnds(h, j) \/ Dedupes(h, j) \/ Refers(h, j) \/ Stores(h, j) \/ Enqueues(h, j)

\* What a step does beside its shape.
Background ==
    /\ deployment' = deployment
    /\ CacheWriter \/ cache' = cache
    /\ (RateTyped /\ cache \subseteq Keys /\ result \subseteq Jobs /\ budget \in Nat)'

---------------------------------------------------------------------------
(* Every step has a shape. *)

LEMMA NotDrawnFinite == IsFiniteSet(NotDrawn) /\ Cardinality(NotDrawn) \in Nat
BY SubmitAssumption, FS_Subset, FS_CardinalityType DEF NotDrawn

LEMMA HandlerFacts ==
    ASSUME SubmitInv, NEW h \in Handlers
    PROVE  /\ req \in [Handlers -> Request] /\ req[h] \in Request
           /\ row \in [Jobs -> Row] /\ inflight \in [Keys -> 0..MaxJobs] /\ drawn \in Nat
           /\ req[h].pc # "idle" => req[h].user \in Users /\ req[h].addr \in Addrs /\ req[h].key \in Keys
           /\ req[h].pc \in Late => req[h].job \in Jobs
           /\ req[h].pc \in Early => drawn + 1 \in Jobs /\ drawn + 1 \in 0..MaxJobs /\ req[h].job = 0
<1>1. /\ req \in [Handlers -> Request] /\ req[h] \in Request
      /\ row \in [Jobs -> Row] /\ inflight \in [Keys -> 0..MaxJobs] /\ drawn \in Nat
      /\ req[h].job \in 0..MaxJobs
  BY SubmitAssumption DEF SubmitInv, Typed, Request
<1>2. HandlerOK(h)
  BY DEF SubmitInv, HandlersInv
<1>3. req[h].pc \in Late => req[h].job \in Jobs
  BY <1>1, <1>2, SubmitAssumption DEF HandlerOK, Jobs
<1>4. ASSUME req[h].pc \in Early  PROVE drawn + 1 \in Jobs /\ drawn + 1 \in 0..MaxJobs /\ req[h].job = 0
  <2>1. NotDrawn # {}
    BY <1>4 DEF NotDrawn
  <2>2. Cardinality(NotDrawn) # 0
    BY <2>1, NotDrawnFinite, FS_EmptySet
  <2>3. drawn + 1 \in Jobs /\ drawn + 1 \in 0..MaxJobs
    BY <1>1, <2>2, NotDrawnFinite, SubmitAssumption DEF SubmitInv, IdsInv, Jobs
  <2>4. req[h].job = 0
    BY <1>2, <1>4 DEF HandlerOK, Early, Late
  <2> QED  BY <2>3, <2>4
<1> QED  BY <1>1, <1>2, <1>3, <1>4 DEF HandlerOK

LEMMA TypedFacts ==
    ASSUME SubmitInv
    PROVE  /\ RateTyped /\ budget \in Nat /\ cache \subseteq Keys /\ result \subseteq Jobs
           /\ rate' = rate => RateTyped'
BY DEF SubmitInv, Typed, RateTyped, Counter, Limit

LEMMA IncrShape ==
    ASSUME SubmitInv, UNCHANGED deployment, NEW h \in Handlers, NEW k \in Addrs \cup Users,
           NEW expire \in Early \ {"hit", "setnx"}, NEW next \in Early \ {"hit", "setnx"},
           req[h].pc \in Early \ {"hit", "setnx"},
           Incr(h, k, expire, next) \/ Expire(h, k, next)
    PROVE  Works(h) /\ Background
<1>1. req' = [req EXCEPT ![h].pc = expire] \/ Goto(h, next) \/ Refuse(h)
  BY DEF Incr, Expire, Goto
<1>2. UNCHANGED <<cache, inflight, row, driven, drawn, told, result>>
  BY DEF Incr, Expire
<1>3. budget' \in Nat
  BY TypedFacts, BudgetAfter DEF Incr, Expire
<1>4. RateTyped'
  BY TypedFacts, RateAfter DEF Incr, Expire
<1>5. Background
  BY <1>2, <1>3, <1>4, TypedFacts DEF Background
<1>6. Works(h)
  <2>1. CASE Goto(h, expire)
    <3>1. Moves(h, expire, req[h].job)
      BY <2>1, HandlerFacts, GotoBy
    <3> QED  BY <3>1, <1>2 DEF Passes, Works
  <2>2. CASE Goto(h, next)
    <3>1. Moves(h, next, req[h].job)
      BY <2>2, HandlerFacts, GotoBy
    <3> QED  BY <3>1, <1>2 DEF Passes, Works
  <2>3. CASE Refuse(h)
    BY <2>3, <1>2, HandlerFacts, LeavesBy DEF Quits, Works
  <2> QED  BY <1>1, <2>1, <2>2, <2>3 DEF Goto
<1> QED  BY <1>5, <1>6

LEMMA CheckShape ==
    ASSUME SubmitInv, UNCHANGED deployment, NEW h \in Handlers,
           Check(h) \/ CountActive(h) \/ SetPayload(h)
    PROVE  Works(h) /\ Background
<1>1. UNCHANGED <<rate, cache, inflight, row, driven, drawn, told, result>> /\ budget' \in Nat
  BY TypedFacts, BudgetAfter DEF Check, CountActive, SetPayload
<1>2. Background
  BY <1>1, TypedFacts DEF Background
<1>3. ASSUME Refuse(h), req[h].pc \in Early  PROVE Works(h)
  BY <1>1, <1>3, HandlerFacts, LeavesBy DEF Quits, Works
<1>4. ASSUME NEW pc \in Early \cup Late, Goto(h, pc)
      PROVE  Moves(h, pc, req[h].job)
  BY <1>4, HandlerFacts, GotoBy
<1>5. ASSUME Check(h)  PROVE Works(h)
  <2>1. CASE Refuse(h)
    BY <1>3, <1>5, <2>1 DEF Check, Early
  <2>2. CASE Goto(h, "hit") /\ req[h].key \in cache
    <3>1. Passes(h, "hit")
      BY <1>1, <1>4, <1>5, <2>2 DEF Check, Passes, Early
    <3> QED  BY <3>1 DEF Works, Early
  <2>3. CASE Goto(h, "count")
    <3>1. Passes(h, "count")
      BY <1>1, <1>4, <1>5, <2>3 DEF Check, Passes, Early
    <3> QED  BY <3>1 DEF Works, Early
  <2> QED  BY <1>5, <2>1, <2>2, <2>3 DEF Check
<1>6. ASSUME CountActive(h)  PROVE Works(h)
  <2>1. CASE Refuse(h)
    BY <1>3, <1>6, <2>1 DEF CountActive, Early
  <2>2. CASE Goto(h, "setnx") /\ (Cardinality(Active) < SubmitMaxInflight \/ "db_count" \in FaultKinds)
    <3>1. Passes(h, "setnx")
      BY <1>1, <1>4, <1>6, <2>2 DEF CountActive, Passes, Early
    <3> QED  BY <3>1 DEF Works, Early
  <2> QED  BY <1>6, <2>1, <2>2 DEF CountActive, Fault
<1>7. ASSUME SetPayload(h)  PROVE Works(h)
  <2>1. CASE Goto(h, "xadd")
    <3>1. Passes(h, "xadd")
      BY <1>1, <1>4, <1>7, <2>1 DEF SetPayload, Passes, Late
    <3> QED  BY <3>1 DEF Works, Late
  <2>2. CASE Goto(h, "undo") /\ "redis_enqueue" \in FaultKinds
    <3>1. Passes(h, "undo")
      BY <1>1, <1>4, <1>7, <2>2 DEF SetPayload, Passes, Late
    <3> QED  BY <3>1 DEF Works, Late
  <2> QED  BY <1>7, <2>1, <2>2 DEF SetPayload, Fault
<1> QED  BY <1>2, <1>5, <1>6, <1>7

LEMMA HitShape ==
    ASSUME SubmitInv, UNCHANGED deployment, NEW h \in Handlers, HitInsert(h) \/ HitUpdate(h)
    PROVE  Works(h) /\ Background
<1>1. UNCHANGED <<rate, cache, inflight, driven, result>> /\ budget' \in Nat
  BY TypedFacts, BudgetAfter DEF HitInsert, HitUpdate
<1>2. Background
  BY <1>1, TypedFacts DEF Background
<1>3. ASSUME HitInsert(h)  PROVE Works(h)
  <2>1. PICK j : j = drawn + 1
    OBVIOUS
  <2>2. /\ req[h].pc = "hit" /\ j \in Jobs /\ j \in 0..MaxJobs /\ drawn' = j /\ told' = told
        /\ \/ /\ row' = [row EXCEPT ![j] = Pending(h)]
              /\ req' = [req EXCEPT ![h].pc = "hitdone", ![h].job = j]
           \/ row' \in {row, [row EXCEPT ![j] = Pending(h)]} /\ Refuse(h)
    BY <1>3, <2>1, HandlerFacts DEF HitInsert, Early
  <2>3. row' = [row EXCEPT ![j] = Pending(h)] => RowStored(h, j)
    BY <2>2, HandlerFacts, StoredBy
  <2>4. req' = [req EXCEPT ![h].pc = "hitdone", ![h].job = j] => Moves(h, "hitdone", j)
    BY <2>2, HandlerFacts, DrawBy DEF Late
  <2>5. Refuse(h) => Leaves(h)
    BY HandlerFacts, LeavesBy
  <2>6. Hits(h, j)
    BY <1>1, <2>1, <2>2, <2>3, <2>4, <2>5 DEF Hits
  <2> QED  BY <2>6 DEF Works
<1>4. ASSUME HitUpdate(h)  PROVE Works(h)
  <2>1. PICK j : j = req[h].job
    OBVIOUS
  <2>2. /\ req[h].pc = "hitdone" /\ j \in Jobs /\ drawn' = drawn
        /\ row' = [row EXCEPT ![j].state = "done"] \/ row' = row
        /\ Answer(h, "cached", j)
    BY <1>4, <2>1, HandlerFacts DEF HitUpdate, Late
  <2>3. row' = [row EXCEPT ![j].state = "done"] => RowDone(j)
    BY <2>2, HandlerFacts, DoneBy
  <2>4. Leaves(h) /\ told' = told \cup {[how |-> "cached", user |-> req[h].user, job |-> j]}
    BY <2>2, HandlerFacts, AnswersBy
  <2>5. HitEnds(h, j)
    BY <1>1, <2>1, <2>2, <2>3, <2>4 DEF HitEnds
  <2> QED  BY <2>5 DEF Works
<1> QED  BY <1>2, <1>3, <1>4

LEMMA DedupeShape ==
    ASSUME SubmitInv, UNCHANGED deployment, NEW h \in Handlers, Dedupe(h)
    PROVE  Works(h) /\ Background
<1>1. UNCHANGED <<rate, cache, row, driven, told, result>> /\ budget' \in Nat
  BY TypedFacts, BudgetAfter DEF Dedupe
<1>2. Background
  BY <1>1, TypedFacts DEF Background
<1>3. PICK j, k : j = drawn + 1 /\ k = req[h].key
  OBVIOUS
<1>4. req[h].pc = "setnx" /\ k \in Keys /\ j \in Jobs /\ j \in 0..MaxJobs /\ drawn' = j
  BY <1>3, HandlerFacts DEF Dedupe, Early
<1> DEFINE set == [inflight EXCEPT ![k] = IF inflight[k] = 0 THEN j ELSE inflight[k]]
           goto(pc) == req' = [req EXCEPT ![h].pc = pc, ![h].job = j]
<1>5. \/ inflight' = set /\ goto(IF inflight[k] = 0 THEN "persist" ELSE "get")
      \/ "redis_setnx" \in FaultKinds /\ inflight' \in {inflight, set} /\ goto("persist")
  BY <1>3 DEF Dedupe, Fault
<1>6. /\ inflight[k] = 0 /\ inflight' = set => KeySet(k, j)
      /\ inflight[k] # 0 /\ inflight' = set => inflight' = inflight
  BY <1>4, HandlerFacts, SetBy
<1>7. /\ goto("persist") => Moves(h, "persist", j)
      /\ goto("get") => Moves(h, "get", j)
  BY <1>4, HandlerFacts, DrawBy DEF Late
<1>8. Dedupes(h, j)
  <2>1. CASE inflight[k] = 0
    BY <1>1, <1>3, <1>4, <1>5, <1>6, <1>7, <2>1 DEF Dedupes
  <2>2. CASE inflight[k] # 0
    BY <1>1, <1>3, <1>4, <1>5, <1>6, <1>7, <2>2 DEF Dedupes
  <2> QED  BY <2>1, <2>2
<1> QED  BY <1>2, <1>8 DEF Works

LEMMA ReadShape ==
    ASSUME SubmitInv, UNCHANGED deployment, NEW h \in Handlers, ReadInflight(h)
    PROVE  Works(h) /\ Background
<1>1. UNCHANGED <<rate, cache, inflight, row, driven, drawn, result>> /\ budget' \in Nat
  BY TypedFacts, BudgetAfter DEF ReadInflight
<1>2. Background
  BY <1>1, TypedFacts DEF Background
<1>3. PICK j : j = inflight[req[h].key]
  OBVIOUS
<1>4. req[h].pc = "get" /\ j \in 0..MaxJobs /\ (j # 0 => j \in Jobs)
  BY <1>3, HandlerFacts, SubmitAssumption DEF ReadInflight, Late, Jobs
<1>5. \/ j # 0 /\ Answer(h, "dedupe", j)
      \/ (j = 0 \/ "redis_get" \in FaultKinds) /\ Goto(h, "persist") /\ told' = told
  BY <1>3 DEF ReadInflight, Fault
<1>6. CASE j # 0 /\ Answer(h, "dedupe", j)
  <2>1. Leaves(h) /\ told' = told \cup {[how |-> "dedupe", user |-> req[h].user, job |-> j]}
    BY <1>6, HandlerFacts, AnswersBy
  <2>2. Refers(h, j)
    BY <1>1, <1>3, <1>4, <1>6, <2>1 DEF Refers
  <2> QED  BY <1>2, <2>2 DEF Works
<1>7. CASE (j = 0 \/ "redis_get" \in FaultKinds) /\ Goto(h, "persist") /\ told' = told
  <2>1. Moves(h, "persist", req[h].job)
    BY <1>7, HandlerFacts, GotoBy DEF Late
  <2>2. Passes(h, "persist")
    BY <1>1, <1>3, <1>4, <1>7, <2>1 DEF Passes
  <2> QED  BY <1>2, <2>2 DEF Works, Late
<1> QED  BY <1>5, <1>6, <1>7

LEMMA PersistShape ==
    ASSUME SubmitInv, UNCHANGED deployment, NEW h \in Handlers,
           Persist(h) \/ PersistDirect(h) \/ EnqueueEntry(h)
    PROVE  Works(h) /\ Background
<1>1. UNCHANGED <<rate, cache, inflight, drawn, result>> /\ budget' \in Nat
  BY TypedFacts, BudgetAfter DEF Persist, PersistDirect, EnqueueEntry
<1>2. Background
  BY <1>1, TypedFacts DEF Background
<1>3. PICK j : j = req[h].job
  OBVIOUS
<1>4. j \in Jobs /\ req[h].pc \in {"persist", "xadd"}
  BY <1>3, HandlerFacts DEF Persist, PersistDirect, EnqueueEntry, Late
<1> DEFINE stored == [row EXCEPT ![j] = Pending(h)]
<1>5. row' = stored => RowStored(h, j)
  BY <1>4, HandlerFacts, StoredBy
<1>6. /\ Goto(h, "undo") => Moves(h, "undo", j)
      /\ Goto(h, "payload") => Moves(h, "payload", j)
  BY <1>3, HandlerFacts, GotoBy DEF Late
<1>7. Answer(h, "own", j) =>
          Leaves(h) /\ told' = told \cup {[how |-> "own", user |-> req[h].user, job |-> j]}
  BY HandlerFacts, AnswersBy
<1>8. ASSUME Persist(h)  PROVE Stores(h, j)
  <2>1. /\ req[h].pc = "persist"
        /\ \/ row' = stored /\ driven' = driven \cup {j} /\ Answer(h, "own", j)
           \/ /\ "db_insert" \in FaultKinds /\ Goto(h, "undo") /\ told' = told
              /\ (row' = row /\ driven' = driven) \/ (row' = stored /\ driven' = driven \cup {j})
    BY <1>3, <1>8 DEF Persist, Fault
  <2> QED  BY <1>1, <1>3, <1>4, <1>5, <1>6, <1>7, <2>1 DEF Stores
<1>9. ASSUME PersistDirect(h)  PROVE Stores(h, j)
  <2>1. /\ req[h].pc = "persist" /\ ~OutboxEnabled /\ told' = told /\ driven' = driven
        /\ \/ row' = stored /\ Goto(h, "payload")
           \/ "db_insert" \in FaultKinds /\ Goto(h, "undo") /\ (row' = row \/ row' = stored)
    BY <1>3, <1>9 DEF PersistDirect, Fault
  <2> QED  BY <1>1, <1>3, <1>4, <1>5, <1>6, <2>1 DEF Stores
<1>10. ASSUME EnqueueEntry(h)  PROVE Enqueues(h, j)
  <2>1. /\ req[h].pc = "xadd" /\ row' = row
        /\ \/ driven' = driven \cup {j} /\ Answer(h, "own", j)
           \/ /\ "redis_enqueue" \in FaultKinds /\ Goto(h, "undo") /\ told' = told
              /\ driven' \in {driven, driven \cup {j}}
    BY <1>3, <1>10 DEF EnqueueEntry, Fault
  <2> QED  BY <1>1, <1>3, <1>4, <1>6, <1>7, <2>1 DEF Enqueues
<1> QED  BY <1>2, <1>8, <1>9, <1>10 DEF Works

LEMMA QuitShape ==
    ASSUME SubmitInv, UNCHANGED deployment, NEW h \in Handlers, Undo(h) \/ Abandon(h)
    PROVE  Works(h) /\ Background
<1>1. UNCHANGED <<rate, cache, row, driven, drawn, told, result>> /\ budget' \in Nat /\ Refuse(h)
  BY TypedFacts, BudgetAfter DEF Undo, Abandon
<1>2. Background
  BY <1>1, TypedFacts DEF Background
<1>3. Leaves(h)
  BY <1>1, HandlerFacts, LeavesBy
<1>4. ASSUME Undo(h)  PROVE Quits(h)
  <2>1. PICK k : k = req[h].key
    OBVIOUS
  <2>2. /\ req[h].pc = "undo" /\ k \in Keys
        /\ inflight' = [inflight EXCEPT ![k] = 0] \/ inflight' = inflight
    BY <1>4, <2>1, HandlerFacts DEF Undo
  <2>3. inflight' = [inflight EXCEPT ![k] = 0] => KeySet(k, 0)
    BY <2>2, HandlerFacts, SetBy, ZeroIsIn
  <2> QED  BY <1>1, <1>3, <2>1, <2>2, <2>3 DEF Quits
<1>5. ASSUME Abandon(h)  PROVE Quits(h)
  <2>1. req[h].pc # "idle" /\ inflight' = inflight
    BY <1>5 DEF Abandon
  <2>2. CASE req[h].pc \in {"persist", "payload", "xadd", "undo"}
    BY <1>1, <1>3, <1>5, <2>1, <2>2 DEF Abandon, Fault, Quits
  <2>3. CASE req[h].pc \notin {"persist", "payload", "xadd", "undo"}
    <3>1. req[h].pc \in Early \cup {"hitdone", "get"}
      BY <2>1, <2>3, HandlerFacts DEF Request, Early
    <3> QED  BY <1>1, <1>3, <2>1, <3>1 DEF Quits
  <2> QED  BY <2>2, <2>3
<1> QED  BY <1>2, <1>4, <1>5 DEF Works

LEMMA HandlerShape ==
    ASSUME SubmitInv, UNCHANGED deployment, NEW h \in Handlers, HandleSubmit(h) \/ Abandon(h)
    PROVE  Works(h) /\ Background
<1>1. ASSUME CheckRateLimit(h)  PROVE Works(h) /\ Background
  <2>1. req[h].pc # "idle"
    BY <1>1 DEF CheckRateLimit
  <2>2. PICK a, u : a = req[h].addr /\ u = req[h].user
    OBVIOUS
  <2>3. a \in Addrs \cup Users /\ u \in Addrs \cup Users
    BY <2>1, <2>2, HandlerFacts
  <2>4. CASE req[h].pc = "ip" /\ Incr(h, req[h].addr, "ipexp", "user")
    BY <2>2, <2>3, <2>4, IncrShape DEF Early
  <2>5. CASE req[h].pc = "ipexp" /\ Expire(h, req[h].addr, "user")
    BY <2>2, <2>3, <2>5, IncrShape DEF Early
  <2>6. CASE req[h].pc = "user" /\ Incr(h, req[h].user, "userexp", "check")
    BY <2>2, <2>3, <2>6, IncrShape DEF Early
  <2>7. CASE req[h].pc = "userexp" /\ Expire(h, req[h].user, "check")
    BY <2>2, <2>3, <2>7, IncrShape DEF Early
  <2> QED  BY <1>1, <2>4, <2>5, <2>6, <2>7 DEF CheckRateLimit
<1> QED
  BY <1>1, CheckShape, HitShape, DedupeShape, ReadShape, PersistShape, QuitShape DEF HandleSubmit

Shape ==
    \/ Waits
    \/ \E k \in Keys : Expires(k)
    \/ \E j \in Jobs : Ends(j)
    \/ \E h \in Handlers : Works(h)
    \/ \E h \in Handlers, u \in Users, a \in Addrs, k \in Keys : Arrives(h, u, a, k)

LEMMA StepShape ==
    ASSUME SubmitInv, [Next]_vars
    PROVE  Shape /\ Background
<1>1. ASSUME UNCHANGED vars  PROVE Shape /\ Background
  BY <1>1, TypedFacts DEF vars, Shape, Waits, Background
<1>2. ASSUME Next  PROVE UNCHANGED deployment
  BY <1>2 DEF Next
<1>3. ASSUME NEW h \in Handlers, HandleSubmit(h) \/ Abandon(h), UNCHANGED deployment
      PROVE  Shape /\ Background
  BY <1>3, HandlerShape DEF Shape
<1>4. ASSUME NEW h \in Handlers, NEW u \in Users, NEW a \in Addrs, NEW k \in Keys,
             Arrive(h, u, a, k), UNCHANGED deployment
      PROVE  Shape /\ Background
  <2>1. Comes(h, u, a, k)
    BY <1>4, HandlerFacts, ArriveBy
  <2>2. Arrives(h, u, a, k)
    BY <1>4, <2>1 DEF Arrive, Arrives
  <2>3. Background
    BY <1>4, TypedFacts, BudgetAfter DEF Arrive, Background
  <2> QED  BY <2>2, <2>3 DEF Shape
<1>5. ASSUME NEW j \in Jobs, JobReports(j) \/ ResultExpires(j), UNCHANGED deployment
      PROVE  Shape /\ Background
  <2>1. UNCHANGED <<req, rate, cache, inflight, row, driven, drawn, told>> /\ result' \subseteq Jobs
    BY <1>5, TypedFacts DEF JobReports, ResultExpires
  <2>2. budget' \in Nat
    BY <1>5, TypedFacts, BudgetAfter DEF JobReports, ResultExpires
  <2> QED  BY <1>5, <2>1, <2>2, TypedFacts DEF Shape, Waits, Background
<1>6. ASSUME NEW j \in Jobs, JobEnds(j), UNCHANGED deployment
      PROVE  Shape /\ Background
  <2>1. RowDone(j)
    BY <1>6, DoneBy DEF JobEnds, SubmitInv, Typed
  <2>2. Ends(j)
    BY <1>6, <2>1 DEF JobEnds, Ends
  <2>3. Background
    BY <1>6, TypedFacts, BudgetAfter DEF JobEnds, Background
  <2> QED  BY <2>2, <2>3 DEF Shape
<1>7. ASSUME NEW k \in Keys, InflightExpires(k), UNCHANGED deployment
      PROVE  Shape /\ Background
  <2>1. KeySet(k, 0)
    BY <1>7, SetBy, ZeroIsIn DEF InflightExpires, SubmitInv, Typed
  <2>2. FaultKinds \cap {"slow_job", "expiry_race"} = {} => Unneeded(k)
    BY <1>7 DEF InflightExpires, Unneeded, Fault
  <2>3. UNCHANGED <<req, rate, cache, row, driven, drawn, told, result>>
    BY <1>7 DEF InflightExpires
  <2>4. budget' \in Nat
    BY <1>7, TypedFacts, BudgetAfter DEF InflightExpires
  <2> QED  BY <1>7, <2>1, <2>2, <2>3, <2>4, TypedFacts DEF Shape, Expires, Background
<1>8. ASSUME NEW k \in Keys, CacheFilled(k), UNCHANGED deployment
      PROVE  Shape /\ Background
  BY <1>8, TypedFacts, BudgetAfter DEF CacheFilled, Shape, Waits, Background
<1>9. ASSUME NEW k \in Addrs \cup Users, WindowEnds(k), UNCHANGED deployment
      PROVE  Shape /\ Background
  <2>1. RateTyped'
    BY <1>9, TypedFacts, RateAfter DEF WindowEnds
  <2> QED  BY <1>9, <2>1, TypedFacts, BudgetAfter DEF WindowEnds, Shape, Waits, Background
<1> QED
  BY <1>1, <1>2, <1>3, <1>4, <1>5, <1>6, <1>7, <1>8, <1>9 DEF Next

---------------------------------------------------------------------------
(* Who may write to a row, and what clients were told. *)

CoreTyped ==
    /\ req \in [Handlers -> Request]
    /\ inflight \in [Keys -> 0..MaxJobs]
    /\ row \in [Jobs -> Row]
    /\ driven \subseteq Jobs
    /\ drawn \in 0..MaxJobs
    /\ told \subseteq [how : {"own", "cached", "dedupe"}, user : Users, job : Jobs]

CoreInv == CoreTyped /\ HandlersInv /\ ToldInv /\ DrawnInv

\* Job j is the one that h has or draws, and nobody else's.
OwnedBy(h, j) ==
    /\ j \in 0..MaxJobs /\ j <= drawn'
    /\ \A g \in Handlers \ {h} : req[g].job # 0 => req[g].job # j
    /\ \A t \in told : t.how # "dedupe" => t.job # j

\* The step of h is about job j.
Confined(h, j) ==
    /\ \A g \in Handlers \ {h} : req'[g] = req[g]
    /\ req'[h].job \in {0, j}
    /\ \A n \in Jobs \ {j} : row'[n] = row[n]
    /\ drawn <= drawn'
    /\ driven \subseteq driven' /\ driven' \subseteq driven \cup {j}
    /\ \A t \in told' : t \in told \/ ToldOK(t)'

LEMMA CoreFacts ==
    ASSUME SubmitInv
    PROVE  CoreInv /\ drawn \in Nat /\ 0 \notin Jobs
BY SubmitAssumption DEF SubmitInv, Typed, CoreInv, CoreTyped, Jobs

LEMMA ConfinedKeeps ==
    ASSUME CoreInv, NEW h \in Handlers, NEW j, CoreTyped', OwnedBy(h, j), Confined(h, j), HandlerOK(h)'
    PROVE  CoreInv'
<1>1. /\ drawn \in Nat /\ drawn' \in Nat /\ 0 \notin Jobs
      /\ \A n \in Jobs : n \in Nat
      /\ \A g \in Handlers : req[g].job \in Nat /\ (req[g].job # 0 => req[g].job \in Jobs)
  BY SubmitAssumption DEF CoreInv, CoreTyped, Request, Jobs
<1>2. HandlersInv'
  <2>1. ASSUME NEW g \in Handlers, g # h  PROVE HandlerOK(g)'
    <3>1. req'[g] = req[g] /\ HandlerOK(g)
      BY <2>1 DEF Confined, CoreInv, HandlersInv
    <3>2. req'[g].job <= drawn'
      BY <1>1, <3>1 DEF HandlerOK, Confined
    <3>3. req[g].job # 0 => row'[req[g].job] = row[req[g].job]
      BY <1>1, <2>1 DEF OwnedBy, Confined
    <3>4. req[g].pc \in {"hitdone", "payload", "xadd"} => req[g].job # 0
      BY <3>1 DEF HandlerOK, Late
    <3> QED  BY <3>1, <3>2, <3>3, <3>4 DEF HandlerOK, Stored
  <2>2. ASSUME NEW f \in Handlers, NEW g \in Handlers, f # g, req'[f].job # 0
        PROVE  req'[f].job # req'[g].job
    BY <2>2 DEF Confined, OwnedBy, CoreInv, HandlersInv
  <2> QED  BY <2>1, <2>2 DEF HandlersInv
<1>3. ToldInv'
  <2>1. ASSUME NEW t \in told, t.how # "dedupe"  PROVE ToldOK(t)'
    <3>1. t.job \in Jobs /\ t.job # j /\ ToldOK(t)
      BY <2>1 DEF OwnedBy, CoreInv, CoreTyped, ToldInv
    <3>2. row'[t.job] = row[t.job] /\ t.job <= drawn'
      BY <1>1, <2>1, <3>1 DEF Confined, ToldOK
    <3>3. \A g \in Handlers : req'[g].job # t.job
      BY <1>1, <2>1, <3>1 DEF Confined, ToldOK
    <3> QED  BY <3>1, <3>2, <3>3 DEF ToldOK, Stored, Confined
  <2>2. \A t \in told : t.how = "dedupe" => ToldOK(t)'
    BY DEF ToldOK
  <2> QED  BY <2>1, <2>2 DEF ToldInv, Confined
<1>4. DrawnInv'
  BY <1>1 DEF CoreInv, CoreTyped, DrawnInv, Confined, OwnedBy
<1> QED  BY <1>2, <1>3, <1>4 DEF CoreInv

LEMMA OwnJob ==
    ASSUME CoreInv, NEW h \in Handlers, NEW j, j = req[h].job, drawn' = drawn
    PROVE  OwnedBy(h, j)
<1>1. j \in 0..MaxJobs /\ j <= drawn
  BY DEF CoreInv, CoreTyped, Request, HandlersInv, HandlerOK
<1>2. \A g \in Handlers \ {h} : req[g].job # 0 => req[g].job # j
  BY DEF CoreInv, HandlersInv
<1>3. \A t \in told : t.how # "dedupe" => t.job # j
  BY DEF CoreInv, ToldInv, ToldOK
<1> QED  BY <1>1, <1>2, <1>3 DEF OwnedBy

LEMMA FreshJob ==
    ASSUME CoreInv, NEW h \in Handlers, NEW j \in Jobs, j = drawn + 1, drawn' = j
    PROVE  OwnedBy(h, j)
<1>1. drawn \in Nat /\ j \in Nat /\ j > drawn /\ j \in 0..MaxJobs
  BY SubmitAssumption DEF CoreInv, CoreTyped, Jobs
<1>2. \A g \in Handlers : req[g].job \in Nat /\ req[g].job <= drawn
  BY DEF CoreInv, CoreTyped, Request, HandlersInv, HandlerOK
<1>3. \A t \in told : t.job \in Nat /\ (t.how # "dedupe" => t.job <= drawn)
  BY DEF CoreInv, CoreTyped, ToldInv, ToldOK, Jobs
<1> QED  BY <1>1, <1>2, <1>3 DEF OwnedBy

LEMMA PassesCore ==
    ASSUME CoreInv, NEW h \in Handlers, NEW pc \in Early \cup Late, Passes(h, pc)
    PROVE  CoreInv'
<1>1. PICK j : j = req[h].job
  OBVIOUS
<1>2. CoreTyped'
  BY DEF Passes, Moves, CoreInv, CoreTyped
<1>3. OwnedBy(h, j)
  BY <1>1, OwnJob DEF Passes
<1>4. Confined(h, j)
  BY <1>1 DEF Confined, Passes, Moves, CoreInv, CoreTyped
<1>5. HandlerOK(h)
  BY DEF CoreInv, HandlersInv
<1>6. HandlerOK(h)'
  BY <1>5 DEF HandlerOK, Stored, Passes, Moves, Early, Late
<1> QED  BY <1>2, <1>3, <1>4, <1>6, ConfinedKeeps

LEMMA QuitsCore ==
    ASSUME CoreInv, NEW h \in Handlers, Quits(h)
    PROVE  CoreInv'
<1>1. PICK j : j = req[h].job
  OBVIOUS
<1>2. CoreTyped'
  BY DEF Quits, Leaves, KeySet, CoreInv, CoreTyped
<1>3. OwnedBy(h, j)
  BY <1>1, OwnJob DEF Quits
<1>4. Confined(h, j)
  BY <1>1 DEF Confined, Quits, Leaves, CoreInv, CoreTyped
<1>5. HandlerOK(h)'
  BY <1>2 DEF HandlerOK, Quits, Leaves, Late, CoreTyped
<1> QED  BY <1>2, <1>3, <1>4, <1>5, ConfinedKeeps

LEMMA DrawsCore ==
    ASSUME CoreInv, NEW h \in Handlers, NEW j, Hits(h, j) \/ Dedupes(h, j)
    PROVE  CoreInv'
<1>1. j \in Jobs /\ j = drawn + 1 /\ drawn' = j /\ drawn \in Nat /\ j \in 0..MaxJobs /\ j # 0 /\ drawn <= j
  BY SubmitAssumption DEF Hits, Dedupes, CoreInv, CoreTyped, Jobs
<1>2. CoreTyped'
  BY <1>1 DEF Hits, Dedupes, Moves, Leaves, RowStored, KeySet, CoreInv, CoreTyped
<1>3. OwnedBy(h, j)
  BY <1>1, FreshJob
<1>4. Confined(h, j)
  BY <1>1 DEF Confined, Hits, Dedupes, Moves, Leaves, RowStored
<1>5. HandlerOK(h)
  BY DEF CoreInv, HandlersInv
<1>6. HandlerOK(h)'
  BY <1>1, <1>2, <1>5 DEF HandlerOK, Stored, Hits, Dedupes, Moves, Leaves, RowStored, Late, CoreTyped
<1> QED  BY <1>2, <1>3, <1>4, <1>6, ConfinedKeeps

LEMMA HitEndsCore ==
    ASSUME CoreInv, NEW h \in Handlers, NEW j, HitEnds(h, j)
    PROVE  CoreInv'
<1>1. /\ j \in Jobs /\ j = req[h].job /\ drawn' = drawn /\ drawn \in Nat /\ j # 0 /\ j <= drawn
      /\ req[h].user \in Users /\ Stored(j, req[h].user)
      /\ \A g \in Handlers \ {h} : req[g].job # j
  BY SubmitAssumption DEF HitEnds, CoreInv, CoreTyped, Jobs, HandlersInv, HandlerOK
<1>2. CoreTyped'
  BY <1>1 DEF HitEnds, Leaves, RowDone, CoreInv, CoreTyped
<1>3. OwnedBy(h, j)
  BY <1>1, OwnJob
<1>4. PICK t : t = [how |-> "cached", user |-> req[h].user, job |-> j]
  OBVIOUS
<1>5. ToldOK(t)'
  BY <1>1, <1>4 DEF ToldOK, Stored, HitEnds, Leaves, RowDone
<1>6. Confined(h, j)
  BY <1>1, <1>4, <1>5 DEF Confined, HitEnds, Leaves, RowDone
<1>7. HandlerOK(h)'
  BY <1>1 DEF HandlerOK, HitEnds, Leaves, Late
<1> QED  BY <1>2, <1>3, <1>6, <1>7, ConfinedKeeps

LEMMA RefersCore ==
    ASSUME CoreInv, NEW h \in Handlers, NEW j, Refers(h, j)
    PROVE  CoreInv'
<1>1. PICK n : n = req[h].job
  OBVIOUS
<1>2. j \in Jobs /\ drawn' = drawn /\ drawn \in Nat /\ req[h].user \in Users
  BY SubmitAssumption DEF Refers, CoreInv, CoreTyped, Jobs, HandlersInv, HandlerOK
<1>3. CoreTyped'
  BY <1>2 DEF Refers, Leaves, CoreInv, CoreTyped
<1>4. OwnedBy(h, n)
  BY <1>1, <1>2, OwnJob
<1>5. PICK t : t = [how |-> "dedupe", user |-> req[h].user, job |-> j]
  OBVIOUS
<1>6. ToldOK(t)'
  BY <1>5 DEF ToldOK
<1>7. Confined(h, n)
  BY <1>2, <1>5, <1>6 DEF Confined, Refers, Leaves
<1>8. HandlerOK(h)'
  BY <1>2 DEF HandlerOK, Refers, Leaves, Late
<1> QED  BY <1>3, <1>4, <1>7, <1>8, ConfinedKeeps

LEMMA StoresCore ==
    ASSUME CoreInv, NEW h \in Handlers, NEW j, Stores(h, j) \/ Enqueues(h, j)
    PROVE  CoreInv'
<1>1. /\ j \in Jobs /\ j = req[h].job /\ drawn' = drawn /\ drawn \in Nat /\ j # 0 /\ j <= drawn
      /\ req[h].user \in Users /\ req[h].addr \in Addrs /\ req[h].key \in Keys
      /\ \A g \in Handlers \ {h} : req[g].job # j
  BY SubmitAssumption DEF Stores, Enqueues, CoreInv, CoreTyped, Jobs, HandlersInv, HandlerOK
<1>2. Enqueues(h, j) => Stored(j, req[h].user)
  BY <1>1 DEF Enqueues, CoreInv, HandlersInv, HandlerOK
<1>3. CoreTyped'
  BY <1>1 DEF Stores, Enqueues, Moves, Leaves, RowStored, CoreInv, CoreTyped
<1>4. OwnedBy(h, j)
  BY <1>1, OwnJob
<1>5. PICK t : t = [how |-> "own", user |-> req[h].user, job |-> j]
  OBVIOUS
<1>6. ASSUME told' # told  PROVE ToldOK(t)'
  <2>1. Leaves(h) /\ driven' = driven \cup {j}
    BY <1>6 DEF Stores, Enqueues
  <2>2. row'[j].state # "absent" /\ row'[j].user = req[h].user
    BY <1>2, <1>6 DEF Stores, Enqueues, RowStored, Stored
  <2> QED  BY <1>1, <1>5, <2>1, <2>2 DEF ToldOK, Stored, Leaves
<1>7. told' = told \/ told' = told \cup {t}
  BY <1>5 DEF Stores, Enqueues
<1>8. Confined(h, j)
  BY <1>1, <1>6, <1>7 DEF Confined, Stores, Enqueues, Moves, Leaves, RowStored
<1>9. HandlerOK(h)'
  BY <1>1 DEF HandlerOK, Stored, Stores, Enqueues, Moves, Leaves, RowStored, Late
<1> QED  BY <1>3, <1>4, <1>8, <1>9, ConfinedKeeps

LEMMA CoreKeeps ==
    ASSUME CoreInv, Shape
    PROVE  CoreInv'
<1>1. ASSUME Waits  PROVE CoreInv'
  BY <1>1 DEF Waits, CoreInv, CoreTyped, HandlersInv, HandlerOK, ToldInv, ToldOK, Stored, DrawnInv
<1>2. ASSUME NEW k \in Keys, Expires(k)  PROVE CoreInv'
  BY <1>2 DEF Expires, KeySet, CoreInv, CoreTyped, HandlersInv, HandlerOK, ToldInv, ToldOK, Stored, DrawnInv
<1>3. ASSUME NEW j \in Jobs, Ends(j)  PROVE CoreInv'
  <2>1. \A n \in Jobs : /\ row'[n].user = row[n].user
                        /\ row[n].state # "absent" => row'[n].state # "absent"
    BY <1>3 DEF Ends, RowDone
  <2>2. HandlersInv'
    <3>1. \A h \in Handlers : req[h].pc \in {"hitdone", "payload", "xadd"} => req[h].job \in Jobs
      BY SubmitAssumption DEF CoreInv, CoreTyped, Request, HandlersInv, HandlerOK, Late, Jobs
    <3> QED  BY <1>3, <2>1, <3>1 DEF Ends, CoreInv, HandlersInv, HandlerOK, Stored
  <2>3. ToldInv'
    BY <1>3, <2>1 DEF Ends, CoreInv, CoreTyped, ToldInv, ToldOK, Stored
  <2> QED  BY <1>3, <2>2, <2>3 DEF Ends, RowDone, CoreInv, CoreTyped, DrawnInv
<1>4. ASSUME NEW h \in Handlers, NEW u \in Users, NEW a \in Addrs, NEW k \in Keys, Arrives(h, u, a, k)
      PROVE  CoreInv'
  <2>1. PICK j : j = req[h].job
    OBVIOUS
  <2>2. CoreTyped'
    BY <1>4 DEF Arrives, Comes, CoreInv, CoreTyped
  <2>3. OwnedBy(h, j)
    BY <1>4, <2>1, OwnJob DEF Arrives
  <2>4. Confined(h, j)
    BY <1>4, <2>1 DEF Confined, Arrives, Comes, CoreInv, CoreTyped
  <2>5. HandlerOK(h)'
    BY <1>4, <2>2 DEF HandlerOK, Arrives, Comes, Late, CoreTyped
  <2> QED  BY <2>2, <2>3, <2>4, <2>5, ConfinedKeeps
<1>5. ASSUME NEW h \in Handlers, Works(h)  PROVE CoreInv'
  BY <1>5, PassesCore, QuitsCore, DrawsCore, HitEndsCore, RefersCore, StoresCore DEF Works
<1> QED  BY <1>1, <1>2, <1>3, <1>4, <1>5 DEF Shape

---------------------------------------------------------------------------
(* Ids and cache. *)

(* A step of a handler takes it on, never back to where it draws an id. *)
LEMMA NotDrawnAfter ==
    ASSUME CoreInv, NEW h \in Handlers, Works(h)
    PROVE  \/ drawn' = drawn /\ NotDrawn' \subseteq NotDrawn
           \/ drawn' = drawn + 1 /\ h \in NotDrawn /\ NotDrawn' \subseteq NotDrawn \ {h}
<1>1. ASSUME NEW pc \in Early \cup Late, Passes(h, pc)  PROVE drawn' = drawn /\ NotDrawn' \subseteq NotDrawn
  BY <1>1 DEF Passes, Moves, NotDrawn, Early
<1>2. ASSUME Quits(h)  PROVE drawn' = drawn /\ NotDrawn' \subseteq NotDrawn
  BY <1>2 DEF Quits, Leaves, NotDrawn, Early
<1>3. ASSUME NEW j, Hits(h, j) \/ Dedupes(h, j)
      PROVE  drawn' = drawn + 1 /\ h \in NotDrawn /\ NotDrawn' \subseteq NotDrawn \ {h}
  BY <1>3 DEF Hits, Dedupes, Moves, Leaves, NotDrawn, Early
<1>4. ASSUME NEW j, HitEnds(h, j) \/ Refers(h, j) \/ Stores(h, j) \/ Enqueues(h, j)
      PROVE  drawn' = drawn /\ NotDrawn' \subseteq NotDrawn
  BY <1>4 DEF HitEnds, Refers, Stores, Enqueues, Moves, Leaves, NotDrawn, Early
<1> QED  BY <1>1, <1>2, <1>3, <1>4 DEF Works

LEMMA IdsKeep ==
    ASSUME CoreInv, IdsInv, Shape
    PROVE  IdsInv'
<1>1. drawn \in Nat /\ Cardinality(NotDrawn) \in Nat /\ IsFiniteSet(NotDrawn)
  BY NotDrawnFinite, SubmitAssumption DEF CoreInv, CoreTyped
<1>2. ASSUME drawn' = drawn, NotDrawn' \subseteq NotDrawn  PROVE IdsInv'
  <2>1. Cardinality(NotDrawn') <= Cardinality(NotDrawn) /\ Cardinality(NotDrawn') \in Nat
    BY <1>1, <1>2, FS_Subset, FS_CardinalityType
  <2> QED  BY <1>1, <1>2, <2>1, SubmitAssumption DEF IdsInv
<1>3. ASSUME NEW h \in Handlers, drawn' = drawn + 1, h \in NotDrawn, NotDrawn' \subseteq NotDrawn \ {h}
      PROVE  IdsInv'
  <2>1. IsFiniteSet(NotDrawn \ {h}) /\ Cardinality(NotDrawn \ {h}) = Cardinality(NotDrawn) - 1
    BY <1>1, <1>3, FS_RemoveElement
  <2>2. Cardinality(NotDrawn') <= Cardinality(NotDrawn \ {h}) /\ Cardinality(NotDrawn') \in Nat
    BY <1>3, <2>1, FS_Subset, FS_CardinalityType
  <2> QED  BY <1>1, <1>3, <2>1, <2>2, SubmitAssumption DEF IdsInv
<1>4. ASSUME NEW h \in Handlers, NEW u, NEW a, NEW k, Arrives(h, u, a, k)
      PROVE  IdsInv'
  <2>0. PICK busy : busy = {g \in Handlers : req[g].pc # "idle"}
    OBVIOUS
  <2>1. IsFiniteSet(busy) /\ Cardinality(busy) \in Nat
    BY <2>0, SubmitAssumption, FS_Subset, FS_CardinalityType
  <2>2. IsFiniteSet(busy \cup {h}) /\ Cardinality(busy \cup {h}) <= Cardinality(busy) + 1
    <3>1. /\ IsFiniteSet(busy \cup {h})
          /\ Cardinality(busy \cup {h}) = IF h \in busy THEN Cardinality(busy) ELSE Cardinality(busy) + 1
      BY <2>1, FS_AddElement
    <3> QED  BY <2>1, <3>1
  <2>3. NotDrawn' \subseteq busy \cup {h}
    BY <1>4, <2>0 DEF Arrives, Comes, NotDrawn, Early
  <2>4. Cardinality(NotDrawn') <= Cardinality(busy \cup {h}) /\ Cardinality(NotDrawn') \in Nat
    BY <2>2, <2>3, FS_Subset, FS_CardinalityType
  <2>5. Cardinality(busy \cup {h}) \in Nat
    BY <2>2, FS_CardinalityType
  <2>6. drawn' = drawn /\ drawn + Cardinality(busy) < MaxJobs
    BY <1>4, <2>0 DEF Arrives
  <2> QED  BY <1>1, <2>1, <2>2, <2>4, <2>5, <2>6, SubmitAssumption DEF IdsInv
<1>5. ASSUME Waits \/ (\E k \in Keys : Expires(k)) \/ (\E j \in Jobs : Ends(j))
      PROVE  drawn' = drawn /\ NotDrawn' \subseteq NotDrawn
  BY <1>5 DEF Waits, Expires, Ends, NotDrawn
<1> QED  BY <1>2, <1>3, <1>4, <1>5, NotDrawnAfter DEF Shape

LEMMA CacheKeeps ==
    ASSUME CoreInv, CacheInv, Shape, Background
    PROVE  CacheInv'
<1> SUFFICES ASSUME ~CacheWriter  PROVE cache' = {} /\ \A h \in Handlers : req'[h].pc \notin {"hit", "hitdone"}
  BY DEF CacheInv, CacheWriter, Background
<1>1. cache = {} /\ cache' = {} /\ \A h \in Handlers : req[h].pc \notin {"hit", "hitdone"}
  BY DEF CacheInv, Background
<1>2. ASSUME NEW h \in Handlers, Works(h)
      PROVE  \A g \in Handlers : req'[g].pc \notin {"hit", "hitdone"}
  <2>1. ASSUME NEW pc \in Early \cup Late, Passes(h, pc)
        PROVE  \A g \in Handlers : req'[g].pc \notin {"hit", "hitdone"}
    BY <1>1, <2>1 DEF Passes, Moves, Early
  <2>2. ASSUME Leaves(h)
        PROVE  \A g \in Handlers : req'[g].pc \notin {"hit", "hitdone"}
    BY <1>1, <2>2 DEF Leaves
  <2>3. ASSUME NEW pc, NEW j, pc \notin {"hit", "hitdone"}, Moves(h, pc, j)
        PROVE  \A g \in Handlers : req'[g].pc \notin {"hit", "hitdone"}
    BY <1>1, <2>3 DEF Moves
  <2> QED
    BY <1>1, <1>2, <2>1, <2>2, <2>3 DEF Works, Quits, Hits, HitEnds, Dedupes, Refers, Stores, Enqueues
<1>3. ASSUME NEW h \in Handlers, NEW u, NEW a, NEW k, Arrives(h, u, a, k)
      PROVE  \A g \in Handlers : req'[g].pc \notin {"hit", "hitdone"}
  BY <1>1, <1>3 DEF Arrives, Comes
<1> QED  BY <1>1, <1>2, <1>3 DEF Shape, Waits, Expires, Ends

---------------------------------------------------------------------------
(* The inductive invariant. *)

LEMMA SubmitInit == Init => SubmitInv
<1> SUFFICES ASSUME Init PROVE SubmitInv
  OBVIOUS
<1>1. \A k \in Addrs \cup Users : Limit(k) \in Nat
  BY SubmitAssumption DEF Limit
<1>2. RateTyped
  BY <1>1 DEF Init, RateTyped, Counter
<1>3. Typed
  BY <1>2, NoRequestType, ZeroIsIn, MaxFaultsAssumption DEF Init, Typed, FaultsInit, NoRow, Row
<1>4. \A h \in Handlers : req[h].pc = "idle" /\ req[h].job = 0
  BY DEF Init, NoRequest
<1>5. HandlersInv /\ ToldInv /\ DrawnInv
  BY <1>4 DEF Init, HandlersInv, HandlerOK, ToldInv, DrawnInv, Late
<1>6. NotDrawn = {}
  BY <1>4 DEF NotDrawn, Early
<1>7. IdsInv
  BY <1>6, FS_EmptySet, SubmitAssumption DEF Init, IdsInv
<1>8. CacheInv
  BY <1>4 DEF Init, CacheInv
<1> QED  BY <1>3, <1>5, <1>7, <1>8 DEF SubmitInv

LEMMA SubmitStep == SubmitInv /\ [Next]_vars => SubmitInv'
<1> SUFFICES ASSUME SubmitInv, [Next]_vars PROVE SubmitInv'
  OBVIOUS
<1>1. Shape /\ Background
  BY StepShape
<1>2. CoreInv /\ IdsInv /\ CacheInv
  BY CoreFacts DEF SubmitInv
<1>3. CoreInv'
  BY <1>1, <1>2, CoreKeeps
<1>4. IdsInv' /\ CacheInv'
  BY <1>1, <1>2, IdsKeep, CacheKeeps
<1>5. Typed'
  BY <1>1, <1>3 DEF SubmitInv, Typed, CoreInv, CoreTyped, Background
<1> QED  BY <1>3, <1>4, <1>5 DEF SubmitInv, CoreInv

(* The inductive invariant holds in every behaviour: job ids are drawn     *)
(* once, a request writes only the row of its own id, and what a client    *)
(* was told of its own job no request touches again.                       *)
THEOREM SubmitInvariance == Spec => []SubmitInv
BY SubmitInit, SubmitStep, PTL DEF Spec

(* The variables keep their types; every request finds a job id when it    *)
(* draws one, and none has an id that was not drawn.                       *)
THEOREM TypeCorrect == Spec => []TypeOK
<1>1. SubmitInv => TypeOK
  BY DEF SubmitInv, Typed, RateTyped, Counter, TypeOK, Request, Row, HandlersInv, HandlerOK
<1> QED  BY <1>1, SubmitInvariance, PTL

(* A client that was given a new job id or a cached result owns a stored   *)
(* submission, and a new job has an outbox event or a stream entry: in     *)
(* both delivery modes, for any number of requests, whatever fails and     *)
(* however often (HandleSubmit, persistSubmissionWithDeliveryMode).        *)
THEOREM AcceptedIsStoredCorrect == Spec => []AcceptedIsStored
<1>1. ASSUME SubmitInv, NEW t \in told, t.how # "dedupe"
      PROVE  HandleStatus(t.job, t.user) \in {"pending", "done"}
  <2>1. Stored(t.job, t.user) /\ t.job \in Jobs
    BY <1>1 DEF SubmitInv, ToldInv, ToldOK, Typed
  <2>2. row[t.job].state \in {"pending", "done"}
    BY <1>1, <2>1 DEF SubmitInv, Typed, Row, Stored
  <2> QED  BY <2>1, <2>2 DEF Stored, HandleStatus
<1>2. ASSUME SubmitInv, NEW t \in told, t.how = "own"  PROVE t.job \in driven
  BY <1>2 DEF SubmitInv, ToldInv, ToldOK
<1>3. SubmitInv => AcceptedIsStored
  BY <1>1, <1>2 DEF AcceptedIsStored
<1> QED  BY <1>3, SubmitInvariance, PTL

---------------------------------------------------------------------------
(* The cap.  Rows and requests that are past the count are bounded         *)
(* together: a request that stores its row was past the count before.      *)

LEMMA CapShape ==
    ASSUME SubmitInv, Shape, Background, ~CacheWriter, "db_count" \notin FaultKinds
    PROVE  \/ Active' \subseteq Active /\ Past' \subseteq Past
           \/ \E h \in Handlers, j \in Jobs :
                 Active' \subseteq Active \cup {j} /\ h \in Past /\ Past' \subseteq Past \ {h}
           \/ Active' = Active /\ Cardinality(Active) < SubmitMaxInflight
<1>1. \A h \in Handlers : req[h].pc # "hit"
  BY DEF SubmitInv, CacheInv
<1>2. row' = row => Active' = Active
  BY DEF Active
<1>3. \A j \in Jobs : RowDone(j) => Active' \subseteq Active
  BY DEF Active, RowDone
<1>4. \A h \in Handlers, j \in Jobs : RowStored(h, j) => Active' \subseteq Active \cup {j}
  BY DEF Active, RowStored
<1>5. req' = req => Past' = Past
  BY DEF Past
<1>6. ASSUME NEW h \in Handlers, NEW pc, NEW j, Moves(h, pc, j), pc \notin {"setnx", "get", "persist"}
      PROVE  Past' \subseteq Past \ {h}
  BY <1>6 DEF Past, Moves
<1>7. ASSUME NEW h \in Handlers, Leaves(h)  PROVE Past' \subseteq Past \ {h}
  BY <1>7 DEF Past, Leaves
<1>8. ASSUME NEW h \in Handlers, NEW pc, NEW j, Moves(h, pc, j), h \in Past  PROVE Past' \subseteq Past
  BY <1>8 DEF Past, Moves
<1>9. ASSUME NEW h \in Handlers, NEW pc \in Early \cup Late, Passes(h, pc)
      PROVE  \/ Active' \subseteq Active /\ Past' \subseteq Past
             \/ Active' = Active /\ Cardinality(Active) < SubmitMaxInflight
  <2>1. CASE pc = "setnx"
    BY <1>2, <1>9, <2>1 DEF Passes, Early
  <2>2. CASE pc = "persist"
    <3>1. h \in Past
      BY <1>9, <2>2 DEF Passes, Past, Early
    <3> QED  BY <1>2, <1>8, <1>9, <3>1 DEF Passes
  <2>3. CASE pc \notin {"setnx", "persist"}
    <3>1. pc # "get"
      BY <1>9 DEF Passes, Early
    <3> QED  BY <1>2, <1>6, <1>9, <2>3, <3>1 DEF Passes
  <2> QED  BY <2>1, <2>2, <2>3
<1>10. ASSUME NEW h \in Handlers, NEW j, Stores(h, j)
       PROVE  /\ Active' \subseteq Active \cup {j} /\ h \in Past /\ Past' \subseteq Past \ {h}
              /\ j \in Jobs
  <2>1. h \in Past /\ j \in Jobs
    BY <1>10 DEF Stores, Past
  <2>2. Active' \subseteq Active \cup {j}
    BY <1>2, <1>4, <1>10, <2>1 DEF Stores
  <2>3. Past' \subseteq Past \ {h}
    BY <1>6, <1>7, <1>10 DEF Stores
  <2> QED  BY <2>1, <2>2, <2>3
<1>11. ASSUME NEW h \in Handlers, NEW j, Dedupes(h, j)
       PROVE  Active' \subseteq Active /\ Past' \subseteq Past
  <2>1. h \in Past
    BY <1>11 DEF Dedupes, Past
  <2> QED  BY <1>2, <1>8, <1>11, <2>1 DEF Dedupes
<1>12. ASSUME NEW h \in Handlers, NEW j, Quits(h) \/ HitEnds(h, j) \/ Refers(h, j) \/ Enqueues(h, j)
       PROVE  Active' \subseteq Active /\ Past' \subseteq Past
  <2>1. Active' \subseteq Active
    BY <1>2, <1>3, <1>12 DEF Quits, HitEnds, Refers, Enqueues
  <2>2. Past' \subseteq Past
    BY <1>6, <1>7, <1>12 DEF Quits, HitEnds, Refers, Enqueues
  <2> QED  BY <2>1, <2>2
<1>13. ASSUME NEW h \in Handlers, NEW u, NEW a, NEW k, Arrives(h, u, a, k)
       PROVE  Active' \subseteq Active /\ Past' \subseteq Past
  BY <1>2, <1>13 DEF Arrives, Comes, Past
<1>14. ASSUME Waits \/ (\E k \in Keys : Expires(k)) \/ (\E j \in Jobs : Ends(j))
       PROVE  Active' \subseteq Active /\ Past' \subseteq Past
  BY <1>2, <1>3, <1>5, <1>14 DEF Waits, Expires, Ends
<1>15. \A h \in Handlers : \A j : ~Hits(h, j)
  BY <1>1 DEF Hits
<1> QED
  BY <1>9, <1>10, <1>11, <1>12, <1>13, <1>14, <1>15 DEF Shape, Works

LEMMA CapFinite ==
    ASSUME SubmitInv
    PROVE  /\ IsFiniteSet(Active) /\ Cardinality(Active) \in Nat
           /\ IsFiniteSet(Past) /\ Cardinality(Past) \in Nat
           /\ Cardinality(Handlers) \in Nat /\ Cardinality(Past) <= Cardinality(Handlers)
<1>1. IsFiniteSet(Jobs)
  BY SubmitAssumption, FS_Interval DEF Jobs
<1>2. IsFiniteSet(Active) /\ Cardinality(Active) \in Nat
  BY <1>1, FS_Subset, FS_CardinalityType DEF Active
<1>3. IsFiniteSet(Past) /\ Cardinality(Past) <= Cardinality(Handlers)
  BY SubmitAssumption, FS_Subset DEF Past
<1> QED  BY <1>2, <1>3, SubmitAssumption, FS_CardinalityType

LEMMA CapKeeps ==
    ASSUME SubmitInv, SubmitInv', CapInv, Shape, Background, "db_count" \notin FaultKinds
    PROVE  CapInv'
<1> SUFFICES ASSUME ~CacheWriter
             PROVE  Cardinality(Active') + Cardinality(Past') < SubmitMaxInflight + Cardinality(Handlers)
  BY DEF CapInv, CacheWriter, Background
<1> DEFINE A == Cardinality(Active)
           P == Cardinality(Past)
           B == Cardinality(Active')
           Q == Cardinality(Past')
           H == Cardinality(Handlers)
<1>1. A \in Nat /\ P \in Nat /\ H \in Nat /\ SubmitMaxInflight \in Nat /\ A + P < SubmitMaxInflight + H
  BY CapFinite, SubmitAssumption DEF CapInv
<1>2. IsFiniteSet(Active') /\ B \in Nat /\ IsFiniteSet(Past') /\ Q \in Nat /\ Q <= H
  <2>1. Active' \subseteq Jobs /\ IsFiniteSet(Jobs)
    BY SubmitAssumption, FS_Interval DEF Active, Jobs
  <2>2. Past' \subseteq Handlers
    BY DEF Past
  <2> QED  BY <2>1, <2>2, SubmitAssumption, FS_Subset, FS_CardinalityType
<1>3. Active' \subseteq Active => B <= A
  BY CapFinite, FS_Subset
<1>4. Past' \subseteq Past => Q <= P
  BY CapFinite, FS_Subset
<1>5. ASSUME NEW j, Active' \subseteq Active \cup {j}  PROVE B <= A + 1
  <2>1. IsFiniteSet(Active \cup {j}) /\ Cardinality(Active \cup {j}) = IF j \in Active THEN A ELSE A + 1
    BY CapFinite, FS_AddElement
  <2>2. B <= Cardinality(Active \cup {j})
    BY <1>5, <2>1, FS_Subset
  <2> QED  BY <1>1, <1>2, <2>1, <2>2
<1>6. ASSUME NEW h, h \in Past, Past' \subseteq Past \ {h}  PROVE Q <= P - 1
  <2>1. IsFiniteSet(Past \ {h}) /\ Cardinality(Past \ {h}) = P - 1
    BY <1>6, CapFinite, FS_RemoveElement
  <2> QED  BY <1>6, <2>1, FS_Subset
<1>7. \/ B <= A /\ Q <= P
      \/ B <= A + 1 /\ Q <= P - 1
      \/ B <= A /\ A < SubmitMaxInflight
  BY <1>3, <1>4, <1>5, <1>6, CapShape
<1> HIDE DEF A, B, P, Q, H
<1>8. B + Q < SubmitMaxInflight + H
  BY <1>1, <1>2, <1>7
<1> QED  BY <1>8 DEF B, Q, H

(* Active submissions exceed SUBMIT_MAX_INFLIGHT by fewer than the number  *)
(* of requests that are in progress, for every cap and every number of     *)
(* requests, as long as the count itself does not fail: then the cap is    *)
(* skipped, and nothing bounds them (HandleSubmit, CountActive).           *)
THEOREM CapOvershootCorrect ==
    ASSUME "db_count" \notin FaultKinds
    PROVE  Spec => []CapOvershoot
<1>1. Init => CapInv
  <2> SUFFICES ASSUME Init PROVE CapInv
    OBVIOUS
  <2>1. Active = {} /\ Past = {}
    BY DEF Init, Active, Past, NoRow, NoRequest
  <2>2. Cardinality(Handlers) \in Nat
    BY SubmitAssumption, FS_CardinalityType
  <2> QED  BY <2>1, <2>2, FS_EmptySet, SubmitAssumption DEF CapInv
<1>2. SubmitInv /\ SubmitInv' /\ CapInv /\ [Next]_vars => CapInv'
  BY StepShape, CapKeeps
<1>3. SubmitInv /\ CapInv => CapOvershoot
  <2> SUFFICES ASSUME SubmitInv, CapInv, ~CacheWriter
               PROVE  Cardinality(Active) < SubmitMaxInflight + Cardinality(Handlers)
    BY DEF CapOvershoot
  <2>1. PICK a, p, n : a = Cardinality(Active) /\ p = Cardinality(Past) /\ n = Cardinality(Handlers)
    OBVIOUS
  <2>2. a \in Nat /\ p \in Nat /\ n \in Nat
    BY <2>1, CapFinite
  <2>3. a + p < SubmitMaxInflight + n
    BY <2>1 DEF CapInv
  <2>4. a < SubmitMaxInflight + n
    BY <2>2, <2>3, SubmitAssumption
  <2> QED  BY <2>1, <2>4
<1> QED  BY <1>1, <1>2, <1>3, SubmitInvariance, PTL DEF Spec

---------------------------------------------------------------------------
(* The dedupe key.  As long as no failure touches the key, its holder or   *)
(* the row, the key leads to the job.                                      *)

\* Failures after which a key may be missing, or held by nobody.
KeyFaults ==
    {"redis_setnx", "redis_get", "redis_enqueue", "db_insert", "crash_storing", "slow_job", "expiry_race"}

KeysKept == FaultKinds \cap KeyFaults = {}

LEMMA KeyInit == Init => KeyInv
<1> SUFFICES ASSUME Init PROVE KeyInv
  OBVIOUS
<1>1. \A h \in Handlers : req[h].pc = "idle"
  BY DEF Init, NoRequest
<1> QED  BY <1>1 DEF Init, KeyInv, KeyOK, ActiveHolds, NamedExist

LEMMA KeyFacts ==
    ASSUME SubmitInv, NEW h \in Handlers
    PROVE  /\ req[h].pc # "idle" => req[h].key \in Keys
           /\ req[h].pc \in Late => req[h].job \in Jobs /\ req[h].job # 0
           /\ \A g \in Handlers \ {h} : req[g].job # 0 => req[g].job # req[h].job
BY HandlerFacts, CoreFacts DEF SubmitInv, HandlersInv

(* A step that changes no key and no row, and does not have to store one.  *)
LEMMA KeySame ==
    ASSUME SubmitInv, KeyInv, NEW h \in Handlers, inflight' = inflight, row' = row,
           driven' = driven, \A t \in told' : t \in told \/ t.job \in {inflight[k] : k \in Keys} \ {0},
           \A g \in Handlers \ {h} : req'[g] = req[g],
           req[h].pc # "persist", KeyOK(h)'
    PROVE  KeyInv'
<1>1. ASSUME NEW n, Exists(n)  PROVE Exists(n)'
  BY <1>1 DEF Exists
<1>2. NamedExist'
  BY <1>1 DEF KeyInv, NamedExist
<1>3. ActiveHolds'
  BY DEF KeyInv, ActiveHolds, Active
<1>4. \A g \in Handlers : KeyOK(g)'
  BY DEF KeyInv, KeyOK
<1> QED  BY <1>2, <1>3, <1>4 DEF KeyInv

LEMMA PassesKey ==
    ASSUME SubmitInv, KeyInv, KeysKept, NEW h \in Handlers, NEW pc \in Early \cup Late, Passes(h, pc)
    PROVE  KeyInv'
<1>1. KeyOK(h)
  BY DEF KeyInv
<1>2. KeyOK(h)' /\ req[h].pc # "persist"
  BY <1>1 DEF Passes, Moves, KeyOK, Early, KeysKept, KeyFaults
<1> QED  BY <1>2, KeySame DEF Passes, Moves

LEMMA QuitsKey ==
    ASSUME SubmitInv, KeyInv, KeysKept, NEW h \in Handlers, Quits(h)
    PROVE  KeyInv'
<1>1. req[h].pc \in Early \cup {"hitdone", "get"} /\ inflight' = inflight
  BY DEF Quits, KeysKept, KeyFaults, KeyInv, KeyOK
<1>2. KeyOK(h)' /\ req[h].pc # "persist"
  BY <1>1 DEF Quits, Leaves, KeyOK, Early
<1> QED  BY <1>1, <1>2, KeySame DEF Quits, Leaves

LEMMA RefersKey ==
    ASSUME SubmitInv, KeyInv, NEW h \in Handlers, NEW j, Refers(h, j)
    PROVE  KeyInv'
<1>1. KeyOK(h)' /\ req[h].pc # "persist" /\ req[h].key \in Keys
  BY KeyFacts DEF Refers, Leaves, KeyOK
<1>2. j \in {inflight[k] : k \in Keys} \ {0}
  BY <1>1, CoreFacts DEF Refers
<1>3. \A t \in told' : t \in told \/ t.job \in {inflight[k] : k \in Keys} \ {0}
  BY <1>2 DEF Refers
<1> QED  BY <1>1, <1>3, KeySame DEF Refers, Leaves

(* The row of a cache hit is new, and nothing drives it. *)
LEMMA HitsKey ==
    ASSUME SubmitInv, KeyInv, NEW h \in Handlers, NEW j, Hits(h, j)
    PROVE  KeyInv'
<1>1. /\ j \in Jobs /\ j \notin driven /\ \A g \in Handlers : req[g].job # j
      /\ inflight' = inflight /\ driven' = driven /\ told' = told
      /\ \A g \in Handlers \ {h} : req'[g] = req[g]
      /\ req'[h].pc \in {"idle", "hitdone"} /\ req[h].pc = "hit"
      /\ \A n \in Jobs \ {j} : row'[n] = row[n]
      /\ row' = row \/ row'[j].state = "pending"
  <2>1. drawn \in Nat /\ j = drawn + 1 /\ j \in Jobs
    BY CoreFacts DEF Hits
  <2>2. j \notin driven
    BY <2>1 DEF SubmitInv, DrawnInv
  <2>3. \A g \in Handlers : req[g].job # j
    BY <2>1 DEF SubmitInv, HandlersInv, HandlerOK
  <2> QED  BY <2>1, <2>2, <2>3 DEF Hits, Moves, Leaves, RowStored
<1>2. ASSUME NEW n \in Jobs, Exists(n)  PROVE Exists(n)'
  BY <1>1, <1>2 DEF Exists
<1>3. NamedExist'
  <2>1. \A k \in Keys : inflight[k] # 0 => inflight[k] \in Jobs
    BY SubmitAssumption DEF SubmitInv, Typed, Jobs
  <2>2. \A t \in told : t.job \in Jobs
    BY DEF SubmitInv, Typed
  <2> QED  BY <1>1, <1>2, <2>1, <2>2 DEF KeyInv, NamedExist
<1>4. ActiveHolds'
  BY <1>1 DEF KeyInv, ActiveHolds, Active
<1>5. ASSUME NEW g \in Handlers  PROVE KeyOK(g)'
  <2>1. CASE g = h
    BY <1>1, <2>1 DEF KeyOK
  <2>2. CASE g # h
    <3>1. req[g].pc \in {"payload", "xadd"} => row'[req[g].job] = row[req[g].job]
      BY <1>1, <2>2, KeyFacts DEF Late
    <3> QED  BY <1>1, <2>2, <3>1 DEF KeyInv, KeyOK
  <2> QED  BY <2>1, <2>2
<1> QED  BY <1>3, <1>4, <1>5 DEF KeyInv

(* A row that ends keeps its key. *)
LEMMA DoneKey ==
    ASSUME SubmitInv, KeyInv, NEW j \in Jobs, RowDone(j) \/ row' = row,
           inflight' = inflight, driven' = driven,
           \A t \in told' : t \in told \/ (t.job = j /\ row[j].state # "absent"),
           \A g \in Handlers : req'[g] = req[g] \/ (req[g].pc = "hitdone" /\ req'[g].pc = "idle")
    PROVE  KeyInv'
<1>1. /\ \A n \in Jobs : row'[n].key = row[n].key
      /\ \A n \in Jobs : row'[n].state = "absent" => row[n].state = "absent"
      /\ Active' \subseteq Active
  BY DEF RowDone, Active
<1>2. ASSUME NEW n \in Jobs, Exists(n)  PROVE Exists(n)'
  BY <1>1, <1>2 DEF Exists
<1>3. NamedExist'
  <2>1. \A k \in Keys : inflight[k] # 0 => inflight[k] \in Jobs
    BY SubmitAssumption DEF SubmitInv, Typed, Jobs
  <2>2. \A t \in told : t.job \in Jobs
    BY DEF SubmitInv, Typed
  <2>3. row[j].state # "absent" => Exists(j)
    BY DEF Exists
  <2> QED  BY <1>2, <2>1, <2>2, <2>3 DEF KeyInv, NamedExist
<1>4. ActiveHolds'
  <2>1. ASSUME NEW n \in Active' \cap driven'  PROVE row'[n].key \in Keys /\ inflight'[row'[n].key] = n
    <3>1. n \in Active \cap driven /\ n \in Jobs
      BY <1>1 DEF Active
    <3> QED  BY <1>1, <3>1 DEF KeyInv, ActiveHolds
  <2> QED  BY <2>1 DEF ActiveHolds
<1>5. ASSUME NEW g \in Handlers  PROVE KeyOK(g)'
  <2>1. req[g].pc \in {"payload", "xadd"} => req[g].job \in Jobs
    BY KeyFacts DEF Late
  <2> QED  BY <1>1, <2>1 DEF KeyInv, KeyOK
<1> QED  BY <1>3, <1>4, <1>5 DEF KeyInv

(* A key is only set when nobody holds it. *)
LEMMA DedupesKey ==
    ASSUME SubmitInv, KeyInv, KeysKept, NEW h \in Handlers, NEW j, Dedupes(h, j)
    PROVE  KeyInv'
<1>1. PICK k : k = req[h].key
  OBVIOUS
<1>2. /\ k \in Keys /\ j # 0 /\ req[h].pc = "setnx" /\ row' = row /\ driven' = driven /\ told' = told
      /\ \A g \in Handlers \ {h} : req'[g] = req[g]
      /\ req'[h].key = k /\ req'[h].job = j
      /\ \/ inflight[k] = 0 /\ KeySet(k, j) /\ req'[h].pc = "persist"
         \/ inflight[k] # 0 /\ inflight' = inflight /\ req'[h].pc = "get"
  BY <1>1, KeyFacts, CoreFacts DEF Dedupes, Moves, KeysKept, KeyFaults
<1>3. KeyOK(h)'
  BY <1>2 DEF KeyOK, KeySet
<1>4. CASE inflight' = inflight
  BY <1>2, <1>3, <1>4, KeySame
<1>5. CASE inflight[k] = 0 /\ KeySet(k, j) /\ req'[h].pc = "persist"
  <2>1. \A n : Exists(n) => Exists(n)'
    BY <1>2 DEF Exists
  <2>2. Exists(j)'
    BY <1>2, <1>5 DEF Exists
  <2>3. NamedExist'
    BY <1>2, <1>5, <2>1, <2>2 DEF KeyInv, NamedExist, KeySet
  <2>4. ASSUME NEW n \in Active \cap driven  PROVE row[n].key \in Keys \ {k}
    <3>1. n # 0
      BY CoreFacts DEF Active
    <3> QED  BY <1>5, <3>1 DEF KeyInv, ActiveHolds
  <2>5. ActiveHolds'
    BY <1>2, <1>5, <2>4 DEF KeyInv, ActiveHolds, Active, KeySet
  <2>6. ASSUME NEW g \in Handlers, g # h  PROVE KeyOK(g)'
    <3>1. KeyOK(g)
      BY DEF KeyInv
    <3>2. req[g].pc \in {"persist", "payload", "xadd", "get"} => req[g].key \in Keys \ {k}
      BY <1>5, <3>1, KeyFacts DEF KeyOK, Late
    <3> QED  BY <1>2, <1>5, <2>6, <3>1, <3>2 DEF KeyOK, KeySet
  <2> QED  BY <1>3, <2>3, <2>5, <2>6 DEF KeyInv
<1> QED  BY <1>2, <1>4, <1>5

(* The request that stores or enqueues the job has held its key since.     *)
LEMMA StoresKey ==
    ASSUME SubmitInv, KeyInv, KeysKept, NEW h \in Handlers, NEW j, Stores(h, j) \/ Enqueues(h, j)
    PROVE  KeyInv'
<1>1. PICK k : k = req[h].key
  OBVIOUS
<1>2. /\ k \in Keys /\ j \in Jobs /\ j # 0 /\ j = req[h].job /\ inflight' = inflight /\ inflight[k] = j
      /\ \A g \in Handlers \ {h} : req'[g] = req[g] /\ req[g].job # j
  BY <1>1, KeyFacts DEF Stores, Enqueues, Moves, Leaves, KeyInv, KeyOK, Late
<1>3. /\ driven' \subseteq driven \cup {j}
      /\ \A n \in Jobs \ {j} : row'[n] = row[n]
      /\ row'[j].state # "absent" /\ row'[j].key = k
      /\ \A t \in told' : t \in told \/ t.job = j
      /\ \/ req'[h].pc = "idle"
         \/ req'[h].pc = "payload" /\ req'[h].key = k /\ req'[h].job = j
  <2>1. CASE Stores(h, j)
    <3>1. "db_insert" \notin FaultKinds
      BY DEF KeysKept, KeyFaults
    <3>2. RowStored(h, j) /\ (driven' = driven \cup {j} \/ driven' = driven)
      BY <2>1, <3>1, Zenon DEF Stores
    <3>3. \/ Leaves(h) /\ told' = told \cup {[how |-> "own", user |-> req[h].user, job |-> j]}
          \/ Moves(h, "payload", j) /\ told' = told
      BY <2>1, <3>1, Zenon DEF Stores
    <3>4. /\ \/ req'[h].pc = "idle"
             \/ req'[h].pc = "payload" /\ req'[h].key = k /\ req'[h].job = j
          /\ \A t \in told' : t \in told \/ t.job = j
      BY <1>1, <3>3 DEF Moves, Leaves
    <3> QED  BY <1>1, <3>2, <3>4 DEF RowStored
  <2>2. CASE Enqueues(h, j)
    <3>1. row[j].state # "absent" /\ row[j].key = k
      BY <1>1, <1>2, <2>2 DEF Enqueues, SubmitInv, HandlersInv, HandlerOK, Stored, KeyInv, KeyOK
    <3> QED  BY <1>1, <2>2, <3>1 DEF Enqueues, Leaves, KeysKept, KeyFaults
  <2> QED  BY <2>1, <2>2
<1>4. ASSUME NEW n \in Jobs, Exists(n)  PROVE Exists(n)'
  BY <1>2, <1>3, <1>4 DEF Exists
<1>5. Exists(j)'
  BY <1>3 DEF Exists
<1>6. NamedExist'
  <2>1. \A m \in Keys : inflight[m] # 0 => inflight[m] \in Jobs
    BY SubmitAssumption DEF SubmitInv, Typed, Jobs
  <2>2. \A t \in told : t.job \in Jobs
    BY DEF SubmitInv, Typed
  <2> QED  BY <1>2, <1>3, <1>4, <1>5, <2>1, <2>2 DEF KeyInv, NamedExist
<1>7. ActiveHolds'
  <2>1. ASSUME NEW n \in Active' \cap driven'  PROVE row'[n].key \in Keys /\ inflight'[row'[n].key] = n
    <3>1. CASE n = j
      BY <1>2, <1>3, <3>1
    <3>2. CASE n # j
      <4>1. n \in Jobs /\ row'[n] = row[n] /\ n \in Active \cap driven
        BY <1>3, <2>1, <3>2 DEF Active
      <4> QED  BY <1>2, <4>1 DEF KeyInv, ActiveHolds
    <3> QED  BY <3>1, <3>2
  <2> QED  BY <2>1 DEF ActiveHolds
<1>8. ASSUME NEW g \in Handlers  PROVE KeyOK(g)'
  <2>1. CASE g = h
    BY <1>2, <1>3, <2>1 DEF KeyOK
  <2>2. CASE g # h
    <3>1. req[g].pc \in {"payload", "xadd"} => row'[req[g].job] = row[req[g].job]
      BY <1>2, <1>3, <2>2, KeyFacts DEF Late
    <3> QED  BY <1>2, <2>2, <3>1 DEF KeyInv, KeyOK
  <2> QED  BY <2>1, <2>2
<1> QED  BY <1>6, <1>7, <1>8 DEF KeyInv

(* A key that expires in time is needed by nobody. *)
LEMMA ExpiresKey ==
    ASSUME SubmitInv, KeyInv, KeysKept, NEW k \in Keys, Expires(k)
    PROVE  KeyInv'
<1>1. Unneeded(k) /\ KeySet(k, 0) /\ UNCHANGED <<req, row, driven, told>>
  BY DEF Expires, KeysKept, KeyFaults
<1>2. \A n : Exists(n) => Exists(n)'
  BY <1>1 DEF Exists
<1>3. NamedExist'
  BY <1>1, <1>2 DEF KeyInv, NamedExist, KeySet
<1>4. ActiveHolds'
  BY <1>1 DEF KeyInv, ActiveHolds, Active, Unneeded, KeySet
<1>5. ASSUME NEW g \in Handlers  PROVE KeyOK(g)'
  <2>1. req[g].pc \in {"persist", "payload", "xadd", "get"} => req[g].key \in Keys
    BY KeyFacts
  <2> QED  BY <1>1, <2>1 DEF KeyInv, KeyOK, Unneeded, KeySet
<1> QED  BY <1>3, <1>4, <1>5 DEF KeyInv

LEMMA KeyKeeps ==
    ASSUME SubmitInv, KeyInv, KeysKept, Shape
    PROVE  KeyInv'
<1>1. ASSUME Waits  PROVE KeyInv'
  BY <1>1 DEF Waits, KeyInv, KeyOK, ActiveHolds, NamedExist, Exists, Active
<1>2. ASSUME NEW k \in Keys, Expires(k)  PROVE KeyInv'
  BY <1>2, ExpiresKey
<1>3. ASSUME NEW j \in Jobs, Ends(j)  PROVE KeyInv'
  BY <1>3, DoneKey DEF Ends
<1>4. ASSUME NEW h \in Handlers, NEW u, NEW a, NEW k, Arrives(h, u, a, k)  PROVE KeyInv'
  <2>1. KeyOK(h)' /\ req[h].pc # "persist"
    BY <1>4 DEF Arrives, Comes, KeyOK
  <2> QED  BY <1>4, <2>1, KeySame DEF Arrives, Comes
<1>5. ASSUME NEW h \in Handlers, NEW j, HitEnds(h, j)  PROVE KeyInv'
  <2>1. j \in Jobs /\ row[j].state # "absent"
    BY <1>5 DEF HitEnds, SubmitInv, HandlersInv, HandlerOK, Stored
  <2>2. \A t \in told' : t \in told \/ (t.job = j /\ row[j].state # "absent")
    BY <1>5, <2>1 DEF HitEnds
  <2>3. \A g \in Handlers : req'[g] = req[g] \/ (req[g].pc = "hitdone" /\ req'[g].pc = "idle")
    BY <1>5 DEF HitEnds, Leaves
  <2> QED  BY <1>5, <2>1, <2>2, <2>3, DoneKey DEF HitEnds
<1>6. ASSUME NEW h \in Handlers, Works(h)  PROVE KeyInv'
  BY <1>5, <1>6, PassesKey, QuitsKey, RefersKey, HitsKey, DedupesKey, StoresKey DEF Works
<1> QED  BY <1>1, <1>2, <1>3, <1>4, <1>6 DEF Shape

(* The dedupe keys are sound for ever, if no failure touches a key, its    *)
(* holder or the row it stands for.                                        *)
THEOREM KeyInvariance ==
    ASSUME KeysKept
    PROVE  Spec => []KeyInv
<1>1. SubmitInv /\ KeyInv /\ [Next]_vars => KeyInv'
  BY StepShape, KeyKeeps
<1> QED  BY <1>1, KeyInit, SubmitInvariance, PTL DEF Spec

(* Then a job id that a client was given, also that of another request     *)
(* with the same code, exists or is about to be stored, in both delivery   *)
(* modes (HandleSubmit, the branch of a taken dedupe key).                 *)
THEOREM ToldJobExistsCorrect ==
    ASSUME KeysKept
    PROVE  Spec => []ToldJobExists
<1>1. SubmitInv /\ KeyInv => ToldJobExists
  <2> SUFFICES ASSUME SubmitInv, KeyInv, NEW t \in told, HandleStatus(t.job, t.user) = "not_found"
               PROVE  \E h \in Handlers : req[h].job = t.job /\ req[h].pc = "persist"
    BY DEF ToldJobExists
  <2>1. Exists(t.job)
    BY DEF KeyInv, NamedExist
  <2>2. row[t.job].state \in {"absent", "pending", "done"}
    BY DEF SubmitInv, Typed, Row
  <2> QED  BY <2>1, <2>2 DEF Exists, HandleStatus
<1> QED  BY <1>1, SubmitInvariance, KeyInvariance, PTL

(* And the same submission is never judged twice at a time.                *)
THEOREM NoDuplicateWorkCorrect ==
    ASSUME KeysKept
    PROVE  Spec => []NoDuplicateWork
<1>1. KeyInv => NoDuplicateWork
  BY DEF KeyInv, ActiveHolds, NoDuplicateWork
<1> QED  BY <1>1, KeyInvariance, PTL

---------------------------------------------------------------------------
(* What failures leave behind.  A row is new until the request that has    *)
(* drawn its id stores it, so a request that is answered with another job  *)
(* leaves none; every other step either sees its row and its counter       *)
(* through or has used up a failure.                                       *)

\* Ids that are not drawn, and those of requests that have not stored theirs
\* yet, have no row.
FreshInv ==
    /\ \A j \in Jobs : j > drawn => row[j].state = "absent"
    /\ \A h \in Handlers : req[h].pc \in {"get", "persist"} => row[req[h].job].state = "absent"

LeftoverInv == IsFiniteSet(StuckCounters) /\ OneLeftoverPerFailure

LEMMA FreshInit == Init => FreshInv
<1> SUFFICES ASSUME Init PROVE FreshInv
  OBVIOUS
<1>1. \A h \in Handlers : req[h].pc = "idle"
  BY DEF Init, NoRequest
<1> QED  BY <1>1 DEF Init, FreshInv, NoRow

(* A step that stores nothing, or the row of a request that is past that.  *)
LEMMA FreshBy ==
    ASSUME SubmitInv, FreshInv, NEW h \in Handlers, NEW n, drawn' \in Nat, drawn <= drawn',
           \A j \in Jobs \ {n} : row'[j] = row[j],
           n > drawn' => row' = row,
           \A g \in Handlers \ {h} : req'[g] = req[g] /\ (req[g].job # 0 => req[g].job # n),
           req'[h].pc \in {"get", "persist"} =>
               req'[h].job \in Jobs /\ row'[req'[h].job].state = "absent"
    PROVE  FreshInv'
<1>1. ASSUME NEW j \in Jobs, j > drawn'  PROVE row'[j].state = "absent"
  <2>1. j > drawn /\ drawn \in Nat
    BY <1>1, CoreFacts DEF Jobs
  <2> QED  BY <1>1, <2>1 DEF FreshInv
<1>2. ASSUME NEW g \in Handlers, g # h, req'[g].pc \in {"get", "persist"}
      PROVE  row'[req'[g].job].state = "absent"
  <2>1. req[g].job \in Jobs /\ req[g].job # 0
    BY <1>2, HandlerFacts, CoreFacts DEF Late
  <2> QED  BY <1>2, <2>1 DEF FreshInv
<1> QED  BY <1>1, <1>2 DEF FreshInv

LEMMA FreshKeeps ==
    ASSUME SubmitInv, SubmitInv', FreshInv, Shape
    PROVE  FreshInv'
<1>0. drawn \in Nat /\ drawn' \in Nat /\ (\A j \in Jobs : j \in Nat) /\ 0 \notin Jobs
  BY CoreFacts, SubmitAssumption DEF SubmitInv, Typed, Jobs
<1>1. ASSUME UNCHANGED <<req, drawn>>, row' = row \/ \E j \in Jobs : RowDone(j) /\ row[j].state = "pending"
      PROVE  FreshInv'
  <2>1. \A j \in Jobs : row[j].state = "absent" => row'[j].state = "absent"
    BY <1>1 DEF RowDone
  <2>2. \A h \in Handlers : req[h].pc \in {"get", "persist"} => req[h].job \in Jobs
    BY HandlerFacts DEF Late
  <2> QED  BY <1>1, <2>1, <2>2 DEF FreshInv
<1>2. ASSUME NEW h \in Handlers, row' = row, drawn' = drawn, req'[h].pc \notin {"get", "persist"},
             \A g \in Handlers \ {h} : req'[g] = req[g]
      PROVE  FreshInv'
  BY <1>2 DEF FreshInv
<1>3. ASSUME NEW h \in Handlers, NEW pc \in Early \cup Late, Passes(h, pc)  PROVE FreshInv'
  <2>1. CASE pc = "persist"
    <3>1. req[h].pc = "get" /\ row' = row /\ drawn' = drawn /\ req'[h].job = req[h].job
      BY <1>3, <2>1 DEF Passes, Moves, Early
    <3> QED  BY <1>3, <3>1 DEF Passes, Moves, FreshInv
  <2>2. CASE pc # "persist"
    <3>1. pc # "get"
      BY <1>3 DEF Passes, Early
    <3> QED  BY <1>2, <1>3, <2>2, <3>1 DEF Passes, Moves
  <2> QED  BY <2>1, <2>2
<1>4. ASSUME NEW h \in Handlers, NEW j, Hits(h, j) \/ Dedupes(h, j)  PROVE FreshInv'
  <2>1. j \in Jobs /\ j = drawn + 1 /\ drawn' = j /\ row[j].state = "absent"
    BY <1>0, <1>4 DEF Hits, Dedupes, FreshInv
  <2>2. \A g \in Handlers \ {h} : req'[g] = req[g] /\ req[g].job # j
    BY <1>0, <1>4, <2>1 DEF Hits, Dedupes, Moves, Leaves, SubmitInv, HandlersInv, HandlerOK, Typed, Request
  <2>3. \A n \in Jobs \ {j} : row'[n] = row[n]
    BY <1>4 DEF Hits, Dedupes, RowStored
  <2>4. req'[h].pc \in {"get", "persist"} => req'[h].job = j /\ row' = row
    BY <1>4 DEF Hits, Dedupes, Moves, Leaves
  <2>5. drawn <= drawn' /\ (j > drawn' => row' = row)
    BY <1>0, <2>1
  <2>6. req'[h].pc \in {"get", "persist"} => req'[h].job \in Jobs /\ row'[req'[h].job].state = "absent"
    BY <2>1, <2>4
  <2>7. \A g \in Handlers \ {h} : req'[g] = req[g] /\ (req[g].job # 0 => req[g].job # j)
    BY <2>2
  <2> QED  BY <1>0, <2>3, <2>5, <2>6, <2>7, FreshBy
<1>5. ASSUME NEW h \in Handlers, NEW j, HitEnds(h, j) \/ Stores(h, j) \/ Enqueues(h, j)  PROVE FreshInv'
  <2>1. j \in Jobs /\ j = req[h].job /\ drawn' = drawn /\ j <= drawn
    BY <1>5 DEF HitEnds, Stores, Enqueues, SubmitInv, HandlersInv, HandlerOK
  <2>2. \A g \in Handlers \ {h} : req'[g] = req[g] /\ (req[g].job # 0 => req[g].job # j)
    BY <1>5, <2>1, KeyFacts DEF HitEnds, Stores, Enqueues, Moves, Leaves
  <2>3. \A n \in Jobs \ {j} : row'[n] = row[n]
    BY <1>5 DEF HitEnds, Stores, Enqueues, RowStored, RowDone
  <2>4. req'[h].pc \notin {"get", "persist"}
    BY <1>5 DEF HitEnds, Stores, Enqueues, Moves, Leaves
  <2>5. drawn <= drawn' /\ ~(j > drawn')
    BY <1>0, <2>1
  <2> QED  BY <1>0, <2>2, <2>3, <2>4, <2>5, FreshBy
<1>6. ASSUME NEW h \in Handlers, NEW j, Quits(h) \/ Refers(h, j)  PROVE FreshInv'
  BY <1>2, <1>6 DEF Quits, Refers, Leaves
<1>7. ASSUME NEW h \in Handlers, NEW u, NEW a, NEW k, Arrives(h, u, a, k)  PROVE FreshInv'
  BY <1>2, <1>7 DEF Arrives, Comes
<1>8. ASSUME NEW h \in Handlers, Works(h)  PROVE FreshInv'
  BY <1>3, <1>4, <1>5, <1>6, <1>8 DEF Works
<1> QED  BY <1>1, <1>7, <1>8 DEF Shape, Waits, Expires, Ends

(* Rows that nobody but the request of h touches. *)
LEMMA RowsClean ==
    ASSUME NEW h \in Handlers, \A g \in Handlers \ {h} : req'[g] = req[g], driven \subseteq driven',
           \A n \in Active' \ driven' :
               \/ req'[h].job = n /\ req'[h].pc # "undo"
               \/ n \in Active /\ (req[h].job = n => req[h].pc = "undo")
    PROVE  StuckRows' \subseteq StuckRows
BY DEF StuckRows

LEMMA RowsOne ==
    ASSUME SubmitInv, NEW h \in Handlers, NEW j, req[h].job \in {0, j},
           \A g \in Handlers \ {h} : req'[g] = req[g], driven \subseteq driven',
           \A n \in Jobs \ {j} : row'[n] = row[n]
    PROVE  StuckRows' \subseteq StuckRows \cup {j}
<1>1. 0 \notin Jobs
  BY CoreFacts
<1> QED  BY <1>1 DEF StuckRows, Active

LEMMA CountersClean ==
    ASSUME NEW h \in Handlers, \A g \in Handlers \ {h} : req'[g] = req[g], rate' = rate,
           req[h].pc \notin {"ipexp", "userexp"}
    PROVE  StuckCounters' \subseteq StuckCounters
BY DEF StuckCounters, WillExpire

\* What a step leaves behind: nothing, or one thing in a failure.
Clean == StuckRows' \subseteq StuckRows /\ StuckCounters' \subseteq StuckCounters

OneMore ==
    \/ \E j : StuckRows' \subseteq StuckRows \cup {j} /\ StuckCounters' \subseteq StuckCounters
    \/ \E k : StuckRows' \subseteq StuckRows /\ StuckCounters' \subseteq StuckCounters \cup {k}

Failed == budget > 0 /\ budget' = budget - 1

Accounted == (Clean /\ (NoFault \/ Failed)) \/ (OneMore /\ Failed)

LEMMA CleanIsOneMore == Clean => OneMore
BY DEF Clean, OneMore

LEMMA FaultFails == \A kind : Fault(kind) => Failed
BY DEF Fault, Failed

LEMMA IncrAccounted ==
    ASSUME SubmitInv, NEW h \in Handlers, NEW k \in Addrs \cup Users,
           NEW expire \in {"ipexp", "userexp"}, NEW next \in {"user", "check"},
           req[h].pc \in {"ip", "user"},
           expire = "ipexp" => req[h].addr = k, expire = "userexp" => req[h].user = k,
           Incr(h, k, expire, next)
    PROVE  Accounted
<1>1. req \in [Handlers -> Request] /\ req[h].job = 0 /\ row' = row /\ driven' = driven
  BY HandlerFacts DEF Incr, Early
<1>2. /\ Goto(h, expire) => Moves(h, expire, 0)
      /\ Goto(h, next) => Moves(h, next, 0)
      /\ Refuse(h) => Leaves(h)
  BY <1>1, GotoBy, LeavesBy DEF Early, Late
<1>3. Moves(h, expire, 0) \/ Moves(h, next, 0) \/ Leaves(h)
  BY <1>2 DEF Incr
<1>4. \A g \in Handlers \ {h} : req'[g] = req[g]
  BY <1>3 DEF Moves, Leaves
<1>5. StuckRows' \subseteq StuckRows
  BY <1>1, <1>4, RowsClean, CoreFacts DEF Active
<1>6. /\ \A l \in (Addrs \cup Users) \ {k} : rate'[l] = rate[l]
      /\ rate[k].n \in Nat
      /\ rate' = Count(k) => rate'[k].ttl = rate[k].ttl
  <2>1. RateTyped /\ Limit(k) \in Nat
    BY TypedFacts, SubmitAssumption DEF Limit
  <2>2. rate[k].n \in Nat
    BY <2>1 DEF RateTyped, Counter
  <2>3. CASE rate' = rate
    BY <2>2, <2>3
  <2>4. CASE rate' = Count(k)
    <3>1. \A l \in (Addrs \cup Users) \ {k} : rate'[l] = rate[l]
      BY <2>1, <2>4 DEF Count, RateTyped
    <3>2. rate'[k] = [rate[k] EXCEPT !.n = Min({rate[k].n + 1, Limit(k) + 1})]
      BY <2>1, <2>4 DEF Count, RateTyped
    <3>3. rate'[k].ttl = rate[k].ttl
      BY <2>1, <3>2 DEF RateTyped, Counter
    <3> QED  BY <2>2, <3>1, <3>3
  <2> QED  BY <2>3, <2>4 DEF Incr
<1>7. \A l \in Addrs \cup Users : ~WillExpire(h, l)
  BY DEF WillExpire
<1>8. StuckCounters' \subseteq StuckCounters \cup {k}
  BY <1>4, <1>6, <1>7 DEF StuckCounters, WillExpire
<1>9. ASSUME NoFault  PROVE k \in StuckCounters' => k \in StuckCounters
  <2>1. rate' = Count(k) /\ (rate[k].n = 0 => Goto(h, expire))
    BY <1>9, TypedFacts DEF Incr, NoFault, Fault
  <2>2. CASE rate[k].n = 0
    <3>1. Moves(h, expire, 0)
      BY <1>2, <2>1, <2>2
    <3>2. WillExpire(h, k)'
      BY <3>1 DEF Moves, WillExpire
    <3> QED  BY <3>2 DEF StuckCounters
  <2>3. CASE rate[k].n # 0
    BY <1>4, <1>6, <1>7, <2>1, <2>3 DEF StuckCounters, WillExpire
  <2> QED  BY <2>2, <2>3
<1>10. NoFault \/ Failed
  BY FaultFails DEF Incr
<1> QED  BY <1>5, <1>8, <1>9, <1>10 DEF Accounted, Clean, OneMore

LEMMA ExpireAccounted ==
    ASSUME SubmitInv, NEW h \in Handlers, NEW k \in Addrs \cup Users, NEW next \in {"user", "check"},
           \/ req[h].pc = "ipexp" /\ req[h].addr = k
           \/ req[h].pc = "userexp" /\ req[h].user = k,
           Expire(h, k, next)
    PROVE  Accounted
<1>1. req \in [Handlers -> Request] /\ req[h].job = 0 /\ row' = row /\ driven' = driven
  BY HandlerFacts DEF Expire, Early
<1>2. Moves(h, next, 0)
  BY <1>1, GotoBy DEF Expire, Early
<1>3. \A g \in Handlers \ {h} : req'[g] = req[g]
  BY <1>2 DEF Moves
<1>4. StuckRows' \subseteq StuckRows
  BY <1>1, <1>3, RowsClean, CoreFacts DEF Active
<1>5. \A l \in (Addrs \cup Users) \ {k} : rate'[l] = rate[l]
  <2>1. RateTyped
    BY TypedFacts
  <2> QED  BY <2>1 DEF Expire, RateTyped
<1>6. \A l \in (Addrs \cup Users) \ {k} : ~WillExpire(h, l)
  BY DEF WillExpire
<1>7. StuckCounters' \subseteq StuckCounters \cup {k}
  BY <1>3, <1>5, <1>6 DEF StuckCounters, WillExpire
<1>8. ASSUME NoFault  PROVE k \notin StuckCounters'
  <2>1. rate' = [rate EXCEPT ![k].ttl = TRUE]
    BY <1>8, TypedFacts DEF Expire, NoFault, Fault
  <2>2. rate'[k] = [rate[k] EXCEPT !.ttl = TRUE]
    BY <2>1, TypedFacts DEF RateTyped
  <2>3. rate'[k].ttl
    BY <2>2, TypedFacts DEF RateTyped, Counter
  <2> QED  BY <2>3 DEF StuckCounters
<1>9. NoFault \/ Failed
  BY FaultFails DEF Expire
<1> QED  BY <1>4, <1>7, <1>8, <1>9 DEF Accounted, Clean, OneMore

(* A step of a request that is past its rate limits, on its own row only.  *)
LEMMA LaterAccounted ==
    ASSUME SubmitInv, NEW h \in Handlers, NEW j, req[h].job \in {0, j},
           req[h].pc \notin {"ipexp", "userexp"}, rate' = rate,
           \A g \in Handlers \ {h} : req'[g] = req[g], driven \subseteq driven',
           \A n \in Jobs \ {j} : row'[n] = row[n],
           NoFault \/ Failed,
           NoFault => \A n \in Active' \ driven' :
                         \/ req'[h].job = n /\ req'[h].pc # "undo"
                         \/ n \in Active /\ (req[h].job = n => req[h].pc = "undo")
    PROVE  Accounted
<1>1. StuckCounters' \subseteq StuckCounters
  BY CountersClean
<1>2. StuckRows' \subseteq StuckRows \cup {j}
  BY RowsOne
<1>3. ASSUME NoFault  PROVE StuckRows' \subseteq StuckRows
  BY <1>3, RowsClean
<1> QED  BY <1>1, <1>2, <1>3 DEF Accounted, Clean, OneMore

(* What an unharmed request makes of its row: another id, a row that ends  *)
(* or is driven, or one that is still its own.                             *)
LEMMA StepAccounted ==
    ASSUME SubmitInv, FreshInv, NEW h \in Handlers, UNCHANGED deployment,
           \/ Check(h) \/ CountActive(h) \/ SetPayload(h) \/ HitInsert(h) \/ HitUpdate(h) \/ Dedupe(h)
           \/ ReadInflight(h) \/ Persist(h) \/ PersistDirect(h) \/ EnqueueEntry(h) \/ Undo(h)
    PROVE  Accounted
<1>0. /\ req \in [Handlers -> Request] /\ req[h] \in Request /\ row \in [Jobs -> Row] /\ 0 \notin Jobs
      /\ budget \in Nat
  BY HandlerFacts, CoreFacts, TypedFacts
<1>1. rate' = rate /\ (NoFault \/ Failed) /\ req[h].pc \notin {"idle", "ipexp", "userexp"}
  BY FaultFails
     DEF Check, CountActive, SetPayload, HitInsert, HitUpdate, Dedupe, ReadInflight, Persist,
         PersistDirect, EnqueueEntry, Undo
<1>2. NoFault => ~Failed /\ \A kind : ~Fault(kind)
  BY <1>0 DEF NoFault, Failed, Fault
<1>3. ASSUME Check(h) \/ CountActive(h)  PROVE Accounted
  <2>1. req[h].job = 0 /\ row' = row /\ driven' = driven
    BY <1>3, HandlerFacts DEF Check, CountActive, Early
  <2>2. Refuse(h) \/ \E pc \in {"hit", "count", "setnx"} : Goto(h, pc)
    BY <1>3 DEF Check, CountActive
  <2>3. Leaves(h) \/ \E pc \in {"hit", "count", "setnx"} : Moves(h, pc, 0)
    BY <1>0, <2>1, <2>2, LeavesBy, GotoBy DEF Early
  <2>4. \A g \in Handlers \ {h} : req'[g] = req[g]
    BY <2>3 DEF Leaves, Moves
  <2> QED  BY <1>0, <1>1, <2>1, <2>4, LaterAccounted DEF Active
<1>4. ASSUME SetPayload(h)  PROVE Accounted
  <2>1. row' = row /\ driven' = driven /\ (Goto(h, "xadd") \/ Goto(h, "undo"))
    BY <1>4 DEF SetPayload
  <2>2. Moves(h, "xadd", req[h].job) \/ Moves(h, "undo", req[h].job)
    BY <1>0, <2>1, GotoBy DEF Late
  <2>3. NoFault => Moves(h, "xadd", req[h].job)
    BY <1>0, <1>2, <1>4, GotoBy DEF SetPayload, Late
  <2>4. \A g \in Handlers \ {h} : req'[g] = req[g]
    BY <2>2 DEF Moves
  <2>5. NoFault => req'[h].job = req[h].job /\ req'[h].pc # "undo"
    BY <2>3 DEF Moves
  <2> QED  BY <1>1, <2>1, <2>4, <2>5, LaterAccounted DEF Active
<1>5. ASSUME HitInsert(h)  PROVE Accounted
  <2>1. PICK j : j = drawn + 1
    OBVIOUS
  <2>2. /\ req[h].job = 0 /\ driven' = driven /\ j \in Jobs /\ j \in 0..MaxJobs
        /\ row' = row \/ row' = [row EXCEPT ![j] = Pending(h)]
    BY <1>5, <2>1, HandlerFacts DEF HitInsert, Early
  <2>3. /\ \/ req' = [req EXCEPT ![h].pc = "hitdone", ![h].job = j]
           \/ Refuse(h)
        /\ NoFault => req' = [req EXCEPT ![h].pc = "hitdone", ![h].job = j]
    BY <1>2, <1>5, <2>1 DEF HitInsert
  <2>4. /\ req' = [req EXCEPT ![h].pc = "hitdone", ![h].job = j] => Moves(h, "hitdone", j)
        /\ Refuse(h) => Leaves(h)
    BY <1>0, <2>2, DrawBy, LeavesBy DEF Late
  <2>5. \A g \in Handlers \ {h} : req'[g] = req[g]
    BY <2>3, <2>4 DEF Moves, Leaves
  <2>6. \A n \in Jobs \ {j} : row'[n] = row[n]
    BY <1>0, <2>2
  <2>7. NoFault => req'[h].job = j /\ req'[h].pc # "undo"
    BY <2>3, <2>4 DEF Moves
  <2> QED  BY <1>0, <1>1, <2>2, <2>5, <2>6, <2>7, LaterAccounted DEF Active
<1>6. ASSUME HitUpdate(h)  PROVE Accounted
  <2>1. PICK j : j = req[h].job
    OBVIOUS
  <2>2. /\ driven' = driven /\ j \in Jobs /\ Answer(h, "cached", j)
        /\ row' = row \/ row' = [row EXCEPT ![j].state = "done"]
        /\ NoFault => row' = [row EXCEPT ![j].state = "done"]
    BY <1>2, <1>6, <2>1, HandlerFacts DEF HitUpdate, Late
  <2>3. row' = [row EXCEPT ![j].state = "done"] => RowDone(j)
    BY <1>0, <2>2, DoneBy
  <2>4. Leaves(h)
    BY <1>0, <2>2, AnswersBy
  <2>5. \A g \in Handlers \ {h} : req'[g] = req[g]
    BY <2>4 DEF Leaves
  <2>6. \A n \in Jobs \ {j} : row'[n] = row[n]
    BY <2>2, <2>3 DEF RowDone
  <2>7. NoFault => j \notin Active'
    BY <2>2, <2>3 DEF RowDone, Active
  <2> QED  BY <1>1, <2>1, <2>2, <2>5, <2>6, <2>7, LaterAccounted DEF Active
<1>7. ASSUME Dedupe(h)  PROVE Accounted
  <2>1. PICK j : j = drawn + 1
    OBVIOUS
  <2>2. req[h].job = 0 /\ row' = row /\ driven' = driven /\ j \in 0..MaxJobs
    BY <1>7, <2>1, HandlerFacts DEF Dedupe, Early
  <2>3. \E pc \in {"persist", "get"} : req' = [req EXCEPT ![h].pc = pc, ![h].job = j]
    BY <1>7, <2>1 DEF Dedupe
  <2>4. \A g \in Handlers \ {h} : req'[g] = req[g]
    BY <1>0, <2>2, <2>3, DrawBy DEF Late, Moves
  <2> QED  BY <1>0, <1>1, <2>2, <2>4, LaterAccounted DEF Active
<1>8. ASSUME ReadInflight(h)  PROVE Accounted
  <2>1. PICK j : j = req[h].job
    OBVIOUS
  <2>2. row' = row /\ driven' = driven /\ req[h].pc = "get" /\ row[j].state = "absent"
    BY <1>8, <2>1 DEF ReadInflight, FreshInv
  <2>3. Answer(h, "dedupe", inflight[req[h].key]) \/ Goto(h, "persist")
    BY <1>8 DEF ReadInflight
  <2>4. Leaves(h) \/ Moves(h, "persist", j)
    BY <1>0, <2>1, <2>3, AnswersBy, GotoBy DEF Late
  <2>5. \A g \in Handlers \ {h} : req'[g] = req[g]
    BY <2>4 DEF Leaves, Moves
  <2>6. j \notin Active
    BY <2>2 DEF Active
  <2> QED  BY <1>1, <2>1, <2>2, <2>5, <2>6, LaterAccounted DEF Active
<1>9. ASSUME Persist(h) \/ PersistDirect(h)  PROVE Accounted
  <2>1. PICK j : j = req[h].job
    OBVIOUS
  <2>2. /\ j \in Jobs /\ (driven' = driven \/ driven' = driven \cup {j})
        /\ row' = row \/ row' = [row EXCEPT ![j] = Pending(h)]
    BY <1>9, <2>1, HandlerFacts DEF Persist, PersistDirect, Late
  <2>3. /\ Answer(h, "own", j) \/ Goto(h, "undo") \/ Goto(h, "payload")
        /\ NoFault => driven' = driven \cup {j} \/ Goto(h, "payload")
    BY <1>2, <1>9, <2>1 DEF Persist, PersistDirect
  <2>4. /\ Answer(h, "own", j) => Leaves(h)
        /\ Goto(h, "undo") => Moves(h, "undo", j)
        /\ Goto(h, "payload") => Moves(h, "payload", j)
    BY <1>0, <2>1, AnswersBy, GotoBy DEF Late
  <2>5. \A g \in Handlers \ {h} : req'[g] = req[g]
    BY <2>3, <2>4 DEF Leaves, Moves
  <2>6. \A n \in Jobs \ {j} : row'[n] = row[n]
    BY <1>0, <2>2
  <2>7. NoFault => j \in driven' \/ (req'[h].job = j /\ req'[h].pc # "undo")
    BY <2>3, <2>4 DEF Moves
  <2> QED  BY <1>1, <2>1, <2>2, <2>5, <2>6, <2>7, LaterAccounted DEF Active
<1>10. ASSUME EnqueueEntry(h)  PROVE Accounted
  <2>1. PICK j : j = req[h].job
    OBVIOUS
  <2>2. /\ row' = row /\ (driven' = driven \/ driven' = driven \cup {j})
        /\ NoFault => driven' = driven \cup {j}
        /\ Answer(h, "own", j) \/ Goto(h, "undo")
    BY <1>2, <1>10, <2>1 DEF EnqueueEntry
  <2>3. Leaves(h) \/ Moves(h, "undo", j)
    BY <1>0, <2>1, <2>2, AnswersBy, GotoBy DEF Late
  <2>4. \A g \in Handlers \ {h} : req'[g] = req[g]
    BY <2>3 DEF Leaves, Moves
  <2> QED  BY <1>1, <2>1, <2>2, <2>4, LaterAccounted DEF Active
<1>11. ASSUME Undo(h)  PROVE Accounted
  <2>1. row' = row /\ driven' = driven /\ req[h].pc = "undo" /\ Refuse(h)
    BY <1>11 DEF Undo
  <2>2. \A g \in Handlers \ {h} : req'[g] = req[g]
    BY <1>0, <2>1, LeavesBy DEF Leaves
  <2> QED  BY <1>1, <2>1, <2>2, LaterAccounted DEF Active
<1> QED  BY <1>3, <1>4, <1>5, <1>6, <1>7, <1>8, <1>9, <1>10, <1>11

(* A request that dies leaves its row or, while it has none, its counter.  *)
LEMMA AbandonAccounted ==
    ASSUME SubmitInv, NEW h \in Handlers, Abandon(h)
    PROVE  Accounted
<1>1. Failed /\ UNCHANGED <<rate, row, driven>> /\ Refuse(h)
  BY FaultFails DEF Abandon
<1>2. \A g \in Handlers \ {h} : req'[g] = req[g]
  BY <1>1, HandlerFacts, LeavesBy DEF Leaves
<1>3. CASE req[h].pc \notin {"ipexp", "userexp"}
  BY <1>1, <1>2, <1>3, RowsOne, CountersClean DEF Accounted, OneMore
<1>4. CASE req[h].pc \in {"ipexp", "userexp"}
  <2>1. req[h].job = 0
    BY <1>4, HandlerFacts DEF Early
  <2>2. StuckRows' \subseteq StuckRows
    BY <1>1, <1>2, <2>1, RowsClean, CoreFacts DEF Active
  <2>3. PICK k : k = IF req[h].pc = "ipexp" THEN req[h].addr ELSE req[h].user
    OBVIOUS
  <2>4. \A l : l # k => ~WillExpire(h, l)
    BY <2>3 DEF WillExpire
  <2>5. StuckCounters' \subseteq StuckCounters \cup {k}
    BY <1>1, <1>2, <2>4 DEF StuckCounters, WillExpire
  <2> QED  BY <1>1, <2>2, <2>5 DEF Accounted, OneMore
<1> QED  BY <1>3, <1>4

LEMMA EveryStepAccounted ==
    ASSUME SubmitInv, FreshInv, [Next]_vars
    PROVE  Accounted
<1>1. ASSUME UNCHANGED <<req, rate, row, driven>>, NoFault \/ Failed  PROVE Accounted
  BY <1>1 DEF Accounted, Clean, StuckRows, StuckCounters, WillExpire, Active
<1>2. ASSUME UNCHANGED vars  PROVE Accounted
  BY <1>1, <1>2 DEF vars, NoFault
<1>3. ASSUME NEW h \in Handlers, HandleSubmit(h) \/ Abandon(h), UNCHANGED deployment  PROVE Accounted
  <2>1. ASSUME CheckRateLimit(h)  PROVE Accounted
    <3>1. req[h].pc # "idle"
      BY <2>1 DEF CheckRateLimit
    <3>2. req[h].addr \in Addrs \cup Users /\ req[h].user \in Addrs \cup Users
      BY <3>1, HandlerFacts
    <3>3. PICK a, u : a = req[h].addr /\ u = req[h].user
      OBVIOUS
    <3>4. CASE req[h].pc = "ip" /\ Incr(h, a, "ipexp", "user")
      BY <3>2, <3>3, <3>4, IncrAccounted
    <3>5. CASE req[h].pc = "ipexp" /\ Expire(h, a, "user")
      BY <3>2, <3>3, <3>5, ExpireAccounted
    <3>6. CASE req[h].pc = "user" /\ Incr(h, u, "userexp", "check")
      BY <3>2, <3>3, <3>6, IncrAccounted
    <3>7. CASE req[h].pc = "userexp" /\ Expire(h, u, "check")
      BY <3>2, <3>3, <3>7, ExpireAccounted
    <3> QED  BY <2>1, <3>3, <3>4, <3>5, <3>6, <3>7 DEF CheckRateLimit
  <2> QED  BY <1>3, <2>1, StepAccounted, AbandonAccounted DEF HandleSubmit
<1>4. ASSUME NEW h \in Handlers, NEW u \in Users, NEW a \in Addrs, NEW k \in Keys, Arrive(h, u, a, k)
      PROVE  Accounted
  <2>1. Comes(h, u, a, k)
    BY <1>4, HandlerFacts, ArriveBy
  <2>2. /\ NoFault /\ UNCHANGED <<rate, row, driven>> /\ req[h].pc = "idle" /\ req[h].job = 0
        /\ \A g \in Handlers \ {h} : req'[g] = req[g]
    BY <1>4, <2>1 DEF Arrive, Comes, SubmitInv, HandlersInv, HandlerOK, Late
  <2> QED  BY <2>2, LaterAccounted, CoreFacts DEF Active
<1>5. ASSUME NEW j \in Jobs, JobReports(j) \/ ResultExpires(j)  PROVE Accounted
  BY <1>1, <1>5, FaultFails DEF JobReports, ResultExpires
<1>6. ASSUME NEW j \in Jobs, JobEnds(j)  PROVE Accounted
  <2>1. RowDone(j) /\ UNCHANGED <<req, rate, driven>> /\ NoFault
    BY <1>6, DoneBy DEF JobEnds, SubmitInv, Typed
  <2> QED  BY <2>1 DEF Accounted, Clean, StuckRows, StuckCounters, WillExpire, Active, RowDone
<1>7. ASSUME NEW k \in Keys, InflightExpires(k) \/ CacheFilled(k)  PROVE Accounted
  BY <1>1, <1>7, FaultFails DEF InflightExpires, CacheFilled
<1>8. ASSUME NEW k \in Addrs \cup Users, WindowEnds(k)  PROVE Accounted
  <2>1. UNCHANGED <<req, row, driven>> /\ NoFault
    BY <1>8 DEF WindowEnds
  <2>2. StuckRows' \subseteq StuckRows
    BY <2>1 DEF StuckRows, Active
  <2>3. /\ rate'[k] = [n |-> 0, ttl |-> FALSE]
        /\ \A l \in (Addrs \cup Users) \ {k} : rate'[l] = rate[l]
    BY <1>8, TypedFacts DEF WindowEnds, RateTyped
  <2>4. StuckCounters' \subseteq StuckCounters
    BY <2>1, <2>3 DEF StuckCounters, WillExpire
  <2> QED  BY <2>1, <2>2, <2>4 DEF Accounted, Clean
<1> QED  BY <1>2, <1>3, <1>4, <1>5, <1>6, <1>7, <1>8 DEF Next

LEMMA StuckRowsFinite ==
    /\ IsFiniteSet(StuckRows) /\ Cardinality(StuckRows) \in Nat
    /\ IsFiniteSet(StuckRows') /\ Cardinality(StuckRows') \in Nat
<1>1. IsFiniteSet(Jobs)
  BY SubmitAssumption, FS_Interval DEF Jobs
<1>2. StuckRows \subseteq Jobs /\ StuckRows' \subseteq Jobs
  BY DEF StuckRows, Active
<1> QED  BY <1>1, <1>2, FS_Subset, FS_CardinalityType

LEMMA GrowsByOne ==
    ASSUME NEW S, NEW T, NEW e, IsFiniteSet(S), T \subseteq S \cup {e}
    PROVE  IsFiniteSet(T) /\ Cardinality(T) \in Nat /\ Cardinality(T) <= Cardinality(S) + 1
<1>1. /\ IsFiniteSet(S \cup {e}) /\ Cardinality(S) \in Nat
      /\ Cardinality(S \cup {e}) = IF e \in S THEN Cardinality(S) ELSE Cardinality(S) + 1
  BY FS_AddElement, FS_CardinalityType
<1>2. IsFiniteSet(T) /\ Cardinality(T) <= Cardinality(S \cup {e}) /\ Cardinality(T) \in Nat
  BY <1>1, FS_Subset, FS_CardinalityType
<1> QED  BY <1>1, <1>2

LEMMA LeftoverKeeps ==
    ASSUME LeftoverInv, Accounted, budget \in Nat
    PROVE  LeftoverInv'
<1> DEFINE A == Cardinality(StuckRows)
           B == Cardinality(StuckCounters)
           C == Cardinality(StuckRows')
           D == Cardinality(StuckCounters')
<1>1. /\ IsFiniteSet(StuckCounters) /\ A \in Nat /\ B \in Nat /\ C \in Nat
      /\ MaxFaults \in Nat /\ A + B <= MaxFaults - budget
  BY StuckRowsFinite, FS_CardinalityType, MaxFaultsAssumption
     DEF LeftoverInv, OneLeftoverPerFailure, Failures
<1>2. StuckRows' \subseteq StuckRows => C <= A
  BY StuckRowsFinite, FS_Subset
<1>3. \A j : StuckRows' \subseteq StuckRows \cup {j} => C <= A + 1
  BY StuckRowsFinite, GrowsByOne
<1>4. StuckCounters' \subseteq StuckCounters => IsFiniteSet(StuckCounters') /\ D \in Nat /\ D <= B
  BY <1>1, FS_Subset, FS_CardinalityType
<1>5. \A k : StuckCounters' \subseteq StuckCounters \cup {k} =>
               IsFiniteSet(StuckCounters') /\ D \in Nat /\ D <= B + 1
  BY <1>1, GrowsByOne
<1>6. IsFiniteSet(StuckCounters') /\ D \in Nat
  BY <1>4, <1>5 DEF Accounted, Clean, OneMore
<1>7. \/ C <= A /\ D <= B /\ (NoFault \/ Failed)
      \/ Failed /\ ((C <= A + 1 /\ D <= B) \/ (C <= A /\ D <= B + 1))
  BY <1>2, <1>3, <1>4, <1>5 DEF Accounted, Clean, OneMore
<1> HIDE DEF A, B, C, D
<1>8. C + D <= MaxFaults - budget'
  BY <1>1, <1>6, <1>7 DEF NoFault, Failed
<1> QED  BY <1>6, <1>8 DEF LeftoverInv, OneLeftoverPerFailure, Failures, C, D

LEMMA LeftoverInit == Init => LeftoverInv
<1> SUFFICES ASSUME Init PROVE LeftoverInv
  OBVIOUS
<1>1. StuckRows = {}
  BY DEF Init, StuckRows, Active, NoRow
<1>2. StuckCounters = {}
  BY DEF Init, StuckCounters
<1>3. IsFiniteSet({}) /\ Cardinality({}) = 0
  BY FS_EmptySet
<1>4. budget = MaxFaults
  BY DEF Init, FaultsInit
<1> QED  BY <1>1, <1>2, <1>3, <1>4, MaxFaultsAssumption
         DEF LeftoverInv, OneLeftoverPerFailure, Failures

(* Rows that count against the cap although nothing will end them, and     *)
(* counters that no window resets, are together no more than the failures  *)
(* there were: in both delivery modes, with and without a cache writer,    *)
(* for any number of requests, clients and failures of any kind            *)
(* (consumeRateLimit, the cache hit, persistSubmissionWithDeliveryMode).   *)
THEOREM OneLeftoverPerFailureCorrect == Spec => []OneLeftoverPerFailure
<1>1. SubmitInv /\ SubmitInv' /\ FreshInv /\ [Next]_vars => FreshInv'
  BY StepShape, FreshKeeps
<1>2. SubmitInv /\ FreshInv /\ LeftoverInv /\ [Next]_vars => LeftoverInv'
  BY EveryStepAccounted, LeftoverKeeps, TypedFacts
<1>3. LeftoverInv => OneLeftoverPerFailure
  BY DEF LeftoverInv
<1> QED  BY <1>1, <1>2, <1>3, FreshInit, LeftoverInit, SubmitInvariance, PTL DEF Spec
=============================================================================
