# Deep_OJ: specification and verification

TLA+ models of Deep_OJ, an online judge: a Go API stores a submission and an
outbox event in PostgreSQL, a dispatcher moves the event into a Redis stream,
Go workers take entries from it under a database lease, judge the program with
a C++ sandbox and write the verdict back under a fencing token; a scheduler
process repairs and cleans up. The models are checked with TLC on small
instances; every invariant and every action property that a run checks, and the
refinement of the abstract job lifecycle, is also proved with TLAPS for every
size.

Paths below are relative to the repository (`src/go/internal/...` is the Go
code, `src/core/worker/...` the C++ sandbox).

## 1. Inventory

| Part | State it keeps | Operations | Talks to |
|---|---|---|---|
| Submissions repository (`repository/postgres.go`) | table `submissions`: state, attempt_id, lease_owner, lease_until, result | create, claim (CAS), reclaim (CAS on an expired lease), heartbeat, fenced finalize, poison, counts, retention | called by API, worker, scheduler |
| Outbox and dispatcher (`repository/postgres_outbox.go`, `api/outbox_dispatcher.go`) | table `outbox_events`: status, next_attempt_at | insert with the row, claim due events, SET payload, XADD, mark delivered or retry | PostgreSQL, Redis |
| Redis | stream, consumer group, pending entries list, `payload:`, `result:`, dedupe and rate keys with TTLs | XADD, XREADGROUP, XAUTOCLAIM, XACK, XTRIM, SET/SETNX/GET/DEL, INCR/EXPIRE | external |
| Stream consumer (`worker/stream_consumer.go`) | per message: attempt_id, heartbeat state; the pool of slots, the XAUTOCLAIM cursor | read loop, reclaim loop, handleMessage, handleReclaimedMessage, runClaimedExecution, heartbeat, finalize, ack | Redis, PostgreSQL, judge |
| Judge (`worker/judge.go`) | files: job directory, user outputs | ExecuteTask: prepare, save, compile, run every case, compare, report | cache, executor, Redis `result:` |
| Test case cache (`worker/minio.go`) | zip, ETag, unzipped directory, ready marker, LRU list | Prepare with two singleflight groups, download, unzip, touch, evict | MinIO, disk |
| Executor (`worker/executor.go`) | the engine process, its pipe, a deadline | start, drain, wait, kill the group | judge_engine |
| judge_engine (`core/worker/main.cpp`, `sandbox.cpp`, `config.cpp`) | options and configuration, the child process, guards | Compile, Run, Cleanup; clone, poll, classify, print one line | kernel, disk |
| Sandbox child (`core/worker/sandbox_isolation.cpp`, `seccomp_filter.*`) | its mounts, limits, identity; the job's directory | some thirty system calls from dup2 to execve | kernel, disk |
| Cgroup manager (`core/worker/cgroup_manager.cpp`) | `deep_oj/run_<pid>` | delegate, create, limit, add, read, kill, remove | cgroup v2 |
| Submit and status handlers (`api/handler.go`, `api/stream_enqueue.go`) | rate counters, cache keys, dedupe keys | HandleSubmit (outbox or direct mode), HandleStatus | Redis, PostgreSQL |
| Repair and GC loops (`scheduler/repair_loop.go`, `gc_loop.go`) | the candidates of a cycle | scan old pending rows, SET + XADD; delete done rows, XTRIM | PostgreSQL, Redis |
| Problem administration (`api/handler_problem.go`) | problem rows, zip objects | create (row, object, path, undo), delete | PostgreSQL, MinIO |
| Authentication, configuration, metrics, logging, worker discovery, survey validation | request-local or none | | |

What is hard here, and what correctness means for each part:

* **Data plane.** At-least-once delivery at every hop, lost replies, crashes
  between any two calls, leases that run out while an execution goes on. It is
  correct when one attempt has one executor, only the newest attempt writes, a
  final row stays final, no accepted job is lost and every job ends
  (INV-1 to INV-5 and INV-9 of `DESIGN.md`).
* **Judging.** Tasks share directories with other attempts, with the eviction
  and with a worker that restarts. It is correct when a verdict is earned:
  nothing but the program decides between Accepted and a rejection.
* **Sandbox.** Program, engine, two goroutines and two timers race. It is
  correct when a verdict names what really happened, Execute always returns,
  and nothing is left running (INV-10). Its set-up is a chain of calls the
  kernel may refuse one by one, in a directory earlier runs have left behind: it
  must fail closed, touch nothing of the host and never block a later run.
* **Slots.** Two loops reserve slots before they know how many messages they
  get. It is correct when no slot is lost or doubled on any path and neither
  loop starves the other.
* **Submit.** Five Redis and database calls per request without a transaction
  around them, several requests at a time. It is correct when a job id that was
  handed out exists, is stored and driven, equal work is done once, and limits
  are temporary.
* **Problems.** A row and an object in two stores without a transaction. It is
  correct when what was reported as created is complete, what failed is taken
  back, and a submission is judged with the cases of the problem it names.

The full list of hazards, each at its line, is in `PROJECT.json`.

## 2. Plan

Order, most important first. All items are done.

1. `Submissions`, `JobStream`, `OutboxDispatcher`, `StreamConsumer`,
   `RepairLoop`, composed by `JobPipeline`; abstract specification
   `JobLifecycle`; proofs `JobPipelineProofs`.
2. `TestcaseCache`, extended by `JudgeTask`.
3. `Submit`.
4. `SandboxRun`.
5. `SlotPool`, the slot accounting of the read and reclaim loops; proofs
   `SlotPoolProofs`. `SandboxChild`, `CgroupManager` and `JudgeEngine`, the C++
   side call by call, with several calls at once.
6. `ProblemAdmin`, the creation and deletion of problems.
7. The refinement of `JobLifecycle` and the outbox (`JobPipelineProofs`), that no
   job is lost (`RecoveryProofs`), and the invariants of `ProblemAdmin`, `Submit`
   and `SandboxRun` (`ProblemAdminProofs`, `SubmitProofs`, `SandboxRunProofs`).
8. The invariants of the C++ side and of the judge with its cache
   (`JudgeEngineProofs`, `JudgeTaskProofs`).

## 3. The models

`Params` names the shared constants. `Faults` holds a budget of failures: an
action that models a failure is guarded by `Fault("kind")`, so each run chooses
which failures may happen (`FaultKinds`) and how many (`MaxFaults`). Every call
to Redis or to the database is a step of its own. A failed call has two forms:
`x` had no effect, `x_reply` took effect and only its answer was lost.

* **Submissions** (`postgres.go`): `sub[j]` is the row; a lease is `valid`,
  `expired` or `null` instead of a timestamp. `ClaimSubmissionForRun`,
  `ReclaimSubmissionForRun`, `RefreshSubmissionLease`, `FinalizeSubmissionWithFence`,
  `MarkSubmissionPoison` keep the WHERE clauses of the statements. The fields
  `by` and `src` record which attempt wrote the row and which one computed the
  result.
* **JobStream** (Redis): the stream is a sequence of jobs, an entry id is its
  index; `trimPos`, the group position, the pending entries list, the idle
  entries, payload and result keys.
* **OutboxDispatcher**: claim, SET, XADD, DEL on error, mark; visibility timeout
  and back-off as clock steps.
* **StreamConsumer**: `hs[h]` is the local state of one slot, with a program
  counter per call; heartbeat and lease loss run beside it.
* **SlotPool** (`stream_consumer.go`): the channel of slots, the loop of Run and
  the reclaim loop with the slots each holds, the time a read may block and the
  time reserveSlotsWithWait may wait, the cursor of XAUTOCLAIM. A token released
  while the reclaim loop waits goes to it, as with a Go channel. What a message
  does is left to StreamConsumer; here it holds its slot. The semaphore of
  JudgeService has as many places as there are slots, so by SlotsConserved it
  never blocks and is not modelled.
* **RepairLoop**: one cycle with its candidates; retention and XTRIM. The scan takes
  any pending row, whether or not an entry of it waits. The bound MaxEntries stops
  only such duplicates: a job without a waiting entry is always enqueued again.
* **JobPipeline** composes them and states the properties.
  **JobLifecycle** says what a client may rely on: accepted, started,
  taken over only after the lease lapsed, ended once by the newest token.
* **TestcaseCache** (`minio.go`): versions of an object, `disk[p]` with zip,
  tag, directory, ready marker, in the order the code writes them; the two
  singleflight groups with leaders and followers; the LRU list, as the relation
  "not behind", and the byte budget. **JudgeTask** (`judge.go`) runs ExecuteTask on top of it; the sandbox
  is one step there.
* **Submit** (`handler.go`, `stream_enqueue.go`): a request is a program
  counter through rate limit, cache, count, dedupe and persistence; `told`
  records what clients were answered. The pipeline is one step, `JobEnds`, which
  may never come. `StuckRows` and `StuckCounters` are what no later step clears. Each
  behaviour starts with one of the `Deployments` of its run: outbox or direct
  mode, with or without something that fills the result cache.
  HandleStatus is an operator, used by the properties.
* **SandboxRun** (`executor.go`, `sandbox.cpp`, `sandbox_isolation.cpp`,
  `cgroup_manager.cpp`, `main.cpp`): `call` is Execute, `engine` the
  judge_engine process, `prog` the program and what it used, `pipe` the
  engine's standard output, `groups` the cgroup directories with their
  `memory.peak`, `now` the ticks since the call began. `Classify` has the order
  of the code: output, memory, exit status.
* **SandboxChild** (`sandbox_isolation.cpp`, the seccomp part of `sandbox.cpp`):
  the child of a compile or a run as the sequence of its system calls
  (`SetupRootfs`, `RunChildFn`, `CompileChildFn`), each of which may be refused
  and then ends the process with the exit code of that place. The directory of
  the job and the mounts the host can see outlive it.
* **CgroupManager** (`cgroup_manager.cpp`): EnsureParentReady, Create, the four
  limits, AddProcess, KillAllProcesses, Destroy. WriteToFile tests the stream
  before it is flushed, so a write the kernel refuses counts as done. ReadFromFile
  returns one line, so KillAllProcesses kills one process, here the only one. A
  directory that cannot be removed (`rmdir`) stays without a word (`held`).
* **JudgeEngine** (`main.cpp`, `sandbox.cpp`, and the calls of `judge.go`)
  composes the two: options, configuration, Prepare, clone, poll, the three
  guards in the order of their destructors, the line on standard output; the
  worker's deadline and its clean-up call, and a removal of the directory that fails,
  in the guard as in the clean-up; a directory that cannot be created is noted and
  Compile goes on to write the source; several attempts and jobs at once
  over shared directories and the shared `stderr.txt`.
* **ProblemAdmin** (`handler_problem.go`, `problem_repo.go`, `minio.go`, and the
  way of a problem id from the submit handler to the worker): a request is a program
  counter through INSERT, upload, UPDATE of the path and the undo of both; its context
  dies with the client. A submission keeps its problem id twice: in its row, where
  deleting the problem sets it to NULL (`OnDeleteSetNull`, migration 005), and in the
  task of its event. The dispatcher sets the payload from the task, the repair loop
  from the row, with 0 for NULL. An archive is a set of entries; `ValidateZipContent` is what the
  API looks at, `JudgedCases` and `HasAnswer` what the worker finds.

Data that no property tells apart is left out: JSON, SQL text, paths, logs and
metrics. `PROJECT.json` maps every definition to its lines.

## 4. Runs

Passing runs:

| Run | Shows | Instance |
|---|---|---|
| `safety` | TypeOK, UniqueExecutor, TokenFromRow, JudgedByNewestAttempt, DeliveredHasEntry, DoneIsFinal, and that every step implements JobLifecycle, under any two of all failures | 1 job, 2 workers with 2 slots, 2 dispatchers, 2 stream entries |
| `recovery` | NoOrphan, NeverPoisoned, EventuallyDone after any two failures the reclaim loop and the outbox are built for | 1 job, 2 workers, 2 entries, fair |
| `repair` | EventuallyDone with the repair loop on: jobs that lost their entry or payload while pending, or were added before the group, end too | 1 job, 2 workers, the first start of the workers, 1 failure of any kind but a lease that lapses before the final write, fair |
| `slots` | SlotsConserved; SkippedOnlyWhenBusy: a takeover is skipped only when messages hold all slots; IdleIsReclaimed: every idle message is taken over | 2 slots, 3 messages, batches of 3 and 2, a read that blocks for 2 ticks, 1 failure, fair |
| `judging` | VerdictIsEarned: Accepted, a rejection and Compile Error are each due to the program alone | 2 jobs, 2 problems, every program over 2 cases, 1 failure |
| `replaced` | TagNeverAhead, CallsEnd while the test data is replaced | 2 jobs of a problem with 2 versions, overlapping attempts, fair |
| `submit` | AcceptedIsStored, CapOvershoot, OneLeftoverPerFailure in both modes | 2 requests at a time, 3 job ids, 2 keys, 2 failures |
| `submit_recovers` | ToldJobExists, NoDuplicateWork, LimitsAreTemporary (the cap and the rate limits) while the dedupe key and the insert work | 2 requests at a time, 2 keys, limits of 1, 2 failures (a crash, a failed update, count, cache or rate limit command), fair requests |
| `problems` | WholeOrNothing (CreatedIsComplete, NoHalfProblem), JudgedByOwnCases: a submission is judged with the cases of its problem, whatever is created, deleted, dispatched twice, repaired or taken over meanwhile | 2 requests at a time, 2 problems, 1 submission, any 2 of 11 kinds of failure |
| `sandbox` | VerdictIsEarned (limits, Finished, Runtime Error), NothingLeftRunning, ExecuteReturns, although engine and program may hang | limits of 1 s and 1.5 s, a tick of 500 ms, 1 failure, fair on the Go side only |
| `engine` | Isolated (Confined, HostUntouched, DirectoryUntouched), SetupNeverBlocked, VerdictIsOwn, NothingOutlivesEngine, NotRemovedInUse | 1 job, 2 attempts in 2 slots, 2 test cases, both seccomp modes, 1 failure of 14 kinds (any refused call, a deadline, an overlap of the attempts) |

One run ends in a counterexample, with a finding in `PROJECT.json` that quotes
what the repository says: `lease_lost`. A finalize refused for an expired lease
is acknowledged; the row stays processing and nothing takes it over.

More counterexamples were met while modelling. They are not runs of
`PROJECT.json`; each says under which assumption a property of a passing run stops
to hold, or refutes a property that no run can pass. A configuration without a
file of its own is one of the others with the change that is named:

| Configuration | Refutes | What the code does |
|---|---|---|
| `Recovery`, FaultKinds = {"db_claim"} | NoOrphan | a database error on a claim leaves a pending job nothing drives |
| `LeaseLost`, FaultKinds = {"crash", "slow_inspect"}, MaxFaults = 2 | EventuallyDone | a lease that expires between UPDATE and SELECT makes a running job look stale |
| `Recovery`, FirstBoot = TRUE | NoOrphan | entries added before the first worker started are never delivered |
| `Recovery`, Workers = {w1}, FaultKinds = {"redis_group"} | EventuallyDone | a failed EnsureGroup leaves a worker that never consumes |
| `Recovery`, FaultKinds = {"redis_get"} or {"redis_xadd_reply"} | NeverPoisoned | a Redis error, or a lost XADD reply, poisons a valid job |
| `LeaseLost`, FaultKinds = {"db_outbox", "redis_get"}, MaxFaults = 2, PROPERTY DuplicatesAreRejected | DuplicatesAreRejected | a duplicate entry ends a job that another worker executes |
| `Slots`, Block = 4 | SkippedOnlyWhenBusy | reclaimReserveWait is capped at 3 s, so a read that blocks for longer keeps the reclaim loop out of an idle worker |
| `StaleCases`, `CacheLeak` | PreparedIsCurrent, DiskWithinBudget | old cases are used after a replacement; directories of an earlier process are never evicted |
| `EvictedCases` | AcceptedIsEarned | a directory of cases evicted between Prepare and the listing is judged as zero cases, hence Accepted |
| `Judging`, CacheByteBudget = 2, or FaultKinds = {"slow_task"} | VerdictIsEarned | the cases go away under a task that judges with them: the cache is too small for two problems, or the task outlives the TTL of its entry |
| `Judging`, FaultKinds = {"overlap"} | VerdictIsEarned | one attempt removes the files of another, which is told Wrong Answer |
| `Judging`, FaultKinds = {"judge_compile"} | VerdictIsEarned | failures of the judge become Compile Error |
| `PhantomJob`, `ForeignJob`, `DuplicateWork` | ToldJobExists, ToldJobIsReadable, NoDuplicateWork | the dedupe key hands out ids that never exist or may not be read, or expires between SETNX and GET |
| `DirectLeak`, `ResultLost` | CapRecovers, DoneStaysDone | a row that counts for ever although the pipeline ends what it is given, a finished status that goes back |
| `NestedCases`, also with Archives <- HiddenArchives | ValidatedIsJudgeable | cases in a directory of the archive pass the validation and are not found by the worker; a hidden `.in` file is not validated but judged, without an answer |
| `Problems`, INVARIANT NothingHalf | NothingHalf | the undo uses the context of the request: a client that goes away leaves a row without an object |
| `Problems`, INVARIANT DeletionKeepsCases | DeletionKeepsCases | a problem is deleted while a submission waits: the repair loop then reads NULL for its problem and enqueues problem 0, a System Error |
| `Problems`, INVARIANT StoredIsJudgeable | StoredIsJudgeable | a row is visible, and accepts submissions, before its archive is uploaded |
| `Overrun`, also with FinishedInTime | OverrunIsTimeLimit, FinishedInTime | an overrun is a System Error because the worker's deadline is before the engine's; a late but normal exit is Finished |
| `Sandbox`, INVARIANT SystemErrorIsOurs or MemoryDeathIsMemoryLimit | SystemErrorIsOurs, MemoryDeathIsMemoryLimit | an exit code of 120 or more of a program counts as a failure of the sandbox; an exhausted memory limit is a Runtime Error |
| `Sandbox`, INVARIANT ReportedIsReturned | ReportedIsReturned | cmd.Wait closes the pipe before the verdict is read |
| `Engine`, CompileCpuLimit = 20 | SetupNeverBlocked | setrlimit of a compile is refused when its CPU limit exceeds its wall limit |
| `SharedStderr` | VerdictIsOwn | runs of one problem share `stderr.txt`, and the mark of a failed exec in it decides the verdict of another run |
| `Sandbox`, INVARIANT NoCgroupLeft; `StalePeak` | NoCgroupLeft, LimitVerdictIsEarned | a killed engine leaves its cgroup, and a reused pid inherits its peak |

RuntimeErrorIsEarned, a part of VerdictIsEarned, has an exception of its own: a
failed dup2 of the child ends it with 101 to 103, which the engine takes for
the program's exit code.

Smaller disagreements met while modelling, without a configuration of their
own: the command line contract promises one JSON line in every case, while a
configuration that cannot be loaded ends judge_engine without one; a failure of
the sandbox while compiling is reported as Compile Error too; lists of mounts are cut at 16 entries; the clean-up
call of ExecuteTask is not deferred and is skipped when the report fails.

`CHECK_DEADLOCK FALSE` is set everywhere: every system here may come to rest
when all jobs, requests or calls within the bounds are done.

### Bounds

* Two workers (or two slots, tasks, requests) are what races need: every
  property is about a pair of actors and one row, key or directory.
* Two failures reach the known compound cases (a crash after a lost reply, a
  takeover that itself fails). `HeartbeatRetries` is 2 where the code has 3: with
  two failures per behaviour three consecutive errors could not happen.
* `MaxEntries` bounds only the duplicates that the repair loop makes of entries
  which still wait. No repair that would bring a job back is stopped by it, and no
  property excuses a job because of it.
* `MaxJobs = 3` job ids: the first request, its duplicate, and one more that
  meets the cap. Rate and in-flight limits of 1 or 2 are reached and exceeded.
* A cache of two units holds one problem, of four both; two versions suffice for
  old against new.
* SlotPool: a read that asks for more messages than there are slots, one message
  more than slots, so that a batch is cut and the cursor of XAUTOCLAIM moves, and
  a wait of the reclaim loop (3 ticks) longer than the read (2).
* ProblemAdmin: two ids let one request undo while another succeeds; two
  failures let an undo fail. A submission meets all steps of both requests.
* JudgeEngine: one failure may strike any of the calls of any child, engine or
  cgroup; the second attempt then starts from what it left. Two cases are a
  first and a next one, `ExitCodes` are 0 and 127, which the engine tells apart
  by `stderr.txt`. Slots are interchangeable. Two jobs of one problem are the
  instance of `SharedStderr`.
* SandboxRun: ticks of 500 ms put the time limit (2 or 3), the deadline of the
  worker (+1), the wall limit of the engine (+2) and RLIMIT_CPU (rounded up to
  2 or 4, hard limit +2) at different instants; `Overrun` uses
  250 ms to have a limit between two seconds. `MaxTick` lies beyond all of them.

### Fairness

* `JobPipeline`: weak fairness for the tickers and loops of processes that run
  (dispatcher, handlers, read and reclaim loops, repair loop, process manager),
  for entries becoming idle and for back-offs; strong fairness for a lease
  nobody refreshes running out, since it can be disabled again and again by a
  reclaim in progress. Nothing is assumed of submissions or heartbeats, and
  failures are never forced.
* `JudgeTask`: a running call takes its next step, as its commands and MinIO
  requests have timeouts.
* `Submit`: requests run to their end and counters with a TTL expire. Nothing is
  assumed of the pipeline, which may leave a row processing (`lease_lost`): the
  part of LimitsAreTemporary about the cap has `PipelineEnds` as its hypothesis.
* `SlotPool`: the loops run, time passes, and every message ends some day (its
  execution has a deadline). Time passes only while both loops wait: the steps of
  a loop between two waits take none. The number of messages is finite, so a
  backlog ends.
* `SandboxRun`: time passes, the kernel enforces the hard cpu limit, and the Go
  runtime runs its goroutines. The engine and the program are not fair.

## 5. Proofs

Every theorem holds for all sets of jobs, workers, slots, requests and failure
kinds and for every failure budget, unless it names a hypothesis. The hypothesis
is a constant formula, the instance of the run that checks the property
satisfies it, and it excludes no more than it has to. TLC finds a counterexample
on a small instance for every failure that `Recoverable` excludes, alone or with
one recoverable failure beside it (`redis_xadd`, `slow_inspect` and
`slow_handler`), and for every failure that `KeysKept` excludes, alone
(`redis_enqueue` in the direct mode). A failed count breaks CapOvershoot from
three keys and three requests per user on. `StalePeak` is the
counterexample to LimitVerdictIsEarned without `PidsAreFresh`, `Slots` with Block = 4 the one to
SkippedOnlyWhenBusy. The four parts of `Undisturbed` and the two hypotheses of
JudgeEngine each have their row in the table of counterexamples above. Each inductive invariant was
checked with TLC before it was proved.

| Module | Theorems | Hypothesis |
|---|---|---|
| `JobPipelineProofs` | TypeOK, UniqueExecutor, TokenFromRow, JudgedByNewestAttempt, DoneIsFinal, DeliveredHasEntry, ImplementsLifecycle | |
| `RecoveryProofs` | NoOrphan, NeverPoisoned | `Recoverable` |
| `SlotPoolProofs` | TypeOK, SlotsConserved, SkippedOnlyWhenBusy | for the last, `Sleep + Block <= MaxWait` |
| `ProblemAdminProofs` | TypeOK, WholeOrNothing, JudgedByOwnCases | |
| `SubmitProofs` | TypeOK, AcceptedIsStored, OneLeftoverPerFailure, CapOvershoot, ToldJobExists, NoDuplicateWork | for CapOvershoot, the count works; for the last two, `KeysKept` |
| `SandboxRunProofs` | TypeOK, NothingLeftRunning, VerdictIsEarned | for the last, `PidsAreFresh` |
| `JudgeEngineProofs` | TypeOK, Isolated, NothingOutlivesEngine, NotRemovedInUse, SetupNeverBlocked, VerdictIsOwn | for the last two, `CompileCpuLimit <= CompileRealLimit`; for the last, `StderrIsOwn` |
| `JudgeTaskProofs` | TypeOK, TagNeverAhead, VerdictIsEarned | for the last, `Undisturbed` |

`JobPipelineProofs`. TypeOK is not inductive: a handler that is not free must
also name a job (`InFlightNamesJob`), so the invariant is
`TypeInv == TypeOK /\ InFlightNamesJob`. One lemma per group of actions
(handlers, worker starts and crashes, dispatchers, control plane, submissions)
shows that it is kept.

The fence needs one inductive invariant,

    FenceInv == TypeInv /\ RowInv /\ UniqueExecutor /\ TokenFromRow /\ SourceInv /\ ResultInv

RowInv ties state, owner, lease and attempt of a row together; SourceInv and
ResultInv say that a result key, and the result a handler is about to write,
come from an attempt that was handed out. They are needed because a finalize
may store the result an earlier attempt left in Redis. The argument reduces a
step of the whole pipeline to what it can do to a row (SubmissionChanges), to
the tokens (TokenChanges) and to the result keys (ResultChanges); attempts only
grow (AttemptMonotone), so tokens that are kept stay fenced and a new one is
larger than every token held for its job.

For the outbox `DeliveryInv` adds that a dispatcher about to mark an event has
added its entry, and that whatever a dispatcher or the due list names was
submitted; the stream only grows, so an entry that was added stays (as part of
the history, trimmed or not). The refinement takes every action of the pipeline
to the step of `JobLifecycle` it implements, or shows that row and tokens, as the
mapping sees them, do not change; FenceInv provides what the abstract guards ask
for (the token that finalizes is the newest, a takeover meets a lapsed lease).

`RecoveryProofs` proves that nothing is lost under `Recoverable`: no failure of
`LossyFaults` and no first boot. The excluded failures are the ones that lose jobs:
a failed or unanswered XADD, after which the dispatcher deletes a payload; errors
of GET and lost replies of XREADGROUP, which a handler takes for a missing
payload or never sees; an error or a crash before the first claim of an entry;
leases, inspections and handlers that are slower than their time; and keys and
entries that expire or are trimmed. What stays allowed, any number of times, are
crashes of workers and dispatchers between any other two calls, database errors on
every other statement, lost replies, failing reports, finalizes and
acknowledgements. The invariant says, beyond FenceInv and DeliveryInv, that every
listed job has its payload (`PayloadInv`), that the group skips no entry
(`PositionInv`), that an entry whose row nobody claimed is in the hands of one handler
(`UnclaimedInv`), that an execution which has not lost its lease still has it
(`LeaseInv`), and that the poison and reject paths are never taken.

`SlotPoolProofs` proves, for every pool size, batch size, stream and number of
failures, `Spec => []TypeOK`, `Spec => []SlotsConserved`, and
`Spec => SkippedOnlyWhenBusy` from the hypothesis `Sleep + Block <= MaxWait`, the
one that a longer read breaks. SlotsConserved is not inductive: a batch that is
delivered must be disjoint from the messages already in a goroutine, and a loop
that reserves must hold nothing yet. `Inv` adds to it that a loop holds slots only
between its reservation and its reply (`Reserved`), that goroutines of the reclaim
loop exist only while it waits for them, and that no message in a goroutine is
new to the group. That a reply fits in its reservation is the lemma FirstOnes:
the number of messages before a message tells the messages of a batch apart, so
the pigeonhole principle bounds the batch by the count that was asked for. The
action property rests on `Outwaits`: while the reclaim loop waits the channel is
empty, so Run cannot start a read, and the read that runs ends first.

`ProblemAdminProofs` rests on one observation: a creation works on an id of its
own that no client has been given, so what it writes or takes back concerns nobody
else (`ConfinedKeeps`). `ProblemInv` states it (`RequestInv`), together with what a
created problem keeps, deleted or not (`CreatedInv`), and to whom a row without an
object belongs (`HalfInv`). For JudgedByOwnCases, `SubmissionInv` follows the problem
id of a submission: the column holds it until the problem is deleted, and every
copy, in the hands of the repair loop, in the payload and in the task of the worker,
is the id itself, or 0 once the problem is deleted and the repair loop has been
involved. The created object it leads to is never touched again (CreatedIsKept).

`SubmitProofs` sorts the steps of a request by what they do to the rest
(`Shape`: wait, expire, end, arrive, or work, and of the last kind pass, quit, hit,
refer, store, enqueue) and shows each part of `SubmitInv` for every shape. The parts: a
request that has drawn an id is the only one with it (`HandlersInv`); what clients were
told, other than somebody else's id, no request touches any more (`ToldInv`); there are
always enough ids for the requests that have none (`IdsInv`, a statement about
cardinalities, which keeps the bound MaxJobs from hiding anything). CapOvershoot
counts the active jobs together with the requests past the count; without
the error of the count (`db_count`, after which the code lets the request pass). For the
dedupe key, `KeyInv` says that the key of an active, driven job names it and that
whatever a key names is stored or about to be. `KeysKept` excludes an error of SETNX
or GET, of the insert or of the enqueue, a crash between the key and the row, and a
key that expires before its job
or between SETNX and GET: each of them leaves a key without a job or a job
without a key. A crash anywhere else does no harm to the keys and stays allowed.

OneLeftoverPerFailure is an account: every step either adds nothing to the stuck rows
and counters, or adds one and has used up a failure (`Accounted`, one lemma per kind
of step). It needs that an id which is not stored yet has no row (`FreshInv`), and
the finiteness of both sets, so that the cardinalities can be compared.

`SandboxRunProofs` covers one call of Execute after another. `RunInv` consists of the
phases (`PhaseInv`: there is a program only between clone and reap), the line
(`LineInv`: one status per call, and nothing else comes through the pipe), what
the exit status of a zombie tells about its end (`DeathInv`), and that a status is
deserved from the moment it is made (`StatusInv`). That RLIMIT_CPU, rounded up to
seconds, is not below the limit of the submission is the lemma RoundedUp; that the
rules of the engine are right about a program that ended is ClassifyIsRight. The
memory limit needs more: a killed engine leaves its cgroup, so the peak the
engine reads is the program's own only while no pid comes back
(`PidsAreFresh == MaxRuns <= PidSpace`; `StalePeak` shows what happens otherwise).
Finished and Runtime Error need no hypothesis (ProgramVerdictsCorrect).

`JudgeEngineProofs`. A step of a call is first brought into one of a few shapes: what
it does to the call, engine, child, cgroup and directory of its own slot and job,
field by field (`Shape`); everything of other slots and jobs stays (`Frame`). The
invariants are then kept shape by shape, and build on each other:

* `EngineInv`: where engine, child and cgroup can be at the same time, and that what
  a child has done are the steps before its next one (`SetupOK`, but for the filter,
  which `seccomp = "off"` skips). RunOrder and CompileOrder say of every place in the
  two sequences of system calls what lies before it; that a program is confined, and
  that no call is made after the privilege for it is gone, follows from the place.
* `ShareInv` adds that attempts which share a directory know it (`SharedInv`), and
  what a call finds in a directory it has for itself (`DirInv`): the directory its
  child works in is still the one it was cloned in, what the child made is in it, a
  run finds an executable, and a directory with an executable comes from a program
  that compiles.
* `BlockedInv`: a child that could not get past a step of its set-up shares its
  directory. The only other step that a state of the machine can refuse is setrlimit
  of a compile, hence the hypothesis on the two limits.
* `VerdictInv`: a call that is alone and was not struck by a failure knows why its
  child ended, and each status it derives is deserved. Its weak point is the mark of a
  failed exec in `stderr.txt`, one file for all runs of a problem: `StderrIsOwn` says
  that jobs do not share a problem, or that no set-up fails and no attempts overlap.

`JudgeTaskProofs`. All ten steps of Prepare have one summary: the call moves on and
takes its followers along (`Advance`), it writes the files of its problem (`Wrote`), and
touchCache removes files, with room for everything only those that no call holds
(`Removed`). The list is kept as a relation, so that its being a list is a statement
about pairs (`IsList`) and not about indices.

* `TaskInv` is TypeOK and what a task and its call of Prepare know of each other.
* `TagInv` says of every place in Prepare how old the ETag may be that the call
  holds: not newer than the zip while it extracts, not newer than the extracted
  directory when it marks it. One call at a time unzips a problem, and only while the
  directory is not ready.
* `EarnedInv` says that a job has one attempt (`OneAttempt`), that the directory handed
  out by Prepare stays ready (`CasesStay`), so that no replacement reaches it, and that
  the program solves every case it has passed, in the version of that directory.

`Undisturbed` is `RoomForAll` (every set of entries fits into the cache) together
with no `slow_task`, no `overlap` and no `judge_compile` among the failures. That
the sizes of so many entries add up to so much is a sum over a set, which needs an
induction, so `RoomForAll` is the hypothesis and not a bound on CacheByteBudget; TLC
evaluated it on the instance of `judging`. MinIO and Redis errors, a full disk, failing
runs, crashes of the worker, entries of idle problems that expire and replaced
objects stay allowed, any number of times.

The assumptions are those of the modules: the sizes of a pool and its batches
are positive, requests and test cases are finitely many, `None` is no job, no problem
and no worker, limits are positive, the failure budget and the bounds are natural
numbers, at least one heartbeat retry. They are evaluated by TLC in every run.

Only model-checked are the liveness properties, since fairness and ENABLED are
outside the prover's reach: EventuallyDone, IdleIsReclaimed,
CallsEnd, LimitsAreTemporary and ExecuteReturns.

## 6. Not modelled

* `include/crow_all.h` and `include/picosha2.h`: third-party headers that no source
  file includes and no build target uses. They are 13031 of the 15953 lines of
  C and C++ in the repository, so a share of mapped lines taken over all of them
  stays small whatever is modelled; of the 2922 lines of the project's own C++ about
  seven in ten are mapped.
* What the kernel makes of a mount, a filter, a limit or a cgroup file: external.
  The lists of directories and files to mount are one of each; the rules of the
  seccomp filters are one step that is installed or refused.
* `judge_engine --self_test`, which the worker never uses, and the reading of the
  configuration file key by key (its values are constants, its failure is modelled).
* The second cgroup the worker itself puts around a command
  (`executor.go:340-473`): a best-effort second kill, after the one that is modelled.
* Deletion of delivered outbox events: nothing reads them.
* Authentication: checks local to one request.
* Configuration, metrics, logging, survey validation, worker discovery and the
  legacy guard: no protocol state.
* The lock file between worker processes on one workspace: one process per
  workspace is modelled.
