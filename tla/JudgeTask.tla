----------------------------- MODULE JudgeTask -----------------------------
(***************************************************************************)
(* JudgeService.ExecuteTask (src/go/internal/worker/judge.go) on one       *)
(* worker: prepare the test cases, save and compile the program, run it on *)
(* every case, compare, report.  The files it uses are shared: the         *)
(* unzipped cases by all tasks of a problem, the directories of the job by *)
(* all attempts of the job.                                                *)
(***************************************************************************)
EXTENDS TestcaseCache

CONSTANTS
    Jobs,
    ProblemOf,      \* ProblemOf[j]: the problem job j was submitted for
    Cases,          \* a problem's test cases, in the order of their names
    Programs        \* what may be submitted: does it compile, what does it solve

Versions == 1..MaxVersion

ASSUME JudgeAssumption ==
    /\ ProblemOf \in [Jobs -> Problems]
    /\ IsFiniteSet(Cases) /\ Cases \subseteq Nat \ {0}
    /\ Programs \subseteq [compiles : BOOLEAN, solves : SUBSET (Versions \X Cases)]

VARIABLES
    prog,       \* prog[j]: the program of job j
    task,       \* task[t]: one call of ExecuteTask
    jobDir,     \* jobs whose directory code/<job> exists (source, outputs)
    exeDir,     \* jobs whose sandbox directory holds a compiled program
    userOut     \* userOut[j]: the case whose output <case>.user.out answers

judgeVars == <<prog, task, jobDir, exeDir, userOut>>

vars == <<cacheVars, judgeVars, budget>>

NoCase == <<0, 0>>

Verdicts == {"none", "Accepted", "Wrong Answer", "Runtime Error", "Compile Error",
             "System Error"}

Idle == [pc |-> "free", job |-> None, todo |-> {}, verdict |-> "none"]

Live(t) == task[t].pc \notin {"free", "done", "dead"}

JudgeTypeOK ==
    /\ prog \in [Jobs -> Programs]
    /\ task \in [Tasks -> [pc : {"free", "prepare", "save", "compile", "glob", "exec",
                                 "compare", "report", "error", "done", "dead"},
                           job : Jobs \cup {None}, todo : SUBSET Cases, verdict : Verdicts]]
    /\ jobDir \subseteq Jobs
    /\ exeDir \subseteq Jobs
    /\ userOut \in [Jobs -> (Versions \X Cases) \cup {NoCase}]

Init ==
    /\ CacheInit
    /\ FaultsInit
    /\ prog \in [Jobs -> Programs]
    /\ task = [t \in Tasks |-> Idle]
    /\ jobDir = {}
    /\ exeDir = {}
    /\ userOut = [j \in Jobs |-> NoCase]

---------------------------------------------------------------------------
Job(t) == task[t].job

Dir(t) == disk[ProblemOf[Job(t)]].dir

Goto(t, pc) == task' = [task EXCEPT ![t].pc = pc]

Conclude(t, verdict) ==
    task' = [task EXCEPT ![t] = [@ EXCEPT !.pc = "report", !.verdict = verdict]]

\* reportError: the same report, but the sandbox is not cleaned up after it.
Fail(t, verdict) ==
    task' = [task EXCEPT ![t] = [@ EXCEPT !.pc = "error", !.verdict = verdict]]

\* A second attempt of a job runs beside the first only after a lost lease.
Begin(t, j) ==
    /\ ~Live(t)
    /\ IF \E u \in Tasks : Live(u) /\ Job(u) = j THEN Fault("overlap") ELSE NoFault
    /\ task' = [task EXCEPT ![t] = [Idle EXCEPT !.pc = "prepare", !.job = j]]
    /\ BeginPrepare(t, ProblemOf[j])
    /\ UNCHANGED <<prog, jobDir, exeDir, userOut>>

Preparing(t) ==
    /\ task[t].pc = "prepare"
    /\ PrepareStep(t)
    /\ UNCHANGED judgeVars

Prepared(t) ==
    /\ task[t].pc = "prepare"
    /\ \/ prep[t].pc = "ready" /\ Goto(t, "save")
       \/ prep[t].pc = "failed" /\ Fail(t, "System Error")
    /\ NoFault
    /\ UNCHANGED <<cacheVars, prog, jobDir, exeDir, userOut>>

SaveCodeIgnoresError(t) ==
    /\ task[t].pc = "save"
    /\ \/ jobDir' = jobDir \cup {Job(t)} /\ Goto(t, "compile") /\ NoFault
       \/ Fault("disk") /\ Goto(t, "compile") /\ UNCHANGED jobDir
    /\ UNCHANGED <<cacheVars, prog, exeDir, userOut>>

SaveCode(t) ==
    /\ task[t].pc = "save"
    /\ \/ jobDir' = jobDir \cup {Job(t)} /\ Goto(t, "compile") /\ NoFault
       \/ Fault("disk") /\ Fail(t, "System Error") /\ UNCHANGED jobDir
    /\ UNCHANGED <<cacheVars, prog, exeDir, userOut>>

\* Sandbox::Compile in the sandbox directory of the job: a failure, of the
\* compiler or of the sandbox, removes the directory.
SandboxCompile(j, ok) == exeDir' = IF ok THEN exeDir \cup {j} ELSE exeDir \ {j}

\* Whatever keeps Executor.Compile from its answer is a Compile Error: no
\* source, a program that does not compile, a sandbox that fails or is killed.
Compile(t) ==
    LET j == Job(t) IN
    /\ task[t].pc = "compile"
    /\ \/ /\ j \in jobDir
          /\ SandboxCompile(j, prog[j].compiles)
          /\ IF prog[j].compiles THEN Goto(t, "glob") ELSE Fail(t, "Compile Error")
          /\ NoFault
       \/ j \notin jobDir /\ Fail(t, "Compile Error") /\ NoFault /\ UNCHANGED exeDir
       \/ /\ Fault("judge_compile")
          /\ Fail(t, "Compile Error")
          /\ SandboxCompile(j, FALSE) \/ UNCHANGED exeDir
    /\ UNCHANGED <<cacheVars, prog, jobDir, userOut>>

\* The cases are what the directory holds now; none at all is no error.
Glob(t) ==
    /\ task[t].pc = "glob"
    /\ IF Dir(t) # 0 /\ Cases # {}
       THEN task' = [task EXCEPT ![t] = [@ EXCEPT !.todo = Cases, !.pc = "exec"]]
       ELSE Conclude(t, "Accepted")
    /\ NoFault
    /\ UNCHANGED <<cacheVars, prog, jobDir, exeDir, userOut>>

WriteSharedOutput(j, out) == userOut' = IF j \in jobDir THEN [i \in Jobs |-> out] ELSE userOut

\* The output goes to <case>.user.out in the directory of the job.
WriteOutput(j, out) == userOut' = IF j \in jobDir THEN [userOut EXCEPT ![j] = out] ELSE userOut

\* Executor.Execute: a missing executable is a System Error of the sandbox, a
\* missing input file is read as /dev/null, and the output is lost when the
\* job's directory is gone.  Runtime Error stands for every verdict of the
\* sandbox that a program can earn (TLE, MLE, OLE, RE).
Execute(t) ==
    LET j == Job(t)
        c == Min(task[t].todo)
        solved == Dir(t) # 0 /\ <<Dir(t), c>> \in prog[j].solves
    IN  /\ task[t].pc = "exec"
        /\ \/ /\ j \in exeDir
              /\ WriteOutput(j, IF solved THEN <<Dir(t), c>> ELSE NoCase)
              /\ Goto(t, "compare")
              /\ NoFault
           \/ /\ j \in exeDir /\ ~solved
              /\ Conclude(t, "Runtime Error")
              /\ NoFault
              /\ UNCHANGED userOut
           \/ j \notin exeDir /\ Conclude(t, "System Error") /\ NoFault /\ UNCHANGED userOut
           \/ Fault("judge_run") /\ Fail(t, "System Error") /\ UNCHANGED userOut
        /\ UNCHANGED <<cacheVars, prog, jobDir, exeDir>>

CompareLastOnly(t) ==
    LET j == Job(t)
        c == Min(task[t].todo)
        ok == userOut[j] = <<Dir(t), c>> \/ Cardinality(task[t].todo) > 1
    IN  /\ task[t].pc = "compare"
        /\ IF ~ok THEN Conclude(t, "Wrong Answer")
           ELSE IF task[t].todo = {c} THEN Conclude(t, "Accepted")
           ELSE task' = [task EXCEPT ![t] = [@ EXCEPT !.todo = task[t].todo \ {c}, !.pc = "exec"]]
        /\ NoFault
        /\ UNCHANGED <<cacheVars, prog, jobDir, exeDir, userOut>>

\* CompareFiles: a file that cannot be read does not match.
Compare(t) ==
    LET j == Job(t)
        c == Min(task[t].todo)
        ok == userOut[j] = <<Dir(t), c>>
    IN  /\ task[t].pc = "compare"
        /\ IF ~ok THEN Conclude(t, "Wrong Answer")
           ELSE IF task[t].todo = {c} THEN Conclude(t, "Accepted")
           ELSE task' = [task EXCEPT ![t] = [@ EXCEPT !.todo = task[t].todo \ {c}, !.pc = "exec"]]
        /\ NoFault
        /\ UNCHANGED <<cacheVars, prog, jobDir, exeDir, userOut>>

\* The deferred RemoveAll(jobDir) runs on every return after Prepare, the
\* sandbox's cleanup only after a result was reported.
Return(t, pc, cleanup) ==
    /\ task' = [task EXCEPT ![t].pc = pc]
    /\ prep' = [prep EXCEPT ![t] = NotPreparing]
    /\ IF prep[t].pc = "ready"
       THEN /\ jobDir' = jobDir \ {Job(t)}
            /\ userOut' = [userOut EXCEPT ![Job(t)] = NoCase]
       ELSE UNCHANGED <<jobDir, userOut>>
    /\ exeDir' = IF cleanup THEN exeDir \ {Job(t)} ELSE exeDir
    /\ UNCHANGED <<remote, disk, lru, entry, prog>>

Report(t) ==
    /\ task[t].pc \in {"report", "error"}
    /\ \/ Return(t, "done", task[t].pc = "report") /\ NoFault
       \/ Fault("redis") /\ Return(t, "dead", FALSE)

\* The heartbeat of an attempt that was taken over cancels its context: the
\* sandbox is killed and nothing can be reported any more.
Cancel(t) ==
    /\ task[t].pc \in {"save", "compile", "glob", "exec", "compare", "report", "error"}
    /\ \E u \in Tasks \ {t} : Live(u) /\ Job(u) = Job(t)
    /\ Return(t, "dead", FALSE)
    /\ NoFault

\* The worker process dies and is started again.
Restart ==
    /\ \E t \in Tasks : Live(t)
    /\ Fault("crash")
    /\ RestartCache
    /\ task' = [t \in Tasks |-> IF Live(t) THEN [task[t] EXCEPT !.pc = "dead"] ELSE task[t]]
    /\ UNCHANGED <<prog, jobDir, exeDir, userOut>>

TaskStep(t) ==
    \/ Preparing(t) \/ Prepared(t) \/ SaveCode(t) \/ Compile(t) \/ Glob(t)
    \/ Execute(t) \/ Compare(t) \/ Report(t)

Next ==
    \/ \E t \in Tasks : TaskStep(t) \/ Cancel(t) \/ \E j \in Jobs : Begin(t, j)
    \/ Restart
    \/ \E p \in Problems : ReplaceObject(p) /\ UNCHANGED judgeVars

Spec == Init /\ [][Next]_vars

\* A running call goes on: its commands and MinIO requests have timeouts.
FairSpec == Spec /\ \A t \in Tasks : WF_vars(TaskStep(t) /\ NoFault)

---------------------------------------------------------------------------
\* Every problem is in the list at one place at most.
IsList(list) ==
    LET S == Listed(list) IN
    /\ list \subseteq S \X S
    /\ \A p, q \in S : <<p, q>> \in list \/ <<q, p>> \in list
    /\ \A p, q \in S : <<p, q>> \in list /\ <<q, p>> \in list => p = q
    /\ \A p, q, r \in S : <<p, q>> \in list /\ <<q, r>> \in list => <<p, r>> \in list

(* Types, and the list and its map agree: the LRU list holds every problem *)
(* at most once and exactly those with an entry (cacheList and cacheMap).  *)
TypeOK ==
    /\ CacheTypeOK
    /\ JudgeTypeOK
    /\ budget \in Nat
    /\ IsList(lru)
    /\ \A p \in Problems : p \in Listed(lru) <=> entry[p] # NoEntry

(* A program is Accepted only if it solves every case of some version of   *)
(* the test data: no case is skipped, whatever other tasks, restarts and   *)
(* MinIO failures do meanwhile, as long as its cases stay in the cache.    *)
AcceptedIsEarned ==
    \A t \in Tasks : task[t].verdict = "Accepted" =>
        \E v \in Versions : {v} \X Cases \subseteq prog[Job(t)].solves

(* A program is told Wrong Answer or Runtime Error only if there is a case *)
(* it does not solve: files that others delete or replace never count      *)
(* against it.                                                             *)
RejectionIsEarned ==
    \A t \in Tasks : task[t].verdict \in {"Wrong Answer", "Runtime Error"} =>
        ~ (Versions \X Cases \subseteq prog[Job(t)].solves)

(* Compile Error means that the source is at fault.                        *)
CompileErrorIsEarned ==
    \A t \in Tasks : task[t].verdict = "Compile Error" => ~prog[Job(t)].compiles

(* The program alone decides its verdict, for it and against it, whatever  *)
(* other tasks, restarts and failing services do meanwhile, as long as its *)
(* cases stay in the cache and its job has one attempt at a time.          *)
VerdictIsEarned == AcceptedIsEarned /\ RejectionIsEarned /\ CompileErrorIsEarned

(* The ETag beside a zip, or in a ready directory, is never newer than the *)
(* data it stands for: old data never passes for the current one, even     *)
(* when a restart falls between the two writes.                            *)
TagNeverAhead ==
    \A p \in Problems :
        /\ disk[p].zip # 0 => disk[p].tag <= disk[p].zip
        /\ disk[p].ready => disk[p].dir # 0 /\ disk[p].rtag <= disk[p].dir

(* Prepare hands out the test data it has just downloaded, or newer.       *)
PreparedIsCurrent ==
    \A t \in Tasks : prep[t].pc = "ready" => disk[prep[t].prob].dir >= prep[t].tag

(* When no task runs, what the cache has left on the disk is within the    *)
(* byte budget.                                                            *)
DiskWithinBudget ==
    (\A t \in Tasks : ~Live(t)) =>
        MapThenSumSet(LAMBDA p : EntrySize(disk[p], [zip |-> TRUE, dir |-> TRUE]), Problems)
            <= CacheByteBudget

(* Every call ends: a task that shares the download or the unzip of        *)
(* another one is told its result, also when that one fails.               *)
CallsEnd == \A t \in Tasks : Live(t) ~> ~Live(t)
=============================================================================
