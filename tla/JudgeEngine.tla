----------------------------- MODULE JudgeEngine -----------------------------
(***************************************************************************)
(* judge_engine from its arguments to its line on standard output, as the  *)
(* worker calls it: once to compile a job, once per test case, once to     *)
(* clean up.  Several calls run at once, each in a slot of the worker, on  *)
(* directories and files that they share: the directory of a job, which a  *)
(* second attempt of the job uses too, and stderr.txt in the directory of  *)
(* the test cases, which every run for the problem uses.  Times and        *)
(* verdicts of limits are the subject of SandboxRun; here a limit may hit  *)
(* at any time.                                                            *)
(***************************************************************************)
EXTENDS CgroupManager

CONSTANTS
    Problems, ProblemOf,   \* the problem of every job
    ExitCodes,             \* what programs pass to exit()
    Cases,                 \* test cases per problem
    MaxAttempts            \* bound: attempts of a job

ASSUME EngineAssumption ==
    /\ ProblemOf \in [Jobs -> Problems]
    /\ ExitCodes \subseteq 0..255 /\ Cases \in Nat \ {0} /\ MaxAttempts \in Nat

VARIABLES
    valid,      \* jobs whose source compiles
    attempts,   \* attempts[j]: the last attempt_id of job j
    task,       \* task[s]: the call of ExecuteTask in slot s
    engine,     \* engine[s]: the judge_engine process of slot s
    errfile     \* problems whose stderr.txt holds the mark of a failed exec

engineVars == <<valid, attempts, task, engine, errfile>>

vars == <<childVars, cgroupVars, engineVars, budget>>

NoTask == [phase |-> "idle", job |-> CHOOSE j \in Jobs : TRUE, attempt |-> 0, left |-> 0,
           shared |-> FALSE, verdict |-> "none"]

NoLine == [form |-> "none", status |-> "none", job |-> CHOOSE j \in Jobs : TRUE, attempt |-> 0]

NoEngine == [pc |-> "none", committed |-> FALSE, status |-> "none", line |-> NoLine]

Init ==
    /\ ChildInit /\ CgroupInit /\ FaultsInit
    /\ valid \in SUBSET Jobs
    /\ attempts = [j \in Jobs |-> 0]
    /\ task = [s \in Slots |-> NoTask]
    /\ engine = [s \in Slots |-> NoEngine]
    /\ errfile = {}

Job(s) == task[s].job

Problem(s) == ProblemOf[Job(s)]

Goes(s, pc) == engine' = [engine EXCEPT ![s].pc = pc]

\* The rest of main is to report status.
Returns(s, pc, status) == engine' = [engine EXCEPT ![s].pc = pc, ![s].status = status]

Unhit == NoFault /\ UNCHANGED hit

Hit(s, kind) == Fault(kind) /\ hit' = hit \cup {s}

---------------------------------------------------------------------------
(* ExecuteTask *)

\* A second attempt of a job that still runs comes from a lost lease.
Begin(s, j) ==
    LET others == {o \in Slots \ {s} : task[o].phase \notin {"idle", "done"} /\ Job(o) = j}
    IN  /\ task[s].phase \in {"idle", "done"}
        /\ attempts[j] < MaxAttempts
        /\ IF others = {} THEN NoFault ELSE Fault("overlap")
        /\ attempts' = [attempts EXCEPT ![j] = @ + 1]
        /\ task' = [o \in Slots |->
                      IF o = s THEN [NoTask EXCEPT !.phase = "compile", !.job = j, !.left = Cases,
                                         !.attempt = attempts[j] + 1, !.shared = others # {}]
                      ELSE IF o \in others THEN [task[o] EXCEPT !.shared = TRUE] ELSE task[o]]
        /\ child' = [child EXCEPT ![s] = NoChild]
        /\ hit' = hit \ {s}
        /\ UNCHANGED <<valid, engine, errfile, dir, hostMounts, seccomp, cgroupVars>>

\* The options the executor passes in each phase.
Options(phase) ==
    CASE phase = "compile" -> {"compile", "s", "r", "C"}
      [] phase = "run" -> {"c", "i", "o", "t", "m", "C", "w", "job_id", "attempt_id"}
      [] phase = "cleanup" -> {"cleanup", "r", "C"}

Start(s) ==
    /\ task[s].phase \in {"compile", "run", "cleanup"}
    /\ engine[s].pc = "none"
    /\ engine' = [engine EXCEPT ![s] = [NoEngine EXCEPT !.pc = "main"]]
    /\ Unhit
    /\ UNCHANGED <<valid, attempts, task, errfile, child, dir, hostMounts, seccomp, cgroupVars>>

\* The deadline of the command, or a cancelled attempt: SIGKILL to the group.
Kill(s) ==
    /\ engine[s].pc \notin {"none", "exited", "killed"}
    /\ Hit(s, "deadline")
    /\ Goes(s, "killed")
    /\ child' = IF child[s].st \in {"setup", "program", "zombie"}
                THEN Ended(s, "gone", -1, "killed") ELSE child
    /\ UNCHANGED <<valid, attempts, task, errfile, dir, hostMounts, seccomp, cgroupVars>>

\* parseAndValidateJudgeOutput: a line of a run that carries the ids of the call.
Accepts(s, line) ==
    line.form = "run" /\ line.job = Job(s) /\ line.attempt = task[s].attempt

\* The call of ExecuteTask goes on with, or ends with, what is in new.
Continues(s, new) == task' = [task EXCEPT ![s] = new]

\* A compile that gives no executable ends the call, without a clean-up.
CompileReturns(s) ==
    /\ task[s].phase = "compile"
    /\ Continues(s, IF engine[s].line.status = "Compiled" THEN [task[s] EXCEPT !.phase = "run"]
                    ELSE [task[s] EXCEPT !.phase = "done", !.verdict = "Compile Error"])
    /\ Unhit

\* A line that is not accepted ends the call, without a clean-up.
RunRejected(s) ==
    /\ task[s].phase = "run" /\ ~Accepts(s, engine[s].line)
    /\ Continues(s, [task[s] EXCEPT !.phase = "done", !.verdict = "System Error"])
    /\ Unhit

\* The output is as expected and there is another test case.
NextCase(s) ==
    /\ task[s].phase = "run" /\ Accepts(s, engine[s].line)
    /\ engine[s].line.status = "Finished" /\ task[s].left > 1
    /\ Continues(s, [task[s] EXCEPT !.left = @ - 1])
    /\ Unhit

\* The last test case, or the first that is not passed, which a Finished one
\* may be too.  When the result cannot be reported there is no clean-up.
Report(s) ==
    LET t == [task[s] EXCEPT !.verdict = engine[s].line.status]
    IN  /\ task[s].phase = "run" /\ Accepts(s, engine[s].line)
        /\ \/ Unhit /\ Continues(s, [t EXCEPT !.phase = "cleanup"])
           \/ Hit(s, "report") /\ Continues(s, [t EXCEPT !.phase = "done"])

CleanupReturns(s) ==
    /\ task[s].phase = "cleanup"
    /\ Continues(s, [task[s] EXCEPT !.phase = "done"])
    /\ Unhit

\* What ExecuteTask makes of the line.
GoReturns(s) ==
    /\ engine[s].pc \in {"exited", "killed"}
    /\ CompileReturns(s) \/ RunRejected(s) \/ NextCase(s) \/ Report(s) \/ CleanupReturns(s)
    /\ engine' = [engine EXCEPT ![s] = NoEngine]
    /\ UNCHANGED <<valid, attempts, errfile, child, dir, hostMounts, seccomp, cgroupVars>>

---------------------------------------------------------------------------
(* main *)

\* The order in which main looks at its options.
Dispatch(opts) ==
    CASE "self_test" \in opts -> "self_test"
      [] "self_test" \notin opts /\ "cleanup" \in opts -> "remove"
      [] opts \cap {"self_test", "cleanup"} = {} /\ opts \cap {"compile", "s"} # {} -> "prepare"
      [] OTHER -> IF {"c", "i", "o", "job_id", "attempt_id"} \subseteq opts THEN "clone"
                  ELSE "emit"

\* The options of a run are what makes main answer with the line of a run.
Form(opts) == IF opts \cap {"c", "i", "o"} # {} THEN "run" ELSE "plain"

\* LoadConfig ends the process when the file is missing, is no YAML or lacks
\* a node, and so does a compile that cannot open its source: no line is printed.
LoadConfigFails(s) ==
    /\ engine[s].pc = "main"
    /\ Hit(s, "config")
    /\ Goes(s, "exited")
    /\ UNCHANGED <<valid, attempts, task, errfile, child, dir, hostMounts, seccomp, cgroupVars>>

\* ValidateConfig: the workspace and the compiler must be there.
ValidateConfigFails(s) ==
    /\ engine[s].pc = "main"
    /\ Hit(s, "workspace")
    /\ Returns(s, "emit", "System Error")
    /\ UNCHANGED <<valid, attempts, task, errfile, child, dir, hostMounts, seccomp, cgroupVars>>

Main(s) ==
    /\ engine[s].pc = "main"
    /\ Goes(s, Dispatch(Options(task[s].phase)))
    /\ Unhit
    /\ UNCHANGED <<valid, attempts, task, errfile, child, dir, hostMounts, seccomp, cgroupVars>>

\* EmitJSONLine: a run's line carries the ids main was given.
Emit(s) ==
    /\ engine[s].pc = "emit"
    /\ engine' = [engine EXCEPT ![s].pc = "exited",
                    ![s].line = [form |-> Form(Options(task[s].phase)), status |-> engine[s].status,
                                 job |-> Job(s), attempt |-> task[s].attempt]]
    /\ Unhit
    /\ UNCHANGED <<valid, attempts, task, errfile, child, dir, hostMounts, seccomp, cgroupVars>>

---------------------------------------------------------------------------
(* Sandbox::Compile and Sandbox::Cleanup *)

Remove(d) == [NoDir EXCEPT !.gen = d.gen + 1]

\* The directory is made, or found, gets the source and is handed to run_uid.
\* An error of making it is noted only: whether Compile goes on depends on
\* whether the source can be written.  The guard that removes the directory is
\* made after that: a failure up to here leaves it, as far as it came.
Prepare(s) ==
    /\ engine[s].pc = "prepare"
    /\ \/ /\ Unhit \/ (dir[Job(s)].exists /\ Hit(s, "prepare"))
          /\ dir' = [dir EXCEPT ![Job(s)].exists = TRUE, ![Job(s)].mode = "700"]
          /\ Goes(s, "clone")
       \/ /\ Hit(s, "prepare")
          /\ dir' \in {dir, [dir EXCEPT ![Job(s)].exists = TRUE]}
          /\ Returns(s, "emit", "Compile Error")
    /\ UNCHANGED <<valid, attempts, task, errfile, child, hostMounts, seccomp, cgroupVars>>

GuardBeforeReap(s) ==
    /\ engine[s].pc = "reap"
    /\ Goes(s, "emit")
    /\ dir' = IF task[s].phase = "compile" /\ ~engine[s].committed
              THEN [dir EXCEPT ![Job(s)] = Remove(@)] ELSE dir
    /\ Unhit
    /\ UNCHANGED <<valid, attempts, task, errfile, child, hostMounts, seccomp, cgroupVars>>

\* The destructor of DirectoryGuard, the last to run: the directory of a
\* failed compile goes, unless its removal fails.
Guard(s) ==
    /\ engine[s].pc = "guard"
    /\ Goes(s, "emit")
    /\ \/ Unhit /\ dir' = IF engine[s].committed THEN dir ELSE [dir EXCEPT ![Job(s)] = Remove(@)]
       \/ ~engine[s].committed /\ Hit(s, "remove") /\ UNCHANGED dir
    /\ UNCHANGED <<valid, attempts, task, errfile, child, hostMounts, seccomp, cgroupVars>>

\* A removal that fails is only logged.
Cleanup(s) ==
    /\ engine[s].pc = "remove"
    /\ Returns(s, "emit", "Cleaned")
    /\ \/ Unhit /\ dir' = IF dir[Job(s)].exists THEN [dir EXCEPT ![Job(s)] = Remove(@)] ELSE dir
       \/ Hit(s, "remove") /\ UNCHANGED dir
    /\ UNCHANGED <<valid, attempts, task, errfile, child, hostMounts, seccomp, cgroupVars>>

---------------------------------------------------------------------------
(* Sandbox::Run, and what Compile shares with it *)

\* stderr.txt is truncated when Run opens it.
Clone(s) ==
    /\ engine[s].pc = "clone"
    /\ errfile' = IF task[s].phase = "run" THEN errfile \ {Problem(s)} ELSE errfile
    /\ \/ /\ Unhit
          /\ child' = [child EXCEPT ![s] = [NoChild EXCEPT !.kind = task[s].phase, !.job = Job(s),
                                                           !.gen = dir[Job(s)].gen, !.st = "setup"]]
          /\ Goes(s, IF task[s].phase = "run" /\ GetCgroup2MountRoot # "" THEN "create" ELSE "poll")
       \/ /\ Hit(s, "clone")
          /\ IF task[s].phase = "run" THEN Returns(s, "emit", "System Error")
             ELSE Returns(s, "guard", "Compile Error")
          /\ UNCHANGED child
    /\ group' = [group EXCEPT ![s] = NoGroup]
    /\ UNCHANGED <<valid, attempts, task, dir, hostMounts, seccomp, delegated>>

\* The cgroup is set up while the child already runs; without one the run
\* goes on with its rlimits.
Group(s) ==
    /\ \/ engine[s].pc = "create" /\ Create(s)
            /\ Goes(s, IF group'[s].created THEN "limits" ELSE "poll")
       \/ engine[s].pc = "limits" /\ SetLimits(s) /\ Goes(s, "join")
       \/ engine[s].pc = "join" /\ AddProcess(s) /\ Goes(s, "poll")
    /\ UNCHANGED <<valid, attempts, task, errfile>>

ByExitCodeNoMarker(s, code) ==
    CASE code = 0 -> "Finished"
      [] code > 119 -> "System Error"
      [] OTHER -> "Runtime Error"

\* The mark of a failed exec is looked for in the file of standard error.
ReadRunExecFailureMarker(s) == Problem(s) \in errfile

ByExitCode(s, code) ==
    CASE code = 0 -> "Finished"
      [] code = 127 -> IF ReadRunExecFailureMarker(s) THEN "System Error" ELSE "Runtime Error"
      [] code > 119 /\ code # 127 -> "System Error"
      [] OTHER -> "Runtime Error"

\* The poll loop finds the child ended.
Reap(s) ==
    /\ engine[s].pc = "poll"
    /\ child[s].st = "zombie"
    /\ child' = [child EXCEPT ![s].st = "gone"]
    /\ LET compiled == child[s].code = 0
       IN  engine' = [engine EXCEPT ![s] =
             IF task[s].phase = "run"
             THEN [@ EXCEPT !.pc = "destroy", !.status = ByExitCode(s, child[s].code)]
             ELSE [@ EXCEPT !.pc = "reap", !.committed = compiled,
                            !.status = IF compiled THEN "Compiled" ELSE "Compile Error"]]
    /\ Unhit
    /\ UNCHANGED <<valid, attempts, task, errfile, dir, hostMounts, seccomp, cgroupVars>>

\* The poll loop gives up: the wall clock limit, or an error of wait4, after
\* which the child may still run.
PollFails(s) ==
    /\ engine[s].pc = "poll"
    /\ \/ /\ child[s].st # "zombie"
          /\ IF task[s].phase = "compile" THEN Hit(s, "slow") ELSE Unhit
          /\ child' = Ended(s, "gone", -1, "killed")
          /\ IF task[s].phase = "run" THEN Returns(s, "destroy", "Time Limit Exceeded")
             ELSE Returns(s, "reap", "Compile Error")
       \/ /\ Hit(s, "wait4")
          /\ UNCHANGED child
          /\ IF task[s].phase = "run" THEN Returns(s, "destroy", "System Error")
             ELSE Returns(s, "reap", "Compile Error")
    /\ UNCHANGED <<valid, attempts, task, errfile, dir, hostMounts, seccomp, cgroupVars>>

\* Leaving Run: the destructor of the cgroup, then that of ProcessGuard.
Unwind(s) ==
    /\ engine[s].pc = "destroy"
    /\ Destroy(s)
    /\ Goes(s, "reap")
    /\ UNCHANGED <<valid, attempts, task, errfile>>

\* What has ended is reaped, what still runs is killed first.
ProcessGuard(s) ==
    /\ engine[s].pc = "reap"
    /\ Goes(s, IF task[s].phase = "compile" THEN "guard" ELSE "emit")
    /\ child' = CASE child[s].st \in {"setup", "program"} ->
                       Ended(s, "gone", -1, "killed")
                  [] child[s].st = "zombie" -> [child EXCEPT ![s].st = "gone"]
                  [] OTHER -> child
    /\ Unhit
    /\ UNCHANGED <<valid, attempts, task, errfile, dir, hostMounts, seccomp, cgroupVars>>

\* The steps of the child; one whose exec fails writes a mark to its stderr.
ExitRunExecError(s) ==
    errfile' = IF child[s].st = "setup" /\ child'[s].st = "zombie" /\ child[s].kind = "run"
                  /\ StepOf(s) = "exec"
               THEN errfile \cup {ProblemOf[child[s].job]} ELSE errfile

Child(s) ==
    /\ \/ Setup(s)
       \/ Compiler(s, child[s].job \in valid)
       \/ \E c \in ExitCodes : User(s, c)
       \/ UserWrites(s)
    /\ ExitRunExecError(s)
    /\ UNCHANGED <<valid, attempts, task, engine, cgroupVars>>

Engine(s) ==
    \/ LoadConfigFails(s) \/ ValidateConfigFails(s) \/ Main(s) \/ Emit(s)
    \/ Prepare(s) \/ Guard(s) \/ Cleanup(s)
    \/ Clone(s) \/ Group(s) \/ Reap(s) \/ PollFails(s) \/ Unwind(s) \/ ProcessGuard(s)

Next ==
    \E s \in Slots :
        \/ \E j \in Jobs : Begin(s, j)
        \/ Start(s) \/ Kill(s) \/ GoReturns(s)
        \/ Engine(s)
        \/ Child(s)

Spec == Init /\ [][Next]_vars

---------------------------------------------------------------------------
(* Types. *)
TypeOK ==
    /\ ChildTypeOK /\ CgroupTypeOK /\ budget \in Nat
    /\ valid \subseteq Jobs /\ attempts \in [Jobs -> 0..MaxAttempts] /\ errfile \subseteq Problems
    /\ task \in [Slots -> [phase : {"idle", "compile", "run", "cleanup", "done"}, job : Jobs,
                           attempt : Nat, left : 0..Cases, shared : BOOLEAN,
                           verdict : {"none", "Compile Error", "System Error", "Finished",
                                      "Runtime Error", "Time Limit Exceeded"}]]
    /\ \A s \in Slots : engine[s].pc \in {"none", "main", "prepare", "clone", "create", "limits", "join",
                                 "poll", "destroy", "reap", "guard", "remove", "emit", "exited", "killed"}

Alive(s) == child[s].st \in {"setup", "program"}

(* Fail closed: whichever step of the set-up the kernel refuses, compiler  *)
(* and program run only behind the whole of the isolation.                 *)
Confined ==
    \A s \in Slots : child[s].st = "program" =>
        /\ {"close_fds", "pivot", "umount_old", "lib_ro", "rlimit_cpu", "rlimit_as", "rlimit_fsize",
            "setgroups", "setgid", "setuid", "no_new_privs"} \subseteq child[s].done
        /\ child[s].kind = "run" => {"proc_ro", "rlimit_nproc"} \subseteq child[s].done
        /\ "seccomp" \in child[s].done \/ (child[s].kind = "run" /\ seccomp = "off")

(* No mount of a sandbox is seen by the host: the tree is private before   *)
(* the first one is made, also in a child that fails or is killed half-way.*)
HostUntouched == hostMounts = {}

(* The set-up never stands in its own way: in whatever state earlier       *)
(* compiles, runs, failures and kills have left the directory of the job,  *)
(* a child gets through, unless another attempt works on it too.           *)
SetupNeverBlocked ==
    \A s \in Slots : child[s].cause = "blocked" /\ child[s].job = Job(s) => task[s].shared

(* The verdict of a job is that of its own program: failures met by other  *)
(* calls, or by earlier attempts of the job, do not show in it.  (Exit     *)
(* codes above 119 are taken for failures of the sandbox.)                 *)
VerdictIsOwn ==
    \A s \in Slots :
        LET own(codes) == child[s].cause = "self" /\ child[s].code \in codes
        IN  ~task[s].shared /\ s \notin hit =>
              /\ task[s].verdict = "Compile Error" => Job(s) \notin valid
              /\ task[s].verdict = "Finished" => Job(s) \in valid /\ own({0})
              /\ task[s].verdict = "Runtime Error" => own({-1, 127} \cup 1..119)
              /\ task[s].verdict = "System Error" => own(120..255 \ {127})

(* When judge_engine has ended, its child is reaped and its cgroup is      *)
(* gone, on every path out of Run and Compile, unless the kernel has       *)
(* refused to remove it; a compile that failed has taken its directory     *)
(* along, unless a failure struck the call itself.                         *)
NothingOutlivesEngine ==
    \A s \in Slots :
        /\ engine[s].pc \in {"exited", "killed"} => child[s].st \in {"none", "gone"}
        /\ engine[s].pc = "exited" => ~group[s].exists \/ group[s].held \/ task[s].phase # "run"
        /\ engine[s].line.status = "Compile Error" /\ s \notin hit /\ ~task[s].shared =>
             ~dir[Job(s)].exists

(* A program never changes the directory it was started from, in which the *)
(* next test case finds the executable, with and without the filter.       *)
DirectoryUntouched == \A j \in Jobs : ~dir[j].tampered

(* A program is shut in on every path through the set-up: it runs behind   *)
(* the whole of the isolation, and neither the host nor the directory of   *)
(* its job changes under it.                                               *)
Isolated == Confined /\ HostUntouched /\ DirectoryUntouched

(* No directory is removed under a live process of its job.                *)
NotRemovedInUse ==
    [][\A s \in Slots : Alive(s) /\ ~task[s].shared =>
          dir'[child[s].job].gen = dir[child[s].job].gen]_vars
=============================================================================
