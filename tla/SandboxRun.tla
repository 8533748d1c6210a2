----------------------------- MODULE SandboxRun -----------------------------
(***************************************************************************)
(* One test case of one submission: Executor.Execute on the Go side starts *)
(* judge_engine in a process group of its own, the engine (Sandbox::Run)   *)
(* clones the program into namespaces, limits it, polls it, classifies its *)
(* end and prints one JSON line; Execute drains the pipe, waits, and kills *)
(* the group when its deadline passes.  Program, engine, the two goroutines*)
(* of Execute and the clock interleave.  Time is counted in ticks, memory  *)
(* and output in units.                                                    *)
(***************************************************************************)
EXTENDS Integers, Faults

CONSTANTS
    Second,         \* ticks in a second
    Limits,         \* the limits a submission may ask for: ticks and memory
    TimeoutBuffer,  \* ExecTimeoutBufferMs, in ticks
    OutLimit,       \* max_output_size
    OutBuffer,      \* output_buffer_size: how far RLIMIT_FSIZE is above it
    ExitCodes,      \* what programs pass to exit()
    PidSpace,       \* the kernel hands out pids in a cycle of this length
    MaxRuns,        \* bound: calls of Execute
    MaxTick         \* bound: ticks in one call

ASSUME SandboxAssumption ==
    /\ Second \in Nat \ {0}
    /\ Limits \subseteq [time : Nat \ {0}, mem : Nat \ {0}]
    /\ TimeoutBuffer \in Nat /\ OutLimit \in Nat /\ OutBuffer \in Nat \ {0}
    /\ ExitCodes \subseteq 0..255
    /\ PidSpace \in Nat \ {0} /\ MaxRuns \in Nat /\ MaxTick \in Nat

VARIABLES
    call,     \* Execute: "idle", "running", "returned"; the limits it was given
    now,      \* ticks since Execute made its deadline
    engine,   \* the judge_engine process
    prog,     \* the user's program, and what it did
    pipe,     \* the engine's standard output
    groups    \* groups[p]: memory.peak of the cgroup run_<p>, NoGroup if there is none

vars == <<call, now, engine, prog, pipe, groups, budget>>

NoGroup == -1

Pids == 1..PidSpace

Statuses == {"Finished", "Time Limit Exceeded", "Memory Limit Exceeded",
             "Output Limit Exceeded", "Runtime Error", "System Error"}

Signals == {"SIGXCPU", "SIGKILL", "SIGXFSZ", "SIGABRT", "SIGFPE"}

\* How a process ended: an exit code or a signal.
Exited(c) == [code |-> c, signal |-> "none"]

Signaled(s) == [code |-> 0, signal |-> s]

NoProgram == [st |-> "none", cpu |-> 0, mem |-> 0, out |-> 0, marker |-> FALSE,
              end |-> Exited(0), cause |-> "none"]

NoEngine == [pc |-> "none", pid |-> 1, start |-> 0, cgroup |-> FALSE, base |-> 0,
             status |-> "none"]

NoPipe == [written |-> "none", read |-> "none", open |-> TRUE]

Init ==
    /\ call = [st |-> "idle", limit |-> [time |-> 1, mem |-> 1], n |-> 0, result |-> "none"]
    /\ now = 0
    /\ engine = NoEngine
    /\ prog = NoProgram
    /\ pipe = NoPipe
    /\ groups = [p \in Pids |-> NoGroup]
    /\ FaultsInit

---------------------------------------------------------------------------
(* The limits the kernel enforces for the program. *)

\* RLIMIT_CPU, rounded up to seconds, and the hard limit a second later.
CpuSoft == Second * ((call.limit.time + Second - 1) \div Second)

CpuHard == CpuSoft + Second

\* Memory charged to the program's cgroup since it was put there.
Peak(p, e) == IF p.mem - e.base > groups[e.pid] THEN p.mem - e.base ELSE groups[e.pid]

Running == prog.st = "running"

Dies(end, cause) ==
    /\ prog' = [prog EXCEPT !.st = "zombie", !.end = end, !.cause = cause]
    /\ NoFault
    /\ UNCHANGED <<call, now, engine, pipe, groups>>

---------------------------------------------------------------------------
(* Execute: start the command *)

Execute(limit) ==
    /\ call.st # "running"
    /\ call.n < MaxRuns
    /\ call' = [st |-> "running", limit |-> limit, n |-> call.n + 1, result |-> "none"]
    /\ now' = 0
    /\ engine' = [NoEngine EXCEPT !.pc = "open"]
    /\ prog' = NoProgram
    /\ pipe' = NoPipe
    /\ NoFault
    /\ UNCHANGED groups

---------------------------------------------------------------------------
(* judge_engine: Sandbox::Run *)

RunReturns(status) == engine' = [engine EXCEPT !.pc = "destroy", !.status = status]

\* The files are opened (a missing one is replaced by /dev/null) and the
\* program is cloned, in the engine's process group.
Clone ==
    /\ engine.pc = "open"
    /\ \/ /\ engine' = [engine EXCEPT !.pc = "cgroup", !.pid = 1 + ((call.n - 1) % PidSpace)]
          /\ prog' = [prog EXCEPT !.st = "setup"]
          /\ NoFault
       \/ Fault("clone") /\ RunReturns("System Error") /\ UNCHANGED prog
    /\ UNCHANGED <<call, now, pipe, groups>>

\* The child isolates and limits itself, drops its privileges and becomes
\* the program; a step that fails ends it with a code of its own.
RunChildFn ==
    /\ prog.st = "setup"
    /\ \/ prog' = [prog EXCEPT !.st = "running"] /\ NoFault
       \/ /\ Fault("setup")
          /\ prog' = [prog EXCEPT !.st = "zombie", !.end = Exited(199), !.cause = "setup"]
       \/ /\ Fault("dup2")
          /\ prog' = [prog EXCEPT !.st = "zombie", !.end = Exited(101), !.cause = "redirect"]
       \/ /\ Fault("exec")
          /\ prog' = [prog EXCEPT !.st = "zombie", !.end = Exited(127), !.cause = "setup",
                                  !.marker = TRUE]
    /\ UNCHANGED <<call, now, engine, pipe, groups>>

\* The cgroup run_<pid> is made, or found, while the child is already on its
\* way; without cgroups the run goes on with rlimits alone.
SetupCgroup ==
    /\ engine.pc = "cgroup"
    /\ \/ /\ engine' = [engine EXCEPT !.pc = "poll", !.start = now, !.cgroup = TRUE,
                                      !.base = prog.mem]
          /\ groups' = [groups EXCEPT ![engine.pid] = IF @ = NoGroup THEN 0 ELSE @]
          /\ NoFault
       \/ /\ Fault("cgroup")
          /\ engine' = [engine EXCEPT !.pc = "poll", !.start = now]
          /\ UNCHANGED groups
    /\ UNCHANGED <<call, now, prog, pipe>>

\* memory.peak if there is one, else ru_maxrss.
MemoryUsed ==
    IF engine.cgroup /\ groups[engine.pid] > 0 THEN groups[engine.pid] ELSE prog.mem

\* A memory fault within 5 per cent of the limit counts as an exhausted limit.
NearMemoryLimit == 20 * MemoryUsed >= 19 * call.limit.mem

ByExitCodeOfUser(code) ==
    CASE code = 0 -> "Finished"
      [] code = 127 -> IF prog.marker THEN "System Error" ELSE "Runtime Error"
      [] OTHER -> "Runtime Error"

ByExitCode(code) ==
    CASE code = 0 -> "Finished"
      [] code = 127 -> IF prog.marker THEN "System Error" ELSE "Runtime Error"
      [] code >= 120 /\ code # 127 -> "System Error"
      [] OTHER -> "Runtime Error"

BySignalKillIsTimeout(signal) ==
    CASE signal \in {"SIGXCPU", "SIGKILL"} -> "Time Limit Exceeded"
      [] signal = "SIGXFSZ" -> "Output Limit Exceeded"
      [] signal = "SIGABRT" /\ NearMemoryLimit -> "Memory Limit Exceeded"
      [] OTHER -> "Runtime Error"

BySignal(signal) ==
    CASE signal = "SIGXCPU" -> "Time Limit Exceeded"
      [] signal = "SIGKILL" /\ prog.cpu > call.limit.time -> "Time Limit Exceeded"
      [] signal = "SIGXFSZ" -> "Output Limit Exceeded"
      [] signal = "SIGABRT" /\ NearMemoryLimit -> "Memory Limit Exceeded"
      [] OTHER -> "Runtime Error"

ClassifyIgnoresOutput ==
    CASE MemoryUsed > call.limit.mem -> "Memory Limit Exceeded"
      [] prog.end.signal # "none" -> BySignal(prog.end.signal)
      [] OTHER -> ByExitCode(prog.end.code)

\* What the engine makes of a reaped program: output first, then memory, then
\* the exit status.
Classify ==
    CASE prog.out > OutLimit -> "Output Limit Exceeded"
      [] prog.out <= OutLimit /\ MemoryUsed > call.limit.mem -> "Memory Limit Exceeded"
      [] prog.out <= OutLimit /\ MemoryUsed <= call.limit.mem /\ prog.end.signal # "none" ->
            BySignal(prog.end.signal)
      [] OTHER -> ByExitCode(prog.end.code)

Reap ==
    /\ engine.pc = "poll"
    /\ prog.st = "zombie"
    /\ RunReturns(Classify)
    /\ prog' = [prog EXCEPT !.st = "gone"]
    /\ NoFault
    /\ UNCHANGED <<call, now, pipe, groups>>

\* The wall clock limit of the engine, a second above the time limit.  While
\* the program runs wait4 reports no usage, so this is all the loop tests.
WallLimit ==
    /\ engine.pc = "poll"
    /\ prog.st \in {"setup", "running"}
    /\ now - engine.start > call.limit.time + Second
    /\ RunReturns("Time Limit Exceeded")
    /\ prog' = [prog EXCEPT !.st = "gone", !.end = Signaled("SIGKILL"), !.cause = "wall"]
    /\ NoFault
    /\ UNCHANGED <<call, now, pipe, groups>>

\* The destructor of CgroupManager, when Run returns.
Destroy ==
    /\ engine.pc = "destroy"
    /\ engine' = [engine EXCEPT !.pc = "emit"]
    /\ groups' = IF engine.cgroup THEN [groups EXCEPT ![engine.pid] = NoGroup] ELSE groups
    /\ NoFault
    /\ UNCHANGED <<call, now, prog, pipe>>

\* main prints the line and exits.
EmitJSONLine ==
    /\ engine.pc = "emit"
    /\ engine' = [engine EXCEPT !.pc = "exited"]
    /\ pipe' = [pipe EXCEPT !.written = engine.status]
    /\ NoFault
    /\ UNCHANGED <<call, now, prog, groups>>

---------------------------------------------------------------------------
(* The program and the kernel *)

AllocateUnlimited ==
    /\ Running
    /\ prog.mem <= call.limit.mem
    /\ prog' = [prog EXCEPT !.mem = @ + 1]
    /\ groups' = groups
    /\ NoFault
    /\ UNCHANGED <<call, now, engine, pipe>>

\* RLIMIT_AS and memory.max are both the memory limit.
Allocate ==
    /\ Running
    /\ prog.mem < call.limit.mem
    /\ prog' = [prog EXCEPT !.mem = @ + 1]
    /\ groups' = IF engine.cgroup /\ engine.pc = "poll"
                 THEN [groups EXCEPT ![engine.pid] = Peak(prog', engine)]
                 ELSE groups
    /\ NoFault
    /\ UNCHANGED <<call, now, engine, pipe>>

\* Asked for more than is left, an allocation throws and the program aborts.
AllocationFails == Running /\ Dies(Signaled("SIGABRT"), "memory")

OomKill ==
    /\ Running
    /\ engine.cgroup
    /\ prog.mem - engine.base = call.limit.mem
    /\ Dies(Signaled("SIGKILL"), "memory")

Write ==
    /\ Running
    /\ prog.out < OutLimit + OutBuffer
    /\ prog' = [prog EXCEPT !.out = @ + 1]
    /\ NoFault
    /\ UNCHANGED <<call, now, engine, pipe, groups>>

FileSizeLimit ==
    /\ Running
    /\ prog.out = OutLimit + OutBuffer
    /\ Dies(Signaled("SIGXFSZ"), "output")

\* The signal of the soft limit ends a program that does not ignore it.
CpuSoftLimit == Running /\ prog.cpu >= CpuSoft /\ Dies(Signaled("SIGXCPU"), "cpu")

CpuHardLimit == Running /\ prog.cpu >= CpuHard /\ Dies(Signaled("SIGKILL"), "cpu")

Exit(code) == Running /\ Dies(Exited(code), "self")

\* SIGABRT stands for SIGSEGV too, SIGFPE for every signal without a rule.
Crash(signal) == Running /\ Dies(Signaled(signal), "self")

ProgramStep ==
    \/ RunChildFn \/ Allocate \/ AllocationFails \/ OomKill \/ Write \/ FileSizeLimit
    \/ CpuSoftLimit \/ CpuHardLimit
    \/ \E c \in ExitCodes : Exit(c)
    \/ \E s \in {"SIGABRT", "SIGFPE"} : Crash(s)

\* A tick passes; a running program has used the processor or has waited.
Tick ==
    /\ call.st = "running"
    /\ now < MaxTick
    /\ now' = now + 1
    /\ IF Running
       THEN /\ prog.cpu < CpuHard
            /\ \E busy \in {0, 1} : prog' = [prog EXCEPT !.cpu = @ + busy]
       ELSE UNCHANGED prog
    /\ NoFault
    /\ UNCHANGED <<call, engine, pipe, groups>>

---------------------------------------------------------------------------
(* Execute: drain, wait, return *)

\* The goroutine that drains the engine's standard output.
Drain ==
    /\ pipe.open
    /\ pipe.written # "none"
    /\ pipe.read = "none"
    /\ pipe' = [pipe EXCEPT !.read = pipe.written]
    /\ NoFault
    /\ UNCHANGED <<call, now, engine, prog, groups>>

KillEngineOnly == UNCHANGED prog

\* SIGKILL to the engine's process group, which the program belongs to; a
\* zombie goes with its parent.
KillProcessGroup ==
    prog' = CASE prog.st \in {"setup", "running"} ->
                   [prog EXCEPT !.st = "gone", !.end = Signaled("SIGKILL"), !.cause = "killed"]
              [] prog.st = "zombie" -> [prog EXCEPT !.st = "gone"]
              [] OTHER -> prog

EngineAlive == engine.pc \in {"open", "cgroup", "poll", "destroy", "emit"}

DeadlineOfPolling ==
    /\ engine.pc = "poll"
    /\ \/ now >= call.limit.time + TimeoutBuffer /\ NoFault
       \/ Fault("cancel")
    /\ engine' = [engine EXCEPT !.pc = "killed"]
    /\ KillProcessGroup
    /\ UNCHANGED <<call, now, pipe, groups>>

\* The deadline of the case, or a cancelled attempt.
Deadline ==
    /\ EngineAlive
    /\ \/ now >= call.limit.time + TimeoutBuffer /\ NoFault
       \/ Fault("cancel")
    /\ engine' = [engine EXCEPT !.pc = "killed"]
    /\ KillProcessGroup
    /\ UNCHANGED <<call, now, pipe, groups>>

\* cmd.Wait: the engine is reaped and the read end of its pipes is closed, no
\* matter how far the drain has come.
Wait ==
    /\ call.st = "running"
    /\ engine.pc \in {"exited", "killed"}
    /\ pipe.open
    /\ pipe' = [pipe EXCEPT !.open = FALSE]
    /\ KillProcessGroup
    /\ NoFault
    /\ UNCHANGED <<call, now, engine, groups>>

\* An empty output is a protocol error, which ExecuteTask reports as such.
ParseAndValidate(read) == IF read = "none" THEN "System Error" ELSE read

Return ==
    /\ call.st = "running"
    /\ ~pipe.open
    /\ call' = [call EXCEPT !.st = "returned", !.result = ParseAndValidate(pipe.read)]
    /\ NoFault
    /\ UNCHANGED <<now, engine, prog, pipe, groups>>

EngineStep == Clone \/ SetupCgroup \/ Reap \/ WallLimit \/ Destroy \/ EmitJSONLine

Next ==
    \/ \E limit \in Limits : Execute(limit)
    \/ EngineStep
    \/ ProgramStep
    \/ Tick
    \/ Drain \/ Deadline \/ Wait \/ Return

Spec == Init /\ [][Next]_vars

\* Time passes, the kernel enforces RLIMIT_CPU and the Go runtime schedules
\* its goroutines; neither the engine nor the program need ever move.
FairSpec ==
    /\ Spec
    /\ WF_vars(Tick) /\ WF_vars(CpuHardLimit)
    /\ WF_vars(Deadline /\ NoFault) /\ WF_vars(Wait) /\ WF_vars(Return)

---------------------------------------------------------------------------
(* Types: also, the cpu time never passes the hard limit of RLIMIT_CPU and *)
(* the memory never the limit.                                             *)
TypeOK ==
    /\ call \in [st : {"idle", "running", "returned"}, limit : [time : Nat, mem : Nat],
                 n : 0..MaxRuns, result : Statuses \cup {"none"}]
    /\ now \in 0..MaxTick
    /\ engine \in [pc : {"none", "open", "cgroup", "poll", "destroy", "emit", "exited", "killed"},
                   pid : Pids, start : Nat, cgroup : BOOLEAN, base : Nat,
                   status : Statuses \cup {"none"}]
    /\ prog \in [st : {"none", "setup", "running", "zombie", "gone"}, cpu : 0..CpuHard,
                 mem : 0..call.limit.mem, out : 0..OutLimit + OutBuffer, marker : BOOLEAN,
                 end : [code : 0..255, signal : Signals \cup {"none"}],
                 cause : {"none", "self", "setup", "redirect", "memory", "output", "cpu", "wall",
                          "killed"}]
    /\ pipe \in [written : Statuses \cup {"none"}, read : Statuses \cup {"none"}, open : BOOLEAN]
    /\ groups \in [Pids -> Nat \cup {NoGroup}]

Returned(status) == call.st = "returned" /\ call.result = status

(* A verdict that names a limit is earned: the program of this very call   *)
(* used up its time, its memory (within the 5 per cent the engine allows   *)
(* itself) or its output.                                                  *)
LimitVerdictIsEarned ==
    /\ Returned("Time Limit Exceeded") =>
           prog.cpu >= call.limit.time \/ now > call.limit.time + Second
    /\ Returned("Memory Limit Exceeded") => 20 * prog.mem >= 19 * call.limit.mem
    /\ Returned("Output Limit Exceeded") => prog.out > OutLimit

(* Finished, on which the outputs are compared, means that the program     *)
(* itself came to a successful end with all of its output on disk.         *)
FinishedIsEarned ==
    Returned("Finished") =>
        prog.cause = "self" /\ prog.end = Exited(0) /\ prog.out <= OutLimit

(* Runtime Error is never the answer to a kill by the worker or to a       *)
(* failure of the sandbox, but for a redirection that fails: its codes 101 *)
(* to 103 lie below those the engine takes for its own.                    *)
RuntimeErrorIsEarned ==
    Returned("Runtime Error") => prog.cause \in {"self", "memory", "redirect"}

(* The verdict Execute returns names what happened to the program, in      *)
(* every race between the program, the engine's polls, the kernel's limits *)
(* and the worker's deadline.                                              *)
VerdictIsEarned == LimitVerdictIsEarned /\ FinishedIsEarned /\ RuntimeErrorIsEarned

(* When Execute has returned, nothing of the program is left running: the  *)
(* directory it works in is about to be removed and its slot to be reused. *)
NothingLeftRunning == call.st = "returned" => prog.st \in {"none", "gone"}

(* Execute returns, even if the engine or the program hangs.               *)
ExecuteReturns == call.st = "running" ~> call.st = "returned"

(* A program that has used up its time and is stopped for it, by whomever, *)
(* is told Time Limit Exceeded.                                            *)
OverrunIsTimeLimit ==
    call.st = "returned" /\ prog.cause \in {"cpu", "wall", "killed"}
            /\ prog.cpu > call.limit.time =>
        call.result = "Time Limit Exceeded"

(* A program that finished has kept its time limit.                        *)
FinishedInTime == Returned("Finished") => prog.cpu <= call.limit.time

(* The engine reports System Error only for a failure of the system, never *)
(* for an exit code the program chose.                                     *)
SystemErrorIsOurs == engine.status = "System Error" => prog.cause # "self"

(* A program that died because it could get no more memory is told Memory  *)
(* Limit Exceeded.                                                         *)
MemoryDeathIsMemoryLimit ==
    engine.status # "none" /\ prog.cause = "memory" /\ prog.out <= OutLimit =>
        engine.status = "Memory Limit Exceeded"

(* The line the engine has printed is what Execute returns.                *)
ReportedIsReturned ==
    call.st = "returned" /\ pipe.written # "none" => call.result = pipe.written

(* No cgroup of a program outlives the call that ran it.                   *)
NoCgroupLeft == call.st = "returned" => \A p \in Pids : groups[p] = NoGroup
=============================================================================
