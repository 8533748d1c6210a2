-------------------------- MODULE SandboxRunProofs --------------------------
(***************************************************************************)
(* Theorems about SandboxRun: for every limit, every resolution of the     *)
(* clock, every set of exit codes, any number of failures and any number   *)
(* of calls, one after another.                                            *)
(***************************************************************************)
EXTENDS SandboxRun, TLAPS

---------------------------------------------------------------------------
(* The inductive invariant.                                                *)

Over == {"destroy", "emit", "exited", "killed"}

(* The phases of Execute, of the engine and of the program go together:    *)
(* there is a program only between clone and reap, and the pipe is closed  *)
(* only when the engine has ended.                                         *)
PhaseInv ==
    /\ call.st = "idle" => engine.pc = "none"
    /\ engine.pc \in {"none", "open"} => prog.st = "none"
    /\ engine.pc \in Over => prog.st \in {"none", "gone"}
    /\ ~pipe.open => engine.pc \in {"exited", "killed"}
    /\ call.st = "returned" => ~pipe.open

(* One status is made per call, and nothing else comes through the pipe.   *)
LineInv ==
    /\ engine.status # "none" => engine.pc \in Over
    /\ pipe.written # "none" => engine.pc = "exited" /\ pipe.written = engine.status
    /\ pipe.read # "none" => pipe.read = pipe.written
    /\ call.st = "returned" => call.result = ParseAndValidate(pipe.read)

(* What the exit status of a program that waits to be reaped tells.        *)
DeathInv ==
    /\ prog.st \in {"none", "setup", "running"} => ~prog.marker
    /\ prog.st = "zombie" =>
         \/ prog.end.signal = "SIGXCPU" /\ prog.cpu >= CpuSoft
         \/ prog.end.signal = "SIGKILL" /\ (prog.cause = "memory" \/ prog.cpu >= CpuHard)
         \/ prog.end.signal = "SIGXFSZ" /\ prog.out > OutLimit
         \/ prog.end.signal \in {"SIGABRT", "SIGFPE"} /\ prog.cause \in {"self", "memory"}
         \/ prog.end.signal = "none" /\ prog.cause = "self"
         \/ prog.end.signal = "none" /\ prog.end.code = 101 /\ prog.cause = "redirect"
         \/ prog.end.signal = "none" /\ prog.end.code = 199
         \/ prog.end.signal = "none" /\ prog.end.code = 127 /\ prog.marker

(* What the program of the call did to deserve a status; Memory Limit      *)
(* Exceeded needs more, see MemoryInv.                                     *)
Deserves(status) ==
    /\ status = "Time Limit Exceeded" =>
         prog.cpu >= call.limit.time \/ now > call.limit.time + Second
    /\ status = "Output Limit Exceeded" => prog.out > OutLimit
    /\ status = "Finished" =>
         prog.cause = "self" /\ prog.end = Exited(0) /\ prog.out <= OutLimit
    /\ status = "Runtime Error" => prog.cause \in {"self", "memory", "redirect"}

StatusInv == engine.status # "none" => Deserves(engine.status)

RunInv == TypeOK /\ PhaseInv /\ LineInv /\ DeathInv /\ StatusInv

(* A cgroup that a program is put into is new, so its peak is due to that  *)
(* program: true as long as no pid comes back.                             *)
GroupsFresh ==
    \A p \in Pids : (p > call.n \/ (p = call.n /\ engine.pc \in {"open", "cgroup"})) =>
        groups[p] = NoGroup

PeakOwn ==
    /\ engine.pc # "none" => call.n > 0
    /\ engine.pc = "cgroup" => engine.pid = call.n
    /\ engine.cgroup => engine.pid = call.n /\ groups[engine.pid] <= prog.mem
    /\ engine.pc \in {"none", "open", "cgroup"} => ~engine.cgroup
    /\ engine.status = "Memory Limit Exceeded" => 20 * prog.mem >= 19 * call.limit.mem

MemoryInv == GroupsFresh /\ PeakOwn

---------------------------------------------------------------------------
(* Rounding up to seconds loses no time: the soft limit of RLIMIT_CPU is   *)
(* not below the time limit of the submission.                             *)
LEMMA RoundedUp ==
    ASSUME NEW t \in Nat, NEW s \in Nat \ {0}
    PROVE  s * ((t + s - 1) \div s) \in Nat /\ s * ((t + s - 1) \div s) >= t
<1> DEFINE q == (t + s - 1) \div s
           r == (t + s - 1) % s
<1>1. q \in Int /\ r \in 0..(s - 1) /\ t + s - 1 = s * q + r
  OBVIOUS
<1>2. s * q \in Int
  BY <1>1
<1> QED  BY <1>1, <1>2

LEMMA CpuLimits ==
    ASSUME TypeOK
    PROVE  /\ CpuSoft \in Nat /\ CpuSoft >= call.limit.time
           /\ CpuHard \in Nat /\ CpuHard > call.limit.time /\ CpuHard = CpuSoft + Second
<1>1. call.limit.time \in Nat /\ Second \in Nat \ {0}
  BY SandboxAssumption DEF TypeOK
<1>2. CpuSoft \in Nat /\ CpuSoft >= call.limit.time
  BY <1>1, RoundedUp DEF CpuSoft
<1> QED  BY <1>1, <1>2 DEF CpuHard

(* The limits belong to the call.                                          *)
LEMMA SameLimits ==
    ASSUME call' = call
    PROVE  CpuSoft' = CpuSoft /\ CpuHard' = CpuHard
BY DEF CpuSoft, CpuHard

---------------------------------------------------------------------------
(* Types.                                                                  *)

Calls == [st : {"idle", "running", "returned"}, limit : [time : Nat, mem : Nat],
          n : 0..MaxRuns, result : Statuses \cup {"none"}]

Engines == [pc : {"none", "open", "cgroup", "poll", "destroy", "emit", "exited", "killed"},
            pid : Pids, start : Nat, cgroup : BOOLEAN, base : Nat,
            status : Statuses \cup {"none"}]

Ends == [code : 0..255, signal : Signals \cup {"none"}]

Causes == {"none", "self", "setup", "redirect", "memory", "output", "cpu", "wall", "killed"}

Progs(cpu, mem) == [st : {"none", "setup", "running", "zombie", "gone"}, cpu : 0..cpu,
                    mem : 0..mem, out : 0..OutLimit + OutBuffer, marker : BOOLEAN,
                    end : Ends, cause : Causes]

Pipes == [written : Statuses \cup {"none"}, read : Statuses \cup {"none"}, open : BOOLEAN]

Groups == [Pids -> Nat \cup {NoGroup}]

LEMMA Typed ==
    /\ TypeOK <=> /\ call \in Calls /\ now \in 0..MaxTick /\ engine \in Engines
                  /\ prog \in Progs(CpuHard, call.limit.mem) /\ pipe \in Pipes /\ groups \in Groups
    /\ TypeOK' <=> /\ call' \in Calls /\ now' \in 0..MaxTick /\ engine' \in Engines
                   /\ prog' \in Progs(CpuHard', call'.limit.mem) /\ pipe' \in Pipes
                   /\ groups' \in Groups
BY DEF TypeOK, Calls, Engines, Ends, Causes, Progs, Pipes, Groups

LEMMA EndTyped ==
    /\ \A c \in 0..255 : Exited(c) \in Ends
    /\ \A s \in Signals : Signaled(s) \in Ends
BY DEF Exited, Signaled, Ends

(* A step within a call that gives the program a state of the right kind   *)
(* keeps the types, if it keeps those of the rest.                         *)
LEMMA WithinCall ==
    ASSUME TypeOK, call' = call, now' \in 0..MaxTick, engine' \in Engines, pipe' \in Pipes,
           groups' \in Groups, prog' \in Progs(CpuHard, call.limit.mem)
    PROVE  TypeOK'
BY Typed, SameLimits

LEMMA LimitsTyped ==
    ASSUME TypeOK
    PROVE  CpuHard \in Nat /\ call.limit.mem \in Nat
BY CpuLimits DEF TypeOK

(* A program that ends keeps what it used.                                 *)
LEMMA DiesTyped ==
    ASSUME TypeOK, NEW e \in Ends, NEW cause \in Causes, Dies(e, cause)
    PROVE  TypeOK'
<1>1. prog' \in Progs(CpuHard, call.limit.mem)
  BY Typed DEF Dies, Progs
<1> QED  BY <1>1, Typed, WithinCall DEF Dies

LEMMA ExecuteTyped ==
    ASSUME TypeOK, NEW limit \in Limits, Execute(limit)
    PROVE  TypeOK'
<1>1. limit \in [time : Nat, mem : Nat] /\ 1 \in Pids
  BY SandboxAssumption DEF Pids
<1>2. call' \in Calls
  BY <1>1, SandboxAssumption DEF TypeOK, Execute, Calls
<1>3. CpuHard' \in Nat
  <2>1. call'.limit.time \in Nat /\ Second \in Nat \ {0}
    BY <1>2, SandboxAssumption DEF Calls
  <2>2. CpuSoft' \in Nat
    BY <2>1, RoundedUp DEF CpuSoft
  <2>3. PICK c : c = CpuSoft'
    OBVIOUS
  <2>4. CpuHard' = c + Second
    BY <2>3 DEF CpuHard
  <2>5. c + Second \in Nat
    <3>1. c \in Nat
      BY <2>2, <2>3, Zenon
    <3> QED  BY <2>1, <3>1
  <2> QED  BY <2>4, <2>5, Zenon
<1>4. prog' \in Progs(CpuHard', call'.limit.mem)
  <2>1. 0 \in 0..CpuHard' /\ 0 \in 0..call'.limit.mem /\ 0 \in 0..OutLimit + OutBuffer
    BY <1>2, <1>3, SandboxAssumption DEF Calls
  <2>2. Exited(0) \in Ends
    BY EndTyped
  <2> QED  BY <2>1, <2>2 DEF Execute, NoProgram, Progs, Causes
<1>5. engine' \in Engines
  BY <1>1 DEF Execute, NoEngine, Engines
<1>6. now' \in 0..MaxTick /\ pipe' \in Pipes /\ groups' \in Groups
  BY SandboxAssumption, Typed DEF Execute, NoPipe, Pipes
<1> QED  BY <1>2, <1>4, <1>5, <1>6, Typed

LEMMA ClassifyTyped ==
    ASSUME TypeOK
    PROVE  Classify \in Statuses
BY DEF Classify, BySignal, ByExitCode, Statuses

LEMMA EngineTyped ==
    ASSUME TypeOK, EngineStep
    PROVE  TypeOK'
<1> USE Typed
<1>1. ASSUME NEW status \in Statuses, RunReturns(status)  PROVE engine' \in Engines
  BY <1>1 DEF RunReturns, Engines
<1>2. CASE Clone
  <2>1. 1 + ((call.n - 1) % PidSpace) \in Pids
    <3>1. call.n \in Int /\ PidSpace \in Nat \ {0}
      BY SandboxAssumption DEF TypeOK
    <3> QED  BY <3>1 DEF Pids
  <2>2. engine' \in Engines
    <3>1. CASE engine' = [engine EXCEPT !.pc = "cgroup", !.pid = 1 + ((call.n - 1) % PidSpace)]
      BY <2>1, <3>1 DEF Engines
    <3>2. CASE RunReturns("System Error")
      BY <1>1, <3>2 DEF Statuses
    <3> QED  BY <1>2, <3>1, <3>2 DEF Clone
  <2>3. prog' \in Progs(CpuHard, call.limit.mem)
    BY <1>2 DEF Clone, Progs
  <2> QED  BY <1>2, <2>2, <2>3, WithinCall DEF Clone
<1>3. CASE SetupCgroup
  <2>1. now \in Nat /\ prog.mem \in Nat
    BY SandboxAssumption DEF TypeOK
  <2>2. engine' \in Engines
    <3>1. CASE engine' = [engine EXCEPT !.pc = "poll", !.start = now, !.cgroup = TRUE, !.base = prog.mem]
      BY <2>1, <3>1 DEF Engines
    <3>2. CASE engine' = [engine EXCEPT !.pc = "poll", !.start = now]
      BY <2>1, <3>2 DEF Engines
    <3> QED  BY <1>3, <3>1, <3>2 DEF SetupCgroup
  <2>3. groups' \in Groups
    BY <1>3 DEF SetupCgroup, Groups
  <2> QED  BY <1>3, <2>2, <2>3, WithinCall DEF SetupCgroup
<1>4. CASE Reap
  <2>1. engine' \in Engines
    BY <1>1, <1>4, ClassifyTyped DEF Reap
  <2>2. prog' \in Progs(CpuHard, call.limit.mem)
    BY <1>4 DEF Reap, Progs
  <2> QED  BY <1>4, <2>1, <2>2, WithinCall DEF Reap
<1>5. CASE WallLimit
  <2>1. engine' \in Engines
    BY <1>1, <1>5 DEF WallLimit, Statuses
  <2>2. prog' \in Progs(CpuHard, call.limit.mem)
    BY <1>5, EndTyped DEF WallLimit, Progs, Causes, Signals
  <2> QED  BY <1>5, <2>1, <2>2, WithinCall DEF WallLimit
<1>6. CASE Destroy
  <2>1. engine' \in Engines
    BY <1>6 DEF Destroy, Engines
  <2>2. groups' \in Groups
    BY <1>6 DEF Destroy, Groups
  <2> QED  BY <1>6, <2>1, <2>2, WithinCall DEF Destroy
<1>7. CASE EmitJSONLine
  <2>1. engine' \in Engines
    BY <1>7 DEF EmitJSONLine, Engines
  <2>2. pipe' \in Pipes
    BY <1>7 DEF EmitJSONLine, Engines, Pipes
  <2> QED  BY <1>7, <2>1, <2>2, WithinCall DEF EmitJSONLine
<1> QED  BY <1>2, <1>3, <1>4, <1>5, <1>6, <1>7 DEF EngineStep

LEMMA ProgramTyped ==
    ASSUME TypeOK, ProgramStep
    PROVE  TypeOK'
<1> USE Typed, LimitsTyped
<1>1. CASE RunChildFn
  <2>1. Exited(199) \in Ends /\ Exited(101) \in Ends /\ Exited(127) \in Ends
    BY EndTyped
  <2>2. PICK e \in Ends, cause \in Causes :
          \/ prog' = [prog EXCEPT !.st = "running"]
          \/ prog' = [prog EXCEPT !.st = "zombie", !.end = e, !.cause = cause]
          \/ prog' = [prog EXCEPT !.st = "zombie", !.end = e, !.cause = cause, !.marker = TRUE]
    BY <1>1, <2>1, ZenonT(60) DEF RunChildFn, Causes
  <2>3. prog' \in Progs(CpuHard, call.limit.mem)
    BY <2>2, ZenonT(60) DEF Progs
  <2> QED  BY <1>1, <2>3, WithinCall DEF RunChildFn
<1>2. CASE Allocate
  <2>1. prog' \in Progs(CpuHard, call.limit.mem)
    BY <1>2 DEF Allocate, Progs
  <2>2. engine.pid \in Pids /\ engine.base \in Nat /\ groups[engine.pid] \in Int
        /\ groups[engine.pid] >= -1
    BY DEF TypeOK, NoGroup
  <2>3. prog'.mem \in Nat
    BY <2>1 DEF Progs
  <2>4. Peak(prog', engine) \in Nat \cup {NoGroup}
    BY <2>2, <2>3 DEF Peak, NoGroup
  <2>5. groups' \in Groups
    BY <1>2, <2>4 DEF Allocate, Groups
  <2> QED  BY <1>2, <2>1, <2>5, WithinCall DEF Allocate
<1>3. CASE Write
  <2>1. prog' \in Progs(CpuHard, call.limit.mem)
    BY <1>3, SandboxAssumption DEF Write, Progs
  <2> QED  BY <1>3, <2>1, WithinCall DEF Write
<1> HIDE Typed, LimitsTyped
<1>4. CASE AllocationFails
  BY <1>4, DiesTyped, EndTyped DEF AllocationFails, Signals, Causes
<1>5. CASE OomKill
  BY <1>5, DiesTyped, EndTyped DEF OomKill, Signals, Causes
<1>6. CASE FileSizeLimit
  BY <1>6, DiesTyped, EndTyped DEF FileSizeLimit, Signals, Causes
<1>7. CASE CpuSoftLimit
  BY <1>7, DiesTyped, EndTyped DEF CpuSoftLimit, Signals, Causes
<1>8. CASE CpuHardLimit
  BY <1>8, DiesTyped, EndTyped DEF CpuHardLimit, Signals, Causes
<1>9. CASE \E c \in ExitCodes : Exit(c)
  BY <1>9, DiesTyped, EndTyped, SandboxAssumption DEF Exit, Causes
<1>10. CASE \E s \in {"SIGABRT", "SIGFPE"} : Crash(s)
  BY <1>10, DiesTyped, EndTyped DEF Crash, Signals, Causes
<1> QED  BY <1>1, <1>2, <1>3, <1>4, <1>5, <1>6, <1>7, <1>8, <1>9, <1>10 DEF ProgramStep

(* SIGKILL to the group leaves nothing of the program but what it used.    *)
LEMMA KillGroup ==
    ASSUME TypeOK, KillProcessGroup
    PROVE  /\ prog' \in Progs(CpuHard, call.limit.mem)
           /\ prog'.st \in {"none", "gone"}
           /\ prog.st \in {"none", "gone"} => prog' = prog
           /\ prog.st = "none" => prog'.st = "none"
           /\ prog'.cpu = prog.cpu /\ prog'.mem = prog.mem /\ prog'.out = prog.out
<1>1. prog \in Progs(CpuHard, call.limit.mem) /\ Signaled("SIGKILL") \in Ends
  BY Typed, EndTyped DEF Signals
<1>2. CASE prog.st \in {"setup", "running"}
  <2>1. prog' = [prog EXCEPT !.st = "gone", !.end = Signaled("SIGKILL"), !.cause = "killed"]
    BY <1>2 DEF KillProcessGroup
  <2> QED  BY <1>1, <1>2, <2>1 DEF Progs, Causes
<1>3. CASE prog.st = "zombie"
  <2>1. prog' = [prog EXCEPT !.st = "gone"]
    BY <1>3 DEF KillProcessGroup
  <2> QED  BY <1>1, <1>3, <2>1 DEF Progs, Causes
<1>4. CASE prog.st \in {"none", "gone"}
  BY <1>1, <1>4 DEF KillProcessGroup
<1> QED  BY <1>1, <1>2, <1>3, <1>4 DEF Progs

LEMMA TypeKept ==
    ASSUME TypeOK, [Next]_vars
    PROVE  TypeOK'
<1>1. CASE \E limit \in Limits : Execute(limit)
  BY <1>1, ExecuteTyped
<1>2. CASE EngineStep
  BY <1>2, EngineTyped
<1>3. CASE ProgramStep
  BY <1>3, ProgramTyped
<1>4. CASE Tick
  <2>1. now' \in 0..MaxTick
    BY <1>4, SandboxAssumption DEF Tick, TypeOK
  <2>2. prog' \in Progs(CpuHard, call.limit.mem)
    <3>1. prog \in Progs(CpuHard, call.limit.mem) /\ CpuHard \in Nat
      BY Typed, LimitsTyped
    <3>2. CASE ~Running
      BY <1>4, <3>1, <3>2 DEF Tick
    <3>3. CASE Running
      <4>1. PICK busy \in {0, 1} : prog.cpu < CpuHard /\ prog' = [prog EXCEPT !.cpu = @ + busy]
        BY <1>4, <3>3 DEF Tick
      <4>2. prog.cpu + busy \in 0..CpuHard
        BY <3>1, <4>1 DEF Progs
      <4> QED  BY <3>1, <4>1, <4>2 DEF Progs
    <3> QED  BY <3>2, <3>3
  <2> QED  BY <1>4, <2>1, <2>2, Typed, WithinCall DEF Tick
<1>5. CASE Drain
  <2>1. pipe' \in Pipes
    BY <1>5, Typed DEF Drain, Pipes
  <2> QED  BY <1>5, <2>1, Typed, WithinCall DEF Drain
<1>6. CASE Deadline
  <2>1. engine' \in Engines
    BY <1>6, Typed DEF Deadline, Engines
  <2> QED  BY <1>6, <2>1, Typed, KillGroup, WithinCall DEF Deadline
<1>7. CASE Wait
  <2>1. pipe' \in Pipes
    BY <1>7, Typed DEF Wait, Pipes
  <2> QED  BY <1>7, <2>1, Typed, KillGroup, WithinCall DEF Wait
<1>8. CASE Return
  <2>1. ParseAndValidate(pipe.read) \in Statuses \cup {"none"}
    BY DEF ParseAndValidate, TypeOK, Statuses
  <2>2. call' \in Calls /\ call'.limit = call.limit
    BY <1>8, <2>1, Typed DEF Return, Calls
  <2>3. CpuHard' = CpuHard
    BY <2>2 DEF CpuHard, CpuSoft
  <2> QED  BY <1>8, <2>2, <2>3, Typed DEF Return
<1>9. CASE UNCHANGED vars
  BY <1>9, SameLimits DEF vars, TypeOK
<1> QED  BY <1>1, <1>2, <1>3, <1>4, <1>5, <1>6, <1>7, <1>8, <1>9 DEF Next

---------------------------------------------------------------------------
(* The phases and the line.                                                *)

(* Only a program that exists takes a step, and it touches nothing but     *)
(* itself and the peak of its cgroup.                                      *)
LEMMA ProgramAlone ==
    ASSUME ProgramStep
    PROVE  UNCHANGED <<call, now, engine, pipe>> /\ prog.st \in {"setup", "running"}
BY DEF ProgramStep, RunChildFn, Allocate, AllocationFails, OomKill, Write, FileSizeLimit,
       CpuSoftLimit, CpuHardLimit, Exit, Crash, Dies, Running

LEMMA ControlKept ==
    ASSUME TypeOK, PhaseInv, LineInv, [Next]_vars
    PROVE  PhaseInv' /\ LineInv'
<1> USE Typed DEF PhaseInv, LineInv, Over
<1>1. CASE \E limit \in Limits : Execute(limit)
  BY <1>1 DEF Execute, NoEngine, NoProgram, NoPipe
<1>2. CASE ProgramStep
  BY <1>2, ProgramAlone
<1>3. CASE Clone
  BY <1>3, ZenonT(60) DEF Clone, RunReturns, Engines, Progs
<1>4. CASE SetupCgroup
  BY <1>4 DEF SetupCgroup, Engines
<1>5. CASE Reap
  BY <1>5 DEF Reap, RunReturns, Engines, Progs
<1>6. CASE WallLimit
  BY <1>6 DEF WallLimit, RunReturns, Engines, Progs
<1>7. CASE Destroy
  BY <1>7 DEF Destroy, Engines
<1>8. CASE EmitJSONLine
  BY <1>8 DEF EmitJSONLine, Engines, Pipes
<1>9. CASE Tick
  BY <1>9 DEF Tick, Running, Progs
<1>10. CASE Drain
  BY <1>10 DEF Drain, Pipes
<1>11. CASE Deadline
  BY <1>11, KillGroup DEF Deadline, EngineAlive, Engines
<1>12. CASE Wait
  BY <1>12, KillGroup DEF Wait, Pipes
<1>13. CASE Return
  BY <1>13 DEF Return, Calls
<1>14. CASE UNCHANGED vars
  BY <1>14 DEF vars
<1> QED
  BY <1>1, <1>2, <1>3, <1>4, <1>5, <1>6, <1>7, <1>8, <1>9, <1>10, <1>11, <1>12, <1>13, <1>14
  DEF Next, EngineStep

---------------------------------------------------------------------------
(* How a program may end.                                                  *)

(* A step of a program leaves it alive and unmarked, or in a state whose   *)
(* exit status tells why it ended.                                         *)
LEMMA DeathByProgram ==
    ASSUME TypeOK, PhaseInv, DeathInv, ProgramStep
    PROVE  DeathInv'
<1>1. prog \in Progs(CpuHard, call.limit.mem) /\ ~prog.marker
  BY Typed, ProgramAlone DEF DeathInv
<1>2. CpuSoft' = CpuSoft /\ CpuHard' = CpuHard
  BY ProgramAlone, SameLimits
<1>3. CASE RunChildFn
  <2>1. CASE prog' = [prog EXCEPT !.st = "running"]
    BY <1>1, <2>1 DEF DeathInv, Progs
  <2>2. CASE prog' = [prog EXCEPT !.st = "zombie", !.end = Exited(199), !.cause = "setup"]
    BY <1>1, <2>2 DEF DeathInv, Progs, Exited
  <2>3. CASE prog' = [prog EXCEPT !.st = "zombie", !.end = Exited(101), !.cause = "redirect"]
    BY <1>1, <2>3 DEF DeathInv, Progs, Exited
  <2>4. CASE prog' = [prog EXCEPT !.st = "zombie", !.end = Exited(127), !.cause = "setup", !.marker = TRUE]
    <3>1. prog'.st = "zombie" /\ prog'.marker = TRUE /\ prog'.end = Exited(127)
      BY <1>1, <2>4 DEF Progs
    <3> QED  BY <3>1 DEF DeathInv, Exited
  <2> QED  BY <1>3, <2>1, <2>2, <2>3, <2>4 DEF RunChildFn
<1>4. CASE Allocate
  BY <1>1, <1>4 DEF Allocate, Running, DeathInv, Progs
<1>5. CASE Write
  BY <1>1, <1>5 DEF Write, Running, DeathInv, Progs
<1>6. CASE AllocationFails
  BY <1>1, <1>6 DEF AllocationFails, Dies, DeathInv, Progs, Signaled
<1>7. CASE OomKill
  BY <1>1, <1>7 DEF OomKill, Dies, DeathInv, Progs, Signaled
<1>8. CASE FileSizeLimit
  BY <1>1, <1>8, SandboxAssumption DEF FileSizeLimit, Dies, DeathInv, Progs, Signaled
<1>9. CASE CpuSoftLimit
  BY <1>1, <1>2, <1>9 DEF CpuSoftLimit, Dies, DeathInv, Progs, Signaled
<1>10. CASE CpuHardLimit
  BY <1>1, <1>2, <1>10 DEF CpuHardLimit, Dies, DeathInv, Progs, Signaled
<1>11. CASE \E c \in ExitCodes : Exit(c)
  BY <1>1, <1>11 DEF Exit, Dies, DeathInv, Progs, Exited
<1>12. CASE \E s \in {"SIGABRT", "SIGFPE"} : Crash(s)
  BY <1>1, <1>12 DEF Crash, Dies, DeathInv, Progs, Signaled
<1> QED  BY <1>3, <1>4, <1>5, <1>6, <1>7, <1>8, <1>9, <1>10, <1>11, <1>12 DEF ProgramStep

LEMMA DeathKept ==
    ASSUME TypeOK, PhaseInv, DeathInv, [Next]_vars
    PROVE  DeathInv'
<1>1. prog \in Progs(CpuHard, call.limit.mem)
  BY Typed
<1>2. CASE ProgramStep
  BY <1>2, DeathByProgram
<1>3. CASE \E limit \in Limits : Execute(limit)
  BY <1>3 DEF Execute, NoProgram, DeathInv
<1>4. CASE prog' = prog /\ call' = call
  BY <1>4, SameLimits DEF DeathInv
<1>5. CASE Clone
  BY <1>1, <1>4, <1>5 DEF Clone, PhaseInv, DeathInv, Progs
<1>6. CASE Reap \/ WallLimit
  BY <1>1, <1>6 DEF Reap, WallLimit, DeathInv, Progs
<1>7. CASE Tick
  <2>1. CASE Running
    BY <1>1, <1>7, <2>1 DEF Tick, Running, DeathInv, Progs
  <2> QED  BY <1>4, <1>7, <2>1 DEF Tick
<1>8. CASE Deadline \/ Wait
  <2>1. CASE prog.st = "none"
    BY <1>4, <1>8, <2>1, KillGroup DEF Deadline, Wait
  <2>2. CASE prog.st # "none"
    <3>1. prog'.st = "gone"
      BY <1>1, <1>8, <2>2 DEF Deadline, Wait, KillProcessGroup, Progs
    <3> QED  BY <3>1 DEF DeathInv
  <2> QED  BY <2>1, <2>2
<1>9. CASE Return
  BY <1>9 DEF Return, PhaseInv, Over, DeathInv
<1> QED
  BY <1>2, <1>3, <1>4, <1>5, <1>6, <1>7, <1>8, <1>9
  DEF Next, EngineStep, SetupCgroup, Destroy, EmitJSONLine, Drain, vars

---------------------------------------------------------------------------
(* What a status is worth.                                                 *)

(* The rules of the engine are right about a program that ended: output,   *)
(* then memory, then the signal or the exit code.                          *)
LEMMA ClassifyIsRight ==
    ASSUME TypeOK, DeathInv, prog.st = "zombie"
    PROVE  Deserves(Classify)
<1>1. /\ prog.out \in Nat /\ prog.cpu \in Nat /\ OutLimit \in Nat /\ call.limit.time \in Nat
      /\ prog.end \in Ends /\ prog.end.code \in 0..255
  BY SandboxAssumption, Typed, LimitsTyped DEF Progs, Ends, Calls
<1>2. CpuSoft \in Nat /\ CpuSoft >= call.limit.time /\ CpuHard > call.limit.time /\ CpuHard \in Nat
  BY CpuLimits
<1>3. CASE Classify \in {"Output Limit Exceeded", "Memory Limit Exceeded"} /\ prog.out > OutLimit
  BY <1>3 DEF Deserves
<1>4. CASE prog.out <= OutLimit /\ Classify = "Memory Limit Exceeded"
  BY <1>4 DEF Deserves
<1>5. CASE prog.out <= OutLimit /\ prog.end.signal # "none" /\ Classify = BySignal(prog.end.signal)
  <2>1. PICK s : s = prog.end.signal
    OBVIOUS
  <2>2. CASE s = "SIGXCPU"
    <3>1. prog.cpu >= call.limit.time
      BY <1>1, <1>2, <2>1, <2>2 DEF DeathInv
    <3>2. BySignal(s) = "Time Limit Exceeded"
      BY <2>2 DEF BySignal
    <3> QED  BY <1>5, <2>1, <3>1, <3>2 DEF Deserves
  <2>3. CASE s = "SIGKILL"
    <3>1. CASE prog.cpu > call.limit.time
      <4>1. BySignal(s) = "Time Limit Exceeded"
        BY <2>3, <3>1 DEF BySignal
      <4>2. prog.cpu >= call.limit.time
        BY <1>1, <3>1
      <4> QED  BY <1>5, <2>1, <4>1, <4>2 DEF Deserves
    <3>2. CASE ~(prog.cpu > call.limit.time)
      <4>1. prog.cause = "memory"
        BY <1>1, <1>2, <2>1, <2>3, <3>2 DEF DeathInv
      <4>2. BySignal(s) = "Runtime Error"
        BY <2>3, <3>2 DEF BySignal
      <4> QED  BY <1>5, <2>1, <4>1, <4>2 DEF Deserves
    <3> QED  BY <3>1, <3>2
  <2>4. CASE s = "SIGXFSZ"
    BY <1>1, <1>5, <2>1, <2>4 DEF Deserves, DeathInv, BySignal
  <2>5. CASE s \in {"SIGABRT", "SIGFPE"}
    <3>1. prog.cause \in {"self", "memory"}
      BY <2>1, <2>5 DEF DeathInv
    <3>2. BySignal(s) \in {"Memory Limit Exceeded", "Runtime Error"}
      BY <2>5 DEF BySignal
    <3> QED  BY <1>5, <2>1, <3>1, <3>2 DEF Deserves
  <2> QED  BY <1>5, <2>1, <2>2, <2>3, <2>4, <2>5 DEF DeathInv
<1>6. CASE prog.out <= OutLimit /\ prog.end.signal = "none" /\ Classify = ByExitCode(prog.end.code)
  <2>1. prog.end.code = 0 => prog.end = Exited(0)
    BY <1>1, <1>6 DEF Ends, Exited
  <2>2. CASE prog.end.code = 0
    <3>1. prog.cause = "self"
      BY <1>6, <2>2 DEF DeathInv
    <3>2. Classify = "Finished"
      BY <1>6, <2>2 DEF ByExitCode
    <3> QED  BY <1>6, <2>1, <2>2, <3>1, <3>2 DEF Deserves
  <2>3. CASE prog.end.code # 0 /\ Classify = "Runtime Error"
    <3>1. ~(prog.end.code = 127 /\ prog.marker) /\ prog.end.code # 199
      <4>1. ByExitCode(prog.end.code) = "Runtime Error"
        BY <1>6, <2>3
      <4>2. ASSUME prog.end.code = 127, prog.marker  PROVE FALSE
        <5>1. ByExitCode(prog.end.code) = "System Error"
          BY <2>3, <4>2, Zenon DEF ByExitCode
        <5> QED  BY <4>1, <5>1
      <4>3. ASSUME prog.end.code = 199  PROVE FALSE
        <5>1. prog.end.code >= 120 /\ prog.end.code # 127
          BY <4>3
        <5>2. ByExitCode(prog.end.code) = "System Error"
          BY <2>3, <5>1, Zenon DEF ByExitCode
        <5> QED  BY <4>1, <5>2
      <4> QED  BY <4>2, <4>3, Zenon
    <3>2. prog.cause \in {"self", "redirect"}
      BY <1>6, <3>1 DEF DeathInv
    <3> QED  BY <2>3, <3>2 DEF Deserves
  <2>4. CASE prog.end.code # 0 /\ Classify = "System Error"
    BY <2>4 DEF Deserves
  <2>5. ByExitCode(prog.end.code) \in {"Finished", "Runtime Error", "System Error"}
    BY DEF ByExitCode
  <2>6. prog.end.code # 0 => ByExitCode(prog.end.code) # "Finished"
    BY DEF ByExitCode
  <2> QED  BY <1>6, <2>2, <2>3, <2>4, <2>5, <2>6
<1>7. CASE prog.out > OutLimit
  <2>1. Classify = "Output Limit Exceeded"
    BY <1>1, <1>7 DEF Classify, BySignal, ByExitCode
  <2> QED  BY <1>3, <1>7, <2>1
<1>8. CASE prog.out <= OutLimit
  <2>1. MemoryUsed \in Int /\ call.limit.mem \in Int /\ ~(prog.out > OutLimit)
    BY <1>1, <1>8 DEF TypeOK, MemoryUsed, NoGroup
  <2>2. CASE MemoryUsed > call.limit.mem
    <3>1. Classify = "Memory Limit Exceeded"
      BY <1>1, <1>8, <2>1, <2>2 DEF Classify, BySignal, ByExitCode
    <3> QED  BY <1>4, <1>8, <3>1
  <2>3. CASE MemoryUsed <= call.limit.mem
    <3>1. CASE prog.end.signal # "none"
      <4>1. Classify = BySignal(prog.end.signal)
        <5>1. ~(MemoryUsed > call.limit.mem)
          BY <2>1, <2>3
        <5> QED  BY <1>8, <2>1, <2>3, <3>1, <5>1, Zenon DEF Classify
      <4> QED  BY <1>5, <1>8, <3>1, <4>1
    <3>2. CASE prog.end.signal = "none"
      <4>1. Classify = ByExitCode(prog.end.code)
        <5>1. ~(MemoryUsed > call.limit.mem)
          BY <2>1, <2>3
        <5> QED  BY <1>8, <2>1, <2>3, <3>2, <5>1, Zenon DEF Classify
      <4> QED  BY <1>6, <1>8, <3>2, <4>1
    <3> QED  BY <3>1, <3>2
  <2> QED  BY <2>1, <2>2, <2>3
<1> QED  BY <1>1, <1>7, <1>8

(* A status stays deserved while time passes and the program is gone.      *)
LEMMA StaysDeserved ==
    ASSUME TypeOK, TypeOK', NEW status, Deserves(status),
           prog'.cpu = prog.cpu, prog'.out = prog.out, prog'.cause = prog.cause,
           prog'.end = prog.end, call'.limit = call.limit, now' >= now
    PROVE  Deserves(status)'
<1>1. now \in Nat /\ now' \in Nat /\ call.limit.time \in Nat /\ Second \in Nat
  BY SandboxAssumption, Typed DEF Calls
<1>2. CASE status = "Time Limit Exceeded"
  <2>1. call'.limit.time = call.limit.time
    OBVIOUS
  <2>2. prog.cpu >= call.limit.time \/ now > call.limit.time + Second
    BY <1>2 DEF Deserves
  <2>3. prog'.cpu >= call'.limit.time \/ now' > call'.limit.time + Second
    BY <1>1, <2>1, <2>2
  <2> QED  BY <1>2, <2>3 DEF Deserves
<1>3. CASE status # "Time Limit Exceeded"
  BY <1>3 DEF Deserves
<1> QED  BY <1>2, <1>3

LEMMA StatusKept ==
    ASSUME RunInv, TypeOK', LineInv', [Next]_vars
    PROVE  StatusInv'
<1> DEFINE same == /\ prog' = prog /\ call'.limit = call.limit /\ now' >= now
                   /\ engine'.status = engine.status
<1>0. TypeOK /\ PhaseInv /\ LineInv /\ DeathInv /\ StatusInv /\ now \in Nat /\ now >= now
  BY SandboxAssumption DEF RunInv, TypeOK
<1>1. engine \in Engines /\ prog \in Progs(CpuHard, call.limit.mem)
  BY <1>0, Typed
<1>2. CASE same
  <2>1. PICK status : status = engine.status
    OBVIOUS
  <2>2. CASE status = "none"
    BY <1>2, <2>1, <2>2 DEF StatusInv
  <2>3. CASE status # "none"
    <3>1. Deserves(status)'
      BY <1>0, <1>2, <2>1, <2>3, StaysDeserved DEF StatusInv
    <3> QED  BY <1>2, <2>1, <3>1 DEF StatusInv
  <2> QED  BY <2>2, <2>3
<1>3. CASE engine'.status = "none"
  BY <1>3 DEF StatusInv
<1>4. CASE ProgramStep
  <2>1. engine.pc \notin Over
    BY <1>0, <1>4, ProgramAlone DEF PhaseInv, Over
  <2>2. engine'.status = "none"
    BY <1>0, <1>4, <2>1, ProgramAlone DEF LineInv
  <2> QED  BY <1>3, <2>2
<1>5. CASE Tick
  <2>1. engine' = engine /\ call' = call /\ now' = now + 1
    BY <1>5 DEF Tick
  <2>2. CASE Running
    <3>1. engine.pc \notin Over
      BY <1>0, <2>2 DEF PhaseInv, Over, Running
    <3> QED  BY <1>0, <1>3, <2>1, <3>1 DEF LineInv
  <2> QED  BY <1>0, <1>2, <1>5, <2>1, <2>2 DEF Tick
<1>6. CASE Reap
  <2>1. PICK status : status = Classify
    OBVIOUS
  <2>2. Deserves(status)
    BY <1>0, <1>6, <2>1, ClassifyIsRight DEF Reap
  <2>3. /\ prog'.cpu = prog.cpu /\ prog'.out = prog.out /\ prog'.cause = prog.cause
        /\ prog'.end = prog.end /\ call' = call /\ now' = now
    BY <1>1, <1>6 DEF Reap, Progs
  <2>4. Deserves(status)'
    BY <1>0, <2>2, <2>3, StaysDeserved
  <2>5. engine'.status = status
    BY <1>1, <1>6, <2>1 DEF Reap, RunReturns, Engines
  <2> QED  BY <2>4, <2>5 DEF StatusInv
<1>7. CASE WallLimit
  <2>1. engine'.status = "Time Limit Exceeded"
    BY <1>1, <1>7 DEF WallLimit, RunReturns, Engines
  <2>2. now' > call'.limit.time + Second
    <3>1. engine.start \in Nat /\ call.limit.time \in Nat /\ Second \in Nat
      BY <1>0, SandboxAssumption DEF TypeOK
    <3>2. now' = now /\ call' = call /\ now - engine.start > call.limit.time + Second
      BY <1>7 DEF WallLimit
    <3>3. now > call.limit.time + Second
      BY <1>0, <3>1, <3>2
    <3> QED  BY <3>2, <3>3
  <2> QED  BY <2>1, <2>2 DEF StatusInv, Deserves
<1>8. CASE \E limit \in Limits : Execute(limit)
  BY <1>3, <1>8 DEF Execute, NoEngine
<1>9. CASE Clone
  <2>1. CASE RunReturns("System Error")
    <3>1. engine'.status = "System Error"
      BY <1>1, <2>1 DEF RunReturns, Engines
    <3> QED  BY <3>1 DEF StatusInv, Deserves
  <2>2. CASE engine' = [engine EXCEPT !.pc = "cgroup", !.pid = 1 + ((call.n - 1) % PidSpace)]
    BY <1>0, <1>1, <1>3, <1>9, <2>2 DEF Clone, LineInv, Over, Engines
  <2> QED  BY <1>9, <2>1, <2>2 DEF Clone
<1>10. CASE SetupCgroup
  BY <1>0, <1>1, <1>2, <1>10, ZenonT(60) DEF SetupCgroup, Engines
<1>11. CASE Destroy \/ EmitJSONLine
  BY <1>0, <1>1, <1>2, <1>11 DEF Destroy, EmitJSONLine, Engines
<1>12. CASE Deadline
  <2>1. CASE engine.status = "none"
    BY <1>1, <1>3, <1>12, <2>1 DEF Deadline, Engines
  <2>2. CASE engine.status # "none"
    <3>1. prog.st \in {"none", "gone"}
      BY <1>0, <2>2 DEF LineInv, PhaseInv
    <3> QED  BY <1>0, <1>1, <1>2, <1>12, <3>1, KillGroup DEF Deadline, Engines
  <2> QED  BY <2>1, <2>2
<1>13. CASE Wait
  <2>1. prog.st \in {"none", "gone"}
    BY <1>0, <1>13 DEF Wait, PhaseInv, Over
  <2> QED  BY <1>0, <1>2, <1>13, <2>1, KillGroup DEF Wait
<1>14. CASE Drain
  BY <1>0, <1>2, <1>14 DEF Drain
<1>15. CASE Return
  <2>1. call'.limit = call.limit
    BY <1>0, <1>15, Typed DEF Return, Calls
  <2> QED  BY <1>0, <1>2, <1>15, <2>1 DEF Return
<1>16. CASE UNCHANGED vars
  BY <1>0, <1>2, <1>16 DEF vars
<1> QED
  BY <1>4, <1>5, <1>6, <1>7, <1>8, <1>9, <1>10, <1>11, <1>12, <1>13, <1>14, <1>15, <1>16
  DEF Next, EngineStep

---------------------------------------------------------------------------
(* The theorems.                                                           *)

(* RunInv is inductive.                                                    *)
THEOREM RunInvariance == Spec => []RunInv
<1>1. Init => RunInv
  <2> SUFFICES ASSUME Init PROVE RunInv
    OBVIOUS
  <2>1. TypeOK
    <3>1. call \in Calls
      BY SandboxAssumption DEF Init, Calls
    <3>2. CpuHard \in Nat
      <4>1. call.limit.time \in Nat /\ Second \in Nat \ {0}
        BY <3>1, SandboxAssumption DEF Calls
      <4>2. CpuSoft \in Nat
        BY <4>1, RoundedUp DEF CpuSoft
      <4> QED  BY <4>1, <4>2 DEF CpuHard
    <3>3. prog \in Progs(CpuHard, call.limit.mem)
      <4>1. 0 \in 0..CpuHard /\ 0 \in 0..call.limit.mem /\ 0 \in 0..OutLimit + OutBuffer
        BY <3>1, <3>2, SandboxAssumption DEF Calls
      <4> QED  BY <4>1, EndTyped DEF Init, NoProgram, Progs, Causes
    <3>4. engine \in Engines
      <4>1. 1 \in Pids
        BY SandboxAssumption DEF Pids
      <4> QED  BY <4>1 DEF Init, NoEngine, Engines
    <3>5. now \in 0..MaxTick /\ pipe \in Pipes /\ groups \in Groups
      BY SandboxAssumption DEF Init, NoPipe, Pipes, Groups
    <3> QED  BY <3>1, <3>3, <3>4, <3>5, Typed
  <2>2. PhaseInv /\ LineInv /\ DeathInv /\ StatusInv
    BY DEF Init, NoEngine, NoProgram, NoPipe, PhaseInv, LineInv, DeathInv, StatusInv, Over
  <2> QED  BY <2>1, <2>2 DEF RunInv
<1>2. RunInv /\ [Next]_vars => RunInv'
  <2> SUFFICES ASSUME RunInv, [Next]_vars PROVE RunInv'
    OBVIOUS
  <2>1. TypeOK' /\ PhaseInv' /\ LineInv' /\ DeathInv'
    BY TypeKept, ControlKept, DeathKept DEF RunInv
  <2>2. StatusInv'
    BY <2>1, StatusKept
  <2> QED  BY <2>1, <2>2 DEF RunInv
<1> QED  BY <1>1, <1>2, PTL DEF Spec

(* Types; the processor time and the memory of a program stay within what  *)
(* setrlimit was given, for every rounding of the limit to seconds.        *)
THEOREM TypeCorrect == Spec => []TypeOK
<1>1. RunInv => TypeOK
  BY DEF RunInv
<1> QED  BY <1>1, RunInvariance, PTL

(* When Execute returns no process of the program is left, whichever of    *)
(* the engine, its wall clock limit, the deadline of the worker and the    *)
(* final kill of the group came first.                                     *)
THEOREM NothingLeftRunningCorrect == Spec => []NothingLeftRunning
<1>1. RunInv => NothingLeftRunning
  BY DEF RunInv, PhaseInv, Over, NothingLeftRunning
<1> QED  BY <1>1, RunInvariance, PTL

(* The result Execute returns is the engine's status or System Error.      *)
LEMMA ResultIsStatus ==
    ASSUME RunInv, call.st = "returned"
    PROVE  call.result \in {engine.status, "System Error"} /\ call.result # "none"
BY DEF RunInv, LineInv, ParseAndValidate

(* Finished and Runtime Error are earned however often pids come back: on  *)
(* Finished the outputs are compared.                                      *)
THEOREM ProgramVerdictsCorrect == Spec => [](FinishedIsEarned /\ RuntimeErrorIsEarned)
<1>1. RunInv => FinishedIsEarned /\ RuntimeErrorIsEarned
  BY ResultIsStatus DEF RunInv, StatusInv, Deserves, FinishedIsEarned, RuntimeErrorIsEarned, Returned
<1> QED  BY <1>1, RunInvariance, PTL

---------------------------------------------------------------------------
(* The memory limit.  A killed engine leaves its cgroup behind, and Create *)
(* takes a directory that exists for its own: what follows needs that no   *)
(* pid comes back while the directory of its last owner is there.          *)

PidsAreFresh == MaxRuns <= PidSpace

(* The peak that the engine reads is the program's own.                    *)
LEMMA PeakIsOwn ==
    ASSUME TypeOK, PeakOwn
    PROVE  /\ MemoryUsed \in Int /\ MemoryUsed <= prog.mem /\ prog.mem \in Int
           /\ prog.mem <= call.limit.mem /\ call.limit.mem \in Int
<1>1. prog.mem \in Int /\ prog.mem <= call.limit.mem /\ call.limit.mem \in Int
  BY DEF TypeOK
<1>2. groups[engine.pid] \in Int
  BY DEF TypeOK, NoGroup
<1>3. MemoryUsed = prog.mem \/ (engine.cgroup /\ MemoryUsed = groups[engine.pid])
  BY DEF MemoryUsed
<1>4. engine.cgroup => groups[engine.pid] <= prog.mem
  BY DEF PeakOwn
<1>5. prog.mem <= prog.mem
  BY <1>1
<1> QED  BY <1>1, <1>2, <1>3, <1>4, <1>5, Zenon

LEMMA MemoryVerdictIsRight ==
    ASSUME TypeOK, PeakOwn
    PROVE  Classify = "Memory Limit Exceeded" => 20 * prog.mem >= 19 * call.limit.mem
<1>1. PICK u, m, l : u = MemoryUsed /\ m = prog.mem /\ l = call.limit.mem
  OBVIOUS
<1>2. u \in Int /\ m \in Int /\ l \in Int /\ u <= m /\ m <= l
  BY <1>1, PeakIsOwn, Zenon
<1>3. ~(MemoryUsed > call.limit.mem)
  <2>1. ~(u > l)
    BY <1>2
  <2> QED  BY <1>1, <2>1, Zenon
<1>4. NearMemoryLimit => 20 * prog.mem >= 19 * call.limit.mem
  <2>1. NearMemoryLimit => 20 * u >= 19 * l
    BY <1>1, Zenon DEF NearMemoryLimit
  <2>2. 20 * u >= 19 * l => 20 * m >= 19 * l
    BY <1>2
  <2> QED  BY <1>1, <2>1, <2>2, Zenon
<1>5. Classify = "Memory Limit Exceeded" => NearMemoryLimit
  <2>1. \A code : ByExitCode(code) # "Memory Limit Exceeded"
    BY DEF ByExitCode
  <2>2. \A s : BySignal(s) = "Memory Limit Exceeded" => NearMemoryLimit
    BY DEF BySignal
  <2>3. Classify \in {"Output Limit Exceeded", BySignal(prog.end.signal), ByExitCode(prog.end.code)}
    BY <1>3, Zenon DEF Classify
  <2> QED  BY <2>1, <2>2, <2>3
<1> QED  BY <1>4, <1>5

LEMMA MemoryKept ==
    ASSUME PidsAreFresh, TypeOK, TypeOK', PhaseInv, LineInv, GroupsFresh, PeakOwn, [Next]_vars
    PROVE  GroupsFresh' /\ PeakOwn'
<1>1. /\ engine \in Engines /\ engine' \in Engines /\ groups \in Groups /\ groups' \in Groups
      /\ prog \in Progs(CpuHard, call.limit.mem) /\ call \in Calls /\ call' \in Calls
      /\ prog.mem \in Nat /\ call.limit.mem \in Nat
      /\ call.n \in 0..MaxRuns /\ MaxRuns \in Nat /\ PidSpace \in Nat \ {0} /\ engine.pid \in Pids
  BY Typed, SandboxAssumption DEF Progs, Calls, Engines
<1>2. CASE /\ UNCHANGED <<call, engine, groups>> /\ prog'.mem = prog.mem
  BY <1>2 DEF GroupsFresh, PeakOwn
<1>3. CASE \E limit \in Limits : Execute(limit)
  <2>1. /\ call'.n = call.n + 1 /\ groups' = groups /\ engine'.pc = "open"
        /\ engine'.cgroup = FALSE /\ engine'.status = "none"
    BY <1>3 DEF Execute, NoEngine
  <2>2. GroupsFresh'
    BY <1>1, <2>1 DEF GroupsFresh, Pids
  <2>3. call'.n > 0
    BY <1>1, <2>1
  <2>4. PeakOwn'
    BY <2>1, <2>3 DEF PeakOwn
  <2> QED  BY <2>2, <2>4
<1>4. CASE Clone
  <2>0. UNCHANGED <<call, groups>> /\ prog'.mem = prog.mem /\ engine.pc = "open"
    BY <1>1, <1>4 DEF Clone, Progs
  <2>1. CASE RunReturns("System Error")
    <3>1. /\ engine'.pc = "destroy" /\ engine'.status = "System Error"
          /\ engine'.cgroup = engine.cgroup
      BY <1>1, <2>1 DEF RunReturns, Engines
    <3> QED  BY <2>0, <3>1 DEF GroupsFresh, PeakOwn
  <2>2. CASE engine' = [engine EXCEPT !.pc = "cgroup", !.pid = 1 + ((call.n - 1) % PidSpace)]
    <3>1. 1 + ((call.n - 1) % PidSpace) = call.n
      <4>1. call.n > 0
        BY <2>0 DEF PeakOwn
      <4>2. call.n <= PidSpace
        BY <1>1 DEF PidsAreFresh
      <4>3. call.n - 1 \in 0..(PidSpace - 1)
        BY <1>1, <4>1, <4>2
      <4> QED  BY <1>1, <4>3
    <3>2. /\ engine'.pc = "cgroup" /\ engine'.pid = call.n
          /\ engine'.cgroup = engine.cgroup /\ engine'.status = engine.status
      BY <1>1, <2>2, <3>1 DEF Engines
    <3> QED  BY <2>0, <3>2 DEF GroupsFresh, PeakOwn
  <2> QED  BY <1>4, <2>1, <2>2 DEF Clone
<1>5. CASE SetupCgroup
  <2>0. /\ UNCHANGED <<call, prog>> /\ engine.pc = "cgroup" /\ engine'.pc = "poll"
        /\ engine'.pid = engine.pid /\ engine'.status = engine.status
    BY <1>1, <1>5 DEF SetupCgroup, Engines
  <2>1. CASE engine' = [engine EXCEPT !.pc = "poll", !.start = now] /\ groups' = groups
    <3>1. engine'.cgroup = engine.cgroup
      BY <1>1, <2>1 DEF Engines
    <3> QED  BY <2>0, <2>1, <3>1 DEF GroupsFresh, PeakOwn
  <2>2. CASE groups' = [groups EXCEPT ![engine.pid] = IF @ = NoGroup THEN 0 ELSE @]
    <3>1. engine.pid = call.n /\ groups[engine.pid] = NoGroup
      BY <1>1, <2>0 DEF GroupsFresh, PeakOwn
    <3>2. groups'[engine.pid] = 0 /\ \A p \in Pids \ {engine.pid} : groups'[p] = groups[p]
      BY <1>1, <2>2, <3>1 DEF Groups
    <3>3. GroupsFresh'
      BY <1>1, <2>0, <3>1, <3>2 DEF GroupsFresh, Pids
    <3>4. PeakOwn'
      <4>1. groups'[engine'.pid] <= prog'.mem
        BY <1>1, <2>0, <3>2
      <4> QED  BY <2>0, <3>1, <4>1 DEF PeakOwn
    <3> QED  BY <3>3, <3>4
  <2> QED  BY <1>5, <2>1, <2>2 DEF SetupCgroup
<1>6. CASE Reap
  <2>1. engine'.status = "Memory Limit Exceeded" => 20 * prog.mem >= 19 * call.limit.mem
    <3>1. engine'.status = Classify
      BY <1>1, <1>6 DEF Reap, RunReturns, Engines
    <3> QED  BY <3>1, MemoryVerdictIsRight
  <2>2. prog'.mem = prog.mem /\ call' = call /\ groups' = groups
    BY <1>1, <1>6 DEF Reap, Progs
  <2>3. /\ engine'.pc = "destroy" /\ engine'.pid = engine.pid /\ engine'.cgroup = engine.cgroup
        /\ engine.pc = "poll"
    BY <1>1, <1>6 DEF Reap, RunReturns, Engines
  <2> QED  BY <2>1, <2>2, <2>3 DEF GroupsFresh, PeakOwn
<1>7. CASE WallLimit
  <2>1. prog'.mem = prog.mem /\ call' = call /\ groups' = groups
    BY <1>1, <1>7 DEF WallLimit, Progs
  <2>2. /\ engine'.pc = "destroy" /\ engine'.pid = engine.pid /\ engine'.cgroup = engine.cgroup
        /\ engine.pc = "poll" /\ engine'.status = "Time Limit Exceeded"
    BY <1>1, <1>7 DEF WallLimit, RunReturns, Engines
  <2> QED  BY <2>1, <2>2 DEF GroupsFresh, PeakOwn
<1>8. CASE Destroy
  <2>1. /\ UNCHANGED <<call, prog>> /\ engine.pc = "destroy" /\ engine'.pc = "emit"
        /\ engine'.pid = engine.pid /\ engine'.status = engine.status
        /\ engine'.cgroup = engine.cgroup
    BY <1>1, <1>8 DEF Destroy, Engines
  <2>2. \A p \in Pids : groups'[p] \in {groups[p], NoGroup}
    BY <1>1, <1>8 DEF Destroy, Groups
  <2>3. GroupsFresh'
    BY <2>1, <2>2 DEF GroupsFresh
  <2>4. NoGroup <= prog.mem
    BY <1>1 DEF NoGroup
  <2>5. PeakOwn'
    BY <1>1, <2>1, <2>2, <2>4 DEF PeakOwn
  <2> QED  BY <2>3, <2>5
<1>9. CASE EmitJSONLine
  BY <1>1, <1>9 DEF EmitJSONLine, GroupsFresh, PeakOwn, Engines
<1>10. CASE Allocate
  <2>1. prog'.mem = prog.mem + 1 /\ UNCHANGED <<call, engine>>
    BY <1>1, <1>10 DEF Allocate, Progs
  <2>2. engine.status = "none"
    BY <1>10 DEF Allocate, Running, PhaseInv, LineInv, Over
  <2>3. CASE groups' = groups
    BY <1>1, <2>1, <2>2, <2>3 DEF GroupsFresh, PeakOwn, Groups, NoGroup
  <2>4. CASE engine.cgroup /\ groups' = [groups EXCEPT ![engine.pid] = Peak(prog', engine)]
    <3>1. /\ engine.base \in Nat /\ groups[engine.pid] \in Int
          /\ groups[engine.pid] <= prog.mem /\ engine.pid = call.n
      <4>1. engine.base \in Nat /\ groups[engine.pid] \in Int
        BY <1>1 DEF Engines, Groups, NoGroup
      <4> QED  BY <2>4, <4>1 DEF PeakOwn
    <3>2. Peak(prog', engine) <= prog'.mem
      BY <1>1, <2>1, <3>1 DEF Peak
    <3>3. groups'[engine.pid] <= prog'.mem /\ \A p \in Pids \ {engine.pid} : groups'[p] = groups[p]
      BY <1>1, <2>4, <3>2 DEF Groups
    <3>4. engine.pc \notin {"none", "open", "cgroup"}
      BY <2>4 DEF GroupsFresh, PeakOwn
    <3> QED  BY <1>1, <2>1, <2>2, <2>4, <3>1, <3>3, <3>4 DEF GroupsFresh, PeakOwn
  <2> QED  BY <1>10, <2>3, <2>4 DEF Allocate
<1>11. CASE ProgramStep /\ ~Allocate
  <2>1. groups' = groups /\ prog'.mem = prog.mem
    BY <1>1, <1>11, ZenonT(60) DEF ProgramStep, RunChildFn, AllocationFails, OomKill, Write, FileSizeLimit,
       CpuSoftLimit, CpuHardLimit, Exit, Crash, Dies, Progs
  <2> QED  BY <1>2, <1>11, <2>1, ProgramAlone
<1>12. CASE Tick
  <2>1. prog'.mem = prog.mem
    BY <1>1, <1>12 DEF Tick, Progs
  <2> QED  BY <1>2, <1>12, <2>1 DEF Tick
<1>13. CASE Deadline
  <2>1. prog'.mem = prog.mem /\ call' = call /\ groups' = groups
    BY <1>13, KillGroup DEF Deadline
  <2>2. /\ engine'.pc = "killed" /\ engine'.pid = engine.pid /\ engine'.cgroup = engine.cgroup
        /\ engine'.status = engine.status /\ engine.pc # "none"
    BY <1>1, <1>13 DEF Deadline, EngineAlive, Engines
  <2> QED  BY <2>1, <2>2 DEF GroupsFresh, PeakOwn
<1>14. CASE Wait
  BY <1>2, <1>14, KillGroup DEF Wait
<1>15. CASE Return
  <2>1. call'.n = call.n /\ call'.limit = call.limit
    BY <1>1, <1>15 DEF Return, Calls
  <2> QED  BY <1>15, <2>1 DEF Return, GroupsFresh, PeakOwn
<1>16. CASE Drain \/ UNCHANGED vars
  BY <1>2, <1>16 DEF Drain, vars
<1> QED
  BY <1>3, <1>4, <1>5, <1>6, <1>7, <1>8, <1>9, <1>10, <1>11, <1>12, <1>13, <1>14, <1>15, <1>16
  DEF Next, EngineStep

(* Every verdict of Execute is earned, the memory limit included, as long  *)
(* as no pid comes back: whatever the order of the program's end, of the   *)
(* polls, of the limits and of the deadline.                               *)
THEOREM VerdictIsEarnedCorrect ==
    ASSUME PidsAreFresh
    PROVE  Spec => []VerdictIsEarned
<1>1. Init => MemoryInv
  BY SandboxAssumption DEF Init, NoEngine, NoProgram, MemoryInv, GroupsFresh, PeakOwn, Pids
<1>2. RunInv /\ RunInv' /\ MemoryInv /\ [Next]_vars => MemoryInv'
  BY PidsAreFresh, MemoryKept DEF RunInv, MemoryInv
<1>3. RunInv /\ MemoryInv => VerdictIsEarned
  BY ResultIsStatus DEF RunInv, StatusInv, Deserves, MemoryInv, PeakOwn, VerdictIsEarned, FinishedIsEarned,
     RuntimeErrorIsEarned, LimitVerdictIsEarned, Returned
<1> QED  BY <1>1, <1>2, <1>3, RunInvariance, PTL DEF Spec
=============================================================================
