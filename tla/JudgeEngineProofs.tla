-------------------------- MODULE JudgeEngineProofs --------------------------
(***************************************************************************)
(* What TLAPS proves about JudgeEngine, for any number of slots, jobs,     *)
(* cases and failures: the program is shut in, judge_engine leaves nothing *)
(* behind, no directory is removed in use, no set-up is blocked by what    *)
(* earlier calls left, and a verdict is that of its own program.           *)
(***************************************************************************)
EXTENDS JudgeEngine, SequenceTheorems, TLAPS

(* Types, and where a call, its engine, its child and its cgroup can be at *)
(* the same time.                                                          *)

StepNames == DOMAIN SandboxExitCode \cup {"close_fds", "rmdir_old"}

States == {"none", "setup", "program", "zombie", "gone"}

Codes == -1..255

Causes == {"none", "self", "failed", "blocked", "killed"}

Pos == Nat \ {0}

Kids == [kind : {"compile", "run"}, job : Jobs, gen : Nat, pc : Pos, st : States,
         done : SUBSET StepNames, code : Codes, cause : Causes]

Dirs == [exists : BOOLEAN, gen : Nat, mode : {"new", "700", "555"},
         made : SUBSET {"lib", "old_root", "tmp", "proc"}, exe : BOOLEAN, tampered : BOOLEAN]

Verdicts == {"none", "Compile Error", "System Error", "Finished", "Runtime Error",
             "Time Limit Exceeded"}

Calls == [phase : {"idle", "compile", "run", "cleanup", "done"}, job : Jobs, attempt : Nat,
          left : 0..Cases, shared : BOOLEAN, verdict : Verdicts]

Statuses == Verdicts \cup {"Compiled", "Cleaned"}

Lines == [form : {"none", "run", "plain"}, status : Statuses, job : Jobs, attempt : Nat]

Pcs == {"none", "main", "prepare", "clone", "create", "limits", "join", "poll", "destroy", "reap",
        "guard", "remove", "emit", "exited", "killed"}

Engines == [pc : Pcs, committed : BOOLEAN, status : Statuses, line : Lines]

Groups == [exists : BOOLEAN, created : BOOLEAN, limits : SUBSET LimitFiles, member : BOOLEAN,
           held : BOOLEAN]

\* The places of judge_engine in a phase of the call.
PcsOf(phase) ==
    CASE phase = "compile" -> {"none", "main", "prepare", "clone", "poll", "reap", "guard", "emit",
                               "exited", "killed"}
      [] phase = "run" -> {"none", "main", "clone", "create", "limits", "join", "poll", "destroy",
                           "reap", "emit", "exited", "killed"}
      [] phase = "cleanup" -> {"none", "main", "remove", "emit", "exited", "killed"}
      [] OTHER -> {"none"}

\* The places at which the engine answers for a child.
Watching == {"create", "limits", "join", "poll", "destroy", "reap"}

ControlOK(t, e) ==
    /\ e.pc \in PcsOf(t.phase)
    /\ e.pc = "none" => e = NoEngine
    /\ e.pc # "exited" => e.line = NoLine
    /\ e.line # NoLine =>
         /\ e.line.form = (IF t.phase = "run" THEN "run" ELSE "plain")
         /\ e.line.status = e.status /\ e.line.job = t.job /\ e.line.attempt = t.attempt
    /\ e.status \in (CASE t.phase = "run" -> {"none", "Finished", "Runtime Error", "System Error",
                                              "Time Limit Exceeded"}
                       [] t.phase = "compile" -> {"none", "Compiled", "Compile Error", "System Error"}
                       [] OTHER -> {"none", "Cleaned", "System Error"})
    /\ e.committed <=> e.status = "Compiled"
    /\ e.pc \in {"main", "prepare", "clone", "create", "limits", "join", "poll"} => e.status = "none"
    /\ e.pc \in {"reap", "guard"} /\ t.phase = "compile" => e.status \in {"Compiled", "Compile Error"}
    /\ t.phase \in {"idle", "compile", "run"} => t.verdict = "none"

ChildOK(t, e, c) ==
    c.st \in {"setup", "program", "zombie"} =>
        e.pc \in Watching /\ c.kind = t.phase /\ c.job = t.job

GroupOK(t, e, g) ==
    /\ g.exists => g.created \/ g.held
    /\ t.phase = "run" /\ g.exists /\ ~g.held => e.pc \in {"limits", "join", "poll", "destroy", "killed"}
    /\ t.phase = "compile" /\ g.exists =>
         e.pc \notin {"poll", "reap", "guard"} /\ e.status # "Compiled"

\* How far the child is: what it has done is what comes before its next step.
Steps(kind) == IF kind = "run" THEN RunChildFn ELSE CompileChildFn

Before(c) == {Steps(c.kind)[i] : i \in 1..(c.pc - 1)}

SetupOK(c) ==
    c.st \in {"setup", "program"} =>
        /\ c.pc \in 1..Len(Steps(c.kind))
        /\ c.done \subseteq Before(c) \cup {"exec"}
        /\ Before(c) \subseteq c.done \cup (IF c.kind = "run" /\ seccomp = "off" THEN {"seccomp"} ELSE {})
        /\ IF c.st = "program" THEN c.pc = Len(Steps(c.kind)) ELSE "exec" \notin c.done

CallOK(s) ==
    /\ ControlOK(task[s], engine[s])
    /\ ChildOK(task[s], engine[s], child[s])
    /\ GroupOK(task[s], engine[s], group[s])
    /\ SetupOK(child[s])

EngineInv ==
    /\ TypeOK
    /\ engine \in [Slots -> Engines]
    /\ \A s \in Slots : CallOK(s)
    /\ HostUntouched /\ DirectoryUntouched

Live(t) == t.phase \in {"compile", "run", "cleanup"}

(* Attempts of one job at a time know of each other. *)
SharedInv ==
    \A s, o \in Slots :
        /\ s # o /\ Live(task[s]) /\ Live(task[o]) /\ Job(s) = Job(o) => task[s].shared
        /\ task[s].shared => "overlap" \in FaultKinds

(* What a call finds in the directory of its job when it is alone there. *)
DirOK(t, e, c, d, struck) ==
    /\ c.st \in {"setup", "program"} =>
         /\ c.gen = d.gen
         /\ "mkdir_tmp" \in c.done => "tmp" \in d.made
         /\ "mkdir_proc" \in c.done => "proc" \in d.made
         /\ "mkdir_old" \in c.done /\ "rmdir_old" \notin c.done => "old_root" \in d.made
    /\ t.phase = "run" => d.exe
    /\ t.phase = "compile" =>
         /\ e.pc \in {"clone", "poll"} => d.mode = "700"
         /\ e.pc = "poll" /\ c.st = "zombie" /\ c.code = 0 => d.exe
         /\ e.status = "Compiled" => d.exe
         /\ e.status = "Compile Error" /\ e.pc \in {"emit", "exited"} /\ ~struck => ~d.exists

DirInv ==
    /\ \A s \in Slots : Live(task[s]) /\ ~task[s].shared =>
         DirOK(task[s], engine[s], child[s], dir[Job(s)], s \in hit)
    /\ \A j \in Jobs : dir[j].exe => j \in valid

ShareInv == EngineInv /\ SharedInv /\ DirInv

(* The verdict of a call that is alone with its job and met no failure. *)
Own(c, codes) == c.cause = "self" /\ c.code \in codes

Earned(status, c, j, compiling) ==
    /\ status = "Compile Error" => j \notin compiling
    /\ status = "Finished" => j \in compiling /\ Own(c, {0})
    /\ status = "Runtime Error" => Own(c, {-1, 127} \cup 1..119)
    /\ status = "System Error" => Own(c, 120..255 \ {127})

QuietOK(t, e, c) ==
    /\ c.st = "zombie" => c.cause = "self"
    /\ c.st = "zombie" /\ c.kind = "compile" /\ c.code # 0 => t.job \notin valid
    /\ e.pc \in {"destroy", "reap"} => c.st = "gone"
    /\ e.pc # "killed"
    /\ e.pc \in {"destroy", "reap", "guard", "emit", "exited"} => e.status # "none"
    /\ t.phase = "compile" => e.status # "System Error"
    /\ e.pc = "exited" => e.line # NoLine
    /\ Earned(e.status, c, t.job, valid) /\ Earned(t.verdict, c, t.job, valid)
    /\ t.phase = "run" /\ e.pc \in {"create", "limits", "join", "poll"} =>
         ProblemOf[t.job] \notin errfile

BlockedInv == \A s \in Slots : child[s].cause = "blocked" => task[s].shared

VerdictInv ==
    \A s \in Slots : ~task[s].shared /\ s \notin hit => QuietOK(task[s], engine[s], child[s])

---------------------------------------------------------------------------
(* Facts about the constants of the model.                                 *)

LEMMA DispatchBy ==
    /\ Dispatch(Options("compile")) = "prepare"
    /\ Dispatch(Options("run")) = "clone"
    /\ Dispatch(Options("cleanup")) = "remove"
    /\ Form(Options("run")) = "run"
    /\ Form(Options("compile")) = "plain"
    /\ Form(Options("cleanup")) = "plain"
<1>1. /\ Options("compile") = {"compile", "s", "r", "C"}
      /\ Options("run") = {"c", "i", "o", "t", "m", "C", "w", "job_id", "attempt_id"}
      /\ Options("cleanup") = {"cleanup", "r", "C"}
  BY Zenon DEF Options
<1>2. Dispatch(Options("compile")) = "prepare"
  <2>1. "self_test" \notin Options("compile") /\ "cleanup" \notin Options("compile")
        /\ Options("compile") \cap {"self_test", "cleanup"} = {}
        /\ Options("compile") \cap {"compile", "s"} # {}
    BY <1>1
  <2> QED  BY <2>1, Zenon DEF Dispatch
<1>3. Dispatch(Options("run")) = "clone"
  <2>1. "self_test" \notin Options("run") /\ "cleanup" \notin Options("run")
        /\ Options("run") \cap {"compile", "s"} = {}
        /\ {"c", "i", "o", "job_id", "attempt_id"} \subseteq Options("run")
    BY <1>1
  <2> QED  BY <2>1, Zenon DEF Dispatch
<1>4. Dispatch(Options("cleanup")) = "remove"
  <2>1. "self_test" \notin Options("cleanup") /\ "cleanup" \in Options("cleanup")
        /\ Options("cleanup") \cap {"self_test", "cleanup"} # {}
    BY <1>1
  <2> QED  BY <2>1, Zenon DEF Dispatch
<1> QED  BY <1>1, <1>2, <1>3, <1>4 DEF Form

LEMMA RunPlaces ==
    /\ Len(RunChildFn) = 32
    /\ \A i \in 1..32 :
         /\ (RunChildFn[i] = "dup2" <=> i = 1) /\ (RunChildFn[i] = "close_fds" <=> i = 2)
         /\ (RunChildFn[i] = "private" <=> i = 3) /\ (RunChildFn[i] = "bind_self" <=> i = 4)
         /\ (RunChildFn[i] = "find_lib" <=> i = 5) /\ (RunChildFn[i] = "mkdir_lib" <=> i = 6)
         /\ (RunChildFn[i] = "bind_lib" <=> i = 7) /\ (RunChildFn[i] = "lib_ro" <=> i = 8)
         /\ (RunChildFn[i] = "mkdir_old" <=> i = 9) /\ (RunChildFn[i] = "pivot" <=> i = 10)
         /\ (RunChildFn[i] = "chdir_new" <=> i = 11) /\ (RunChildFn[i] = "umount_old" <=> i = 12)
         /\ (RunChildFn[i] = "rmdir_old" <=> i = 13) /\ (RunChildFn[i] = "mkdir_tmp" <=> i = 14)
         /\ (RunChildFn[i] = "mkdir_proc" <=> i = 15) /\ (RunChildFn[i] = "chmod_root" <=> i = 16)
         /\ (RunChildFn[i] = "root_ro" <=> i = 17) /\ (RunChildFn[i] = "tmpfs" <=> i = 18)
         /\ (RunChildFn[i] = "proc" <=> i = 19) /\ (RunChildFn[i] = "proc_ro" <=> i = 20)
         /\ (RunChildFn[i] = "rlimit_cpu" <=> i = 21) /\ (RunChildFn[i] = "rlimit_as" <=> i = 22)
         /\ (RunChildFn[i] = "rlimit_stack" <=> i = 23) /\ (RunChildFn[i] = "rlimit_nproc" <=> i = 24)
         /\ (RunChildFn[i] = "rlimit_fsize" <=> i = 25) /\ (RunChildFn[i] = "setgroups" <=> i = 26)
         /\ (RunChildFn[i] = "chdir" <=> i = 27) /\ (RunChildFn[i] = "setgid" <=> i = 28)
         /\ (RunChildFn[i] = "setuid" <=> i = 29) /\ (RunChildFn[i] = "no_new_privs" <=> i = 30)
         /\ (RunChildFn[i] = "seccomp" <=> i = 31) /\ (RunChildFn[i] = "exec" <=> i = 32)
BY SMTT(60) DEF RunChildFn, SetupRootfs

LEMMA CompilePlaces ==
    /\ Len(CompileChildFn) = 25
    /\ \A i \in 1..25 :
         /\ (CompileChildFn[i] = "close_fds" <=> i = 1) /\ (CompileChildFn[i] = "open_log" <=> i = 2)
         /\ (CompileChildFn[i] = "dup2_log" <=> i = 3) /\ (CompileChildFn[i] = "private" <=> i = 4)
         /\ (CompileChildFn[i] = "bind_self" <=> i = 5) /\ (CompileChildFn[i] = "find_lib" <=> i = 6)
         /\ (CompileChildFn[i] = "mkdir_lib" <=> i = 7) /\ (CompileChildFn[i] = "bind_lib" <=> i = 8)
         /\ (CompileChildFn[i] = "lib_ro" <=> i = 9) /\ (CompileChildFn[i] = "mkdir_old" <=> i = 10)
         /\ (CompileChildFn[i] = "pivot" <=> i = 11) /\ (CompileChildFn[i] = "chdir_new" <=> i = 12)
         /\ (CompileChildFn[i] = "umount_old" <=> i = 13) /\ (CompileChildFn[i] = "rmdir_old" <=> i = 14)
         /\ (CompileChildFn[i] = "mkdir_tmp" <=> i = 15) /\ (CompileChildFn[i] = "tmpfs" <=> i = 16)
         /\ (CompileChildFn[i] = "rlimit_cpu" <=> i = 17) /\ (CompileChildFn[i] = "rlimit_as" <=> i = 18)
         /\ (CompileChildFn[i] = "rlimit_fsize" <=> i = 19) /\ (CompileChildFn[i] = "setgroups" <=> i = 20)
         /\ (CompileChildFn[i] = "setgid" <=> i = 21) /\ (CompileChildFn[i] = "setuid" <=> i = 22)
         /\ (CompileChildFn[i] = "no_new_privs" <=> i = 23) /\ (CompileChildFn[i] = "seccomp" <=> i = 24)
         /\ (CompileChildFn[i] = "exec" <=> i = 25)
BY SMTT(60) DEF CompileChildFn, SetupRootfs

\* What the order of the steps guarantees to step, when all of earlier is done.
Ordered(kind, step, earlier) ==
    /\ step \in DOMAIN SandboxExitCode \cup {"close_fds", "rmdir_old"}
    /\ "exec" \notin earlier
    /\ step \in {"bind_self", "bind_lib", "tmpfs", "proc"} => "private" \in earlier
    /\ step \in Privileged => "setuid" \notin earlier
    /\ step = "seccomp" => "no_new_privs" \in earlier
    /\ step \in DOMAIN Makes \cup {"chmod_root"} => "root_ro" \notin earlier
    /\ step = "pivot" =>
         {"private", "bind_self", "mkdir_old"} \subseteq earlier /\ "rmdir_old" \notin earlier
    /\ step = "chmod_root" => kind = "run"
    /\ step = "tmpfs" => "mkdir_tmp" \in earlier
    /\ step = "proc" => "mkdir_proc" \in earlier
    /\ step = "exec" =>
         /\ {"close_fds", "pivot", "umount_old", "bind_lib", "lib_ro", "rlimit_cpu", "rlimit_as",
             "rlimit_fsize", "setgroups", "setgid", "setuid", "no_new_privs", "seccomp"}
              \subseteq earlier
         /\ kind = "run" => {"proc_ro", "rlimit_nproc", "root_ro"} \subseteq earlier

LEMMA Domains ==
    /\ DOMAIN SandboxExitCode =
         {"dup2", "open_log", "dup2_log", "private", "bind_self", "find_lib", "mkdir_lib", "bind_lib",
          "lib_ro", "mkdir_old", "pivot", "chdir_new", "umount_old", "mkdir_tmp", "mkdir_proc",
          "chmod_root", "root_ro", "tmpfs", "proc", "proc_ro", "rlimit_cpu", "rlimit_as",
          "rlimit_stack", "rlimit_nproc", "rlimit_fsize", "setgroups", "chdir", "setgid", "setuid",
          "no_new_privs", "seccomp", "exec"}
    /\ DOMAIN Makes = {"mkdir_lib", "mkdir_old", "mkdir_tmp", "mkdir_proc"}
BY DEF SandboxExitCode, Makes

LEMMA RunOrder ==
    ASSUME NEW n \in 1..32
    PROVE  Ordered("run", RunChildFn[n], {RunChildFn[i] : i \in 1..(n - 1)})
<1> DEFINE F == RunChildFn
           E == {F[i] : i \in 1..(n - 1)}
<1>1. \A x : x \in E <=> \E i \in 1..32 : i < n /\ F[i] = x
  OBVIOUS
<1>2. F[n] \in DOMAIN SandboxExitCode \cup {"close_fds", "rmdir_old"}
  BY RunPlaces, Domains
<1> HIDE DEF E
<1>3. /\ ("close_fds" \in E <=> 2 < n) /\ ("private" \in E <=> 3 < n) /\ ("bind_self" \in E <=> 4 < n)
      /\ ("bind_lib" \in E <=> 7 < n) /\ ("lib_ro" \in E <=> 8 < n) /\ ("mkdir_old" \in E <=> 9 < n)
      /\ ("pivot" \in E <=> 10 < n) /\ ("umount_old" \in E <=> 12 < n) /\ ("rmdir_old" \in E <=> 13 < n)
      /\ ("mkdir_tmp" \in E <=> 14 < n) /\ ("mkdir_proc" \in E <=> 15 < n) /\ ("root_ro" \in E <=> 17 < n)
      /\ ("proc_ro" \in E <=> 20 < n) /\ ("rlimit_cpu" \in E <=> 21 < n) /\ ("rlimit_as" \in E <=> 22 < n)
      /\ ("rlimit_nproc" \in E <=> 24 < n) /\ ("rlimit_fsize" \in E <=> 25 < n) /\ ("setgroups" \in E <=> 26 < n)
      /\ ("setgid" \in E <=> 28 < n) /\ ("setuid" \in E <=> 29 < n) /\ ("no_new_privs" \in E <=> 30 < n)
      /\ ("seccomp" \in E <=> 31 < n) /\ ("exec" \in E <=> 32 < n)
  BY <1>1, RunPlaces, SMTT(60)
<1>4. Ordered("run", F[n], E)
  BY <1>2, <1>3, RunPlaces, Domains, SMTT(60) DEF Ordered, Privileged
<1> QED  BY <1>4 DEF E

LEMMA CompileOrder ==
    ASSUME NEW n \in 1..25
    PROVE  Ordered("compile", CompileChildFn[n], {CompileChildFn[i] : i \in 1..(n - 1)})
<1> DEFINE F == CompileChildFn
           E == {F[i] : i \in 1..(n - 1)}
<1>1. \A x : x \in E <=> \E i \in 1..25 : i < n /\ F[i] = x
  OBVIOUS
<1>2. F[n] \in DOMAIN SandboxExitCode \cup {"close_fds", "rmdir_old"}
  BY CompilePlaces, Domains
<1> HIDE DEF E
<1>3. /\ ("close_fds" \in E <=> 1 < n) /\ ("private" \in E <=> 4 < n) /\ ("bind_self" \in E <=> 5 < n)
      /\ ("bind_lib" \in E <=> 8 < n) /\ ("lib_ro" \in E <=> 9 < n) /\ ("mkdir_old" \in E <=> 10 < n)
      /\ ("pivot" \in E <=> 11 < n) /\ ("umount_old" \in E <=> 13 < n) /\ ("rmdir_old" \in E <=> 14 < n)
      /\ ("mkdir_tmp" \in E <=> 15 < n) /\ ("rlimit_cpu" \in E <=> 17 < n) /\ ("rlimit_as" \in E <=> 18 < n)
      /\ ("rlimit_fsize" \in E <=> 19 < n) /\ ("setgroups" \in E <=> 20 < n) /\ ("setgid" \in E <=> 21 < n)
      /\ ("setuid" \in E <=> 22 < n) /\ ("no_new_privs" \in E <=> 23 < n) /\ ("seccomp" \in E <=> 24 < n)
      /\ ("exec" \in E <=> 25 < n)
      /\ "root_ro" \notin E
  BY <1>1, CompilePlaces, SMTT(60)
<1>4. Ordered("compile", F[n], E)
  BY <1>2, <1>3, CompilePlaces, Domains, SMTT(60) DEF Ordered, Privileged
<1> QED  BY <1>4 DEF E

---------------------------------------------------------------------------
(* What a step of a call does, slot by slot and field by field.            *)

Typed ==
    /\ task \in [Slots -> Calls] /\ engine \in [Slots -> Engines] /\ child \in [Slots -> Kids]
    /\ group \in [Slots -> Groups] /\ dir \in [Jobs -> Dirs]
    /\ valid \subseteq Jobs /\ attempts \in [Jobs -> 0..MaxAttempts] /\ errfile \subseteq Problems
    /\ hit \subseteq Slots /\ seccomp \in SeccompModes /\ delegated \in BOOLEAN /\ budget \in Nat

\* The step is one of slot s: other slots and other jobs' directories stay.
Frame(s) ==
    /\ Typed'
    /\ \A o \in Slots \ {s} :
         /\ task'[o] = task[o] /\ engine'[o] = engine[o] /\ child'[o] = child[o]
         /\ group'[o] = group[o] /\ (o \in hit' <=> o \in hit)
    /\ \A j \in Jobs \ {Job(s)} : dir'[j] = dir[j]
    /\ UNCHANGED <<valid, hostMounts, seccomp>>

Calm(s) == s \in hit' <=> s \in hit

Struck(s) == s \in hit'

Moved(s, pc, status) ==
    /\ engine'[s].pc = pc /\ engine'[s].status = status
    /\ engine'[s].committed = engine[s].committed /\ engine'[s].line = engine[s].line

Starts(s) ==
    /\ Live(task[s]) /\ engine[s].pc = "none"
    /\ engine'[s].pc = "main" /\ engine'[s].status = "none" /\ ~engine'[s].committed
    /\ engine'[s].line = NoLine
    /\ UNCHANGED <<task, child, group, dir, errfile>> /\ Calm(s)

Dispatches(s) ==
    /\ engine[s].pc = "main"
    /\ \/ task[s].phase = "compile" /\ Moved(s, "prepare", engine[s].status)
       \/ task[s].phase = "run" /\ Moved(s, "clone", engine[s].status)
       \/ task[s].phase = "cleanup" /\ Moved(s, "remove", engine[s].status)
    /\ UNCHANGED <<task, child, group, dir, errfile>> /\ Calm(s)

FailsEarly(s) ==
    /\ engine[s].pc = "main"
    /\ Moved(s, "exited", engine[s].status) \/ Moved(s, "emit", "System Error")
    /\ UNCHANGED <<task, child, group, dir, errfile>> /\ Struck(s)

Emits(s) ==
    /\ engine[s].pc = "emit"
    /\ engine'[s].pc = "exited" /\ engine'[s].status = engine[s].status
    /\ engine'[s].committed = engine[s].committed
    /\ engine'[s].line.form = (IF task[s].phase = "run" THEN "run" ELSE "plain")
    /\ engine'[s].line.status = engine[s].status
    /\ engine'[s].line.job = Job(s) /\ engine'[s].line.attempt = task[s].attempt
    /\ UNCHANGED <<task, child, group, dir, errfile>> /\ Calm(s)

IsKilled(s) ==
    /\ engine[s].pc \notin {"none", "exited", "killed"}
    /\ Moved(s, "killed", engine[s].status)
    /\ child'[s].st \in {"none", "gone"} /\ child'[s].cause \in {child[s].cause, "killed"}
    /\ UNCHANGED <<task, group, dir, errfile>> /\ Struck(s)

Advances(s) ==
    /\ engine[s].pc \in {"exited", "killed"} /\ engine'[s] = NoEngine
    /\ task'[s].job = Job(s) /\ task'[s].attempt = task[s].attempt
    /\ task'[s].shared = task[s].shared
    /\ \/ /\ task[s].phase = "compile" /\ engine[s].line.status = "Compiled"
          /\ task'[s].phase = "run" /\ task'[s].verdict = task[s].verdict
       \/ /\ task[s].phase = "compile" /\ engine[s].line.status # "Compiled"
          /\ task'[s].phase = "done" /\ task'[s].verdict = "Compile Error"
       \/ /\ task[s].phase = "run" /\ ~Accepts(s, engine[s].line)
          /\ task'[s].phase = "done" /\ task'[s].verdict = "System Error"
       \/ /\ task[s].phase = "run" /\ task'[s].phase = "run"
          /\ task'[s].verdict = task[s].verdict /\ engine[s].line.form = "run"
       \/ /\ task[s].phase = "run" /\ task'[s].phase \in {"cleanup", "done"}
          /\ task'[s].verdict = engine[s].line.status /\ engine[s].line.form = "run"
       \/ /\ task[s].phase = "cleanup"
          /\ task'[s].phase = "done" /\ task'[s].verdict = task[s].verdict
    /\ UNCHANGED <<child, group, dir, errfile>> /\ (Calm(s) \/ Struck(s))

Prepares(s) ==
    /\ engine[s].pc = "prepare"
    /\ LET d == dir[Job(s)]
           e == dir'[Job(s)]
       IN  /\ e.gen = d.gen /\ e.made = d.made /\ e.exe = d.exe /\ e.tampered = d.tampered
           /\ \/ (Calm(s) \/ Struck(s)) /\ e.mode = "700" /\ Moved(s, "clone", engine[s].status)
              \/ Struck(s) /\ e.mode = d.mode /\ Moved(s, "emit", "Compile Error")
    /\ UNCHANGED <<task, child, group, errfile>>

IsRemoved(d, e) == ~e.exists /\ ~e.exe /\ ~e.tampered

Unlinks(s) ==
    /\ \/ /\ engine[s].pc = "guard" /\ Moved(s, "emit", engine[s].status)
          /\ \/ Calm(s) /\ IF engine[s].committed THEN dir' = dir ELSE IsRemoved(dir[Job(s)], dir'[Job(s)])
             \/ Struck(s) /\ dir' = dir
       \/ /\ engine[s].pc = "remove" /\ Moved(s, "emit", "Cleaned") /\ (Calm(s) \/ Struck(s))
          /\ dir' = dir \/ IsRemoved(dir[Job(s)], dir'[Job(s)])
    /\ UNCHANGED <<task, child, group, errfile>>

Clones(s) ==
    /\ engine[s].pc = "clone" /\ group'[s] = NoGroup
    /\ errfile' \subseteq errfile /\ (task[s].phase = "run" => Problem(s) \notin errfile')
    /\ \/ /\ Calm(s)
          /\ LET c == child'[s]
             IN  /\ c.kind = task[s].phase /\ c.job = Job(s) /\ c.gen = dir[Job(s)].gen
                 /\ c.st = "setup" /\ c.pc = 1 /\ c.done = {} /\ c.cause = "none"
          /\ \/ Moved(s, "poll", engine[s].status)
             \/ task[s].phase = "run" /\ Moved(s, "create", engine[s].status)
       \/ /\ Struck(s) /\ child' = child
          /\ \/ task[s].phase = "run" /\ Moved(s, "emit", "System Error")
             \/ task[s].phase = "compile" /\ Moved(s, "guard", "Compile Error")
    /\ UNCHANGED <<task, dir>>

Limits(s) ==
    /\ \/ engine[s].pc = "create" /\ Moved(s, "limits", engine[s].status) /\ group'[s].created
       \/ /\ engine[s].pc = "create" /\ Moved(s, "poll", engine[s].status) /\ group' = group
       \/ /\ engine[s].pc = "limits" /\ Moved(s, "join", engine[s].status)
          /\ group'[s].created = group[s].created /\ group'[s].exists = group[s].exists
          /\ group'[s].held = group[s].held
       \/ /\ engine[s].pc = "join" /\ Moved(s, "poll", engine[s].status)
          /\ group'[s].created = group[s].created /\ group'[s].exists = group[s].exists
          /\ group'[s].held = group[s].held
    /\ UNCHANGED <<task, child, dir, errfile>> /\ (Calm(s) \/ Struck(s))

SameEnd(s) ==
    /\ child'[s].kind = child[s].kind /\ child'[s].job = child[s].job
    /\ child'[s].code = child[s].code /\ child'[s].cause = child[s].cause

Reaps(s) ==
    /\ engine[s].pc = "poll" /\ child[s].st = "zombie" /\ child'[s].st = "gone" /\ SameEnd(s)
    /\ engine'[s].line = engine[s].line
    /\ LET code == child[s].code
           status == engine'[s].status
       IN  \/ /\ task[s].phase = "run" /\ engine'[s].pc = "destroy"
              /\ engine'[s].committed = engine[s].committed
              /\ \/ status = "Finished" /\ code = 0
                 \/ status = "Runtime Error" /\ code \in {-1, 127} \cup 1..119
                 \/ /\ status = "System Error" /\ code \in 120..255
                    /\ code = 127 => Problem(s) \in errfile
           \/ /\ task[s].phase = "compile" /\ engine'[s].pc = "reap"
              /\ \/ status = "Compiled" /\ engine'[s].committed /\ code = 0
                 \/ status = "Compile Error" /\ ~engine'[s].committed /\ code # 0
    /\ UNCHANGED <<task, group, dir, errfile>> /\ Calm(s)

GivesUp(s) ==
    /\ engine[s].pc = "poll"
    /\ \/ /\ child[s].st # "zombie" /\ child'[s].st = "gone" /\ child'[s].cause = "killed"
          /\ \/ task[s].phase = "run" /\ Calm(s) /\ Moved(s, "destroy", "Time Limit Exceeded")
             \/ task[s].phase = "compile" /\ Struck(s) /\ Moved(s, "reap", "Compile Error")
       \/ /\ Struck(s) /\ child' = child
          /\ \/ task[s].phase = "run" /\ Moved(s, "destroy", "System Error")
             \/ task[s].phase = "compile" /\ Moved(s, "reap", "Compile Error")
    /\ UNCHANGED <<task, group, dir, errfile>>

Destroys(s) ==
    /\ engine[s].pc = "destroy" /\ Moved(s, "reap", engine[s].status)
    /\ \/ Calm(s) /\ group'[s] = IF group[s].created THEN NoGroup ELSE group[s]
       \/ Struck(s) /\ group'[s].held
    /\ \/ child' = child
       \/ /\ child[s].st \in {"setup", "program"} /\ child'[s].st = "zombie"
          /\ child'[s].kind = child[s].kind /\ child'[s].job = child[s].job
          /\ child'[s].cause = "killed"
    /\ UNCHANGED <<task, dir, errfile>>

Reaped(s) ==
    /\ engine[s].pc = "reap"
    /\ Moved(s, IF task[s].phase = "compile" THEN "guard" ELSE "emit", engine[s].status)
    /\ child'[s].st \in {"none", "gone"} /\ child'[s].cause \in {child[s].cause, "killed"}
    /\ child[s].st = "gone" => child' = child
    /\ UNCHANGED <<task, group, dir, errfile>> /\ Calm(s)

SameKid(s) == child'[s].kind = child[s].kind /\ child'[s].job = child[s].job

SetsUp(s) ==
    LET step == StepOf(s)
        d == dir[Job(s)]
        e == dir'[Job(s)]
    IN  /\ child[s].st = "setup" /\ SameKid(s)
        /\ child'[s].gen = child[s].gen /\ child'[s].cause = child[s].cause
        /\ IF step = "exec"
           THEN child'[s].st = "program" /\ child'[s].pc = child[s].pc
           ELSE child'[s].st = "setup" /\ child'[s].pc = child[s].pc + 1
        /\ child'[s].done \in {child[s].done \cup {step}} \cup
             (IF step = "seccomp" /\ child[s].kind = "run" /\ seccomp = "off"
              THEN {child[s].done} ELSE {})
        /\ e.exists = d.exists /\ e.gen = d.gen /\ e.exe = d.exe /\ e.tampered = d.tampered
        /\ step # "chmod_root" => e.mode = d.mode
        /\ ~Disturbed(s) =>
             /\ d.made \subseteq e.made \cup (IF step = "rmdir_old" THEN {"old_root"} ELSE {})
             /\ step = "mkdir_tmp" => "tmp" \in e.made
             /\ step = "mkdir_proc" => "proc" \in e.made
             /\ step = "mkdir_old" => "old_root" \in e.made
        /\ UNCHANGED <<task, engine, group, errfile>> /\ Calm(s)

Breaks(s) ==
    /\ child[s].st = "setup" /\ child'[s].st = "zombie" /\ SameKid(s)
    /\ child'[s].code # 0
    /\ \/ child'[s].cause = "failed" /\ Struck(s) /\ "setup" \in FaultKinds
       \/ child'[s].cause = "blocked" /\ Calm(s) /\ (~Possible(s) \/ Disturbed(s))
    /\ errfile' = errfile \/ (child[s].kind = "run" /\ errfile' = errfile \cup {ProblemOf[Job(s)]})
    /\ UNCHANGED <<task, engine, group, dir>>

Compiles(s) ==
    LET d == dir[Job(s)]
        e == dir'[Job(s)]
    IN  /\ child[s].st = "program" /\ child[s].kind = "compile"
        /\ child'[s].st = "zombie" /\ SameKid(s) /\ child'[s].cause = "self"
        /\ \/ /\ child'[s].code = 0 /\ Job(s) \in valid /\ e.exe
              /\ e.exists = d.exists /\ e.gen = d.gen /\ e.mode = d.mode /\ e.made = d.made
              /\ e.tampered = d.tampered
           \/ /\ child'[s].code = 1 /\ dir' = dir
              /\ ~(Job(s) \in valid /\ ~Disturbed(s) /\ d.mode = "700")
        /\ UNCHANGED <<task, engine, group, errfile>> /\ Calm(s)

Plays(s) ==
    /\ child[s].st = "program" /\ child[s].kind = "run"
    /\ child'[s].st = "zombie" /\ SameKid(s) /\ child'[s].cause = "self"
    /\ UNCHANGED <<task, engine, group, dir, errfile>> /\ Calm(s)

Shape(s) ==
    \/ Starts(s) \/ Dispatches(s) \/ FailsEarly(s) \/ Emits(s) \/ IsKilled(s) \/ Advances(s)
    \/ Prepares(s) \/ Unlinks(s) \/ Clones(s) \/ Limits(s)
    \/ Reaps(s) \/ GivesUp(s) \/ Destroys(s) \/ Reaped(s)
    \/ SetsUp(s) \/ Breaks(s) \/ Compiles(s) \/ Plays(s)

---------------------------------------------------------------------------
(* Updates of the engine's and of the child's record.                      *)

LEMMA InvTyped ==
    ASSUME EngineInv
    PROVE  /\ Typed /\ hostMounts = {}
           /\ \A s \in Slots : CallOK(s)
           /\ \A j \in Jobs : ~dir[j].tampered
BY DEF EngineInv, TypeOK, ChildTypeOK, CgroupTypeOK, HostUntouched, DirectoryUntouched, Typed, Calls,
       Kids, Dirs, Groups, Verdicts, StepNames, States, Codes, Causes, Pos

LEMMA TypedType == Typed /\ HostUntouched => TypeOK
<1> SUFFICES ASSUME Typed, hostMounts = {} PROVE TypeOK
  BY DEF HostUntouched
<1>1. \A s \in Slots : engine[s].pc \in Pcs
  BY DEF Typed, Engines
<1> QED  BY <1>1 DEF TypeOK, ChildTypeOK, CgroupTypeOK, Typed, Calls, Kids, Dirs, Groups, Verdicts, Pcs,
         StepNames, States, Codes, Causes, Pos

EngineBut(s) ==
    engine' \in [Slots -> Engines] /\ \A o \in Slots \ {s} : engine'[o] = engine[o]

LEMMA GoesBy ==
    ASSUME engine \in [Slots -> Engines], NEW s \in Slots, NEW pc \in Pcs, Goes(s, pc)
    PROVE  EngineBut(s) /\ Moved(s, pc, engine[s].status)
BY DEF Goes, EngineBut, Moved, Engines

LEMMA ReturnsBy ==
    ASSUME engine \in [Slots -> Engines], NEW s \in Slots, NEW pc \in Pcs, NEW status \in Statuses,
           Returns(s, pc, status)
    PROVE  EngineBut(s) /\ Moved(s, pc, status)
BY DEF Returns, EngineBut, Moved, Engines

ChildBut(s) ==
    child' \in [Slots -> Kids] /\ \A o \in Slots \ {s} : child'[o] = child[o]

LEMMA EndedBy ==
    ASSUME child \in [Slots -> Kids], NEW s \in Slots,
           NEW st \in States, NEW code \in Codes, NEW cause \in Causes,
           child' = Ended(s, st, code, cause)
    PROVE  /\ ChildBut(s) /\ SameKid(s)
           /\ child'[s].st = st /\ child'[s].code = code /\ child'[s].cause = cause
<1> DEFINE v == [child[s] EXCEPT !.st = st, !.pc = 1, !.done = {}, !.code = code, !.cause = cause]
<1>1. child[s] \in Kids
  OBVIOUS
<1>2. /\ v.kind = child[s].kind /\ v.job = child[s].job
      /\ v.st = st /\ v.code = code /\ v.cause = cause
  BY <1>1 DEF Kids
<1>3. v \in Kids
  <2>1. 1 \in Pos /\ {} \in SUBSET StepNames
    BY DEF Pos
  <2> QED  BY <1>1, <2>1 DEF Kids
<1>4. child' = [child EXCEPT ![s] = v]
  BY DEF Ended
<1> HIDE DEF v
<1>5. child'[s] = v /\ ChildBut(s)
  BY <1>3, <1>4 DEF ChildBut
<1> QED  BY <1>2, <1>5 DEF SameKid

LEMMA NobodyBy ==
    /\ NoEngine \in Engines /\ NoLine \in Lines /\ NoTask \in Calls /\ NoChild \in Kids
    /\ NoGroup \in Groups /\ NoDir \in Dirs
    /\ NoEngine.pc = "none" /\ NoEngine.status = "none" /\ NoEngine.committed = FALSE
    /\ NoEngine.line = NoLine /\ NoLine.form = "none" /\ NoLine.status = "none"
    /\ NoTask.phase = "idle" /\ NoTask.verdict = "none" /\ NoTask.shared = FALSE
    /\ NoChild.st = "none" /\ NoChild.cause = "none" /\ NoGroup.exists = FALSE
    /\ NoDir.exists = FALSE /\ NoDir.exe = FALSE /\ NoDir.tampered = FALSE
<1>1. (CHOOSE j \in Jobs : TRUE) \in Jobs
  BY ChildAssumption
<1>2. NoLine \in Lines
  BY <1>1 DEF NoLine, Lines, Statuses, Verdicts
<1>3. NoEngine \in Engines
  BY <1>2 DEF NoEngine, Engines, Statuses, Verdicts, Pcs
<1>4. NoTask \in Calls
  BY <1>1, EngineAssumption DEF NoTask, Calls, Verdicts
<1>5. NoChild \in Kids
  BY <1>1 DEF NoChild, Kids, States, Codes, Causes, Pos
<1>6. NoGroup \in Groups /\ NoDir \in Dirs
  BY DEF NoGroup, Groups, NoDir, Dirs
<1>7. /\ NoEngine.pc = "none" /\ NoEngine.status = "none" /\ NoEngine.committed = FALSE
      /\ NoEngine.line = NoLine
  BY DEF NoEngine
<1>8. NoLine.form = "none" /\ NoLine.status = "none" /\ NoTask.phase = "idle" /\ NoTask.verdict = "none"
      /\ NoTask.shared = FALSE
  BY DEF NoLine, NoTask
<1>9. /\ NoChild.st = "none" /\ NoChild.cause = "none" /\ NoGroup.exists = FALSE
      /\ NoDir.exists = FALSE /\ NoDir.exe = FALSE /\ NoDir.tampered = FALSE
  BY DEF NoChild, NoGroup, NoDir
<1> QED  BY <1>2, <1>3, <1>4, <1>5, <1>6, <1>7, <1>8, <1>9

HitBut(s) ==
    /\ hit' \subseteq Slots /\ budget' \in Nat
    /\ \A o \in Slots \ {s} : o \in hit' <=> o \in hit

LEMMA HitBy ==
    ASSUME Typed, NEW s \in Slots
    PROVE  /\ Unhit => HitBut(s) /\ Calm(s)
           /\ \A kind : Hit(s, kind) => HitBut(s) /\ Struck(s) /\ kind \in FaultKinds
           /\ \A kind : Fault(kind) /\ hit' = hit \cup {s} => HitBut(s) /\ Struck(s)
           /\ NoFault /\ UNCHANGED hit => HitBut(s) /\ Calm(s)
BY DEF Typed, Unhit, Hit, Fault, NoFault, HitBut, Calm, Struck

(* A step that touches nothing but the engine of its slot. *)
LEMMA EngineFrame ==
    ASSUME Typed, NEW s \in Slots, EngineBut(s), HitBut(s),
           UNCHANGED <<valid, attempts, task, errfile, child, dir, hostMounts, seccomp, cgroupVars>>
    PROVE  Frame(s)
BY DEF Frame, Typed, EngineBut, HitBut, cgroupVars

LEMMA StartShape ==
    ASSUME EngineInv, NEW s \in Slots, Start(s)
    PROVE  Frame(s) /\ Starts(s)
<1>1. Typed /\ HitBut(s) /\ Calm(s)
  BY InvTyped, HitBy DEF Start
<1> DEFINE e == [NoEngine EXCEPT !.pc = "main"]
<1>2. /\ e \in Engines /\ e.pc = "main" /\ e.status = "none" /\ e.committed = FALSE
      /\ e.line = NoLine
  BY NobodyBy DEF Engines, Pcs
<1>3. engine' = [engine EXCEPT ![s] = e]
  BY DEF Start
<1> HIDE DEF e
<1>4. EngineBut(s) /\ engine'[s] = e
  BY <1>1, <1>2, <1>3 DEF EngineBut, Typed
<1> QED  BY <1>1, <1>2, <1>4, EngineFrame DEF Start, Starts, Live, cgroupVars

LEMMA MainShape ==
    ASSUME EngineInv, NEW s \in Slots, Main(s)
    PROVE  Frame(s) /\ Dispatches(s)
<1>1. Typed /\ HitBut(s) /\ Calm(s) /\ CallOK(s)
  BY InvTyped, HitBy DEF Main
<1>2. task[s].phase \in {"compile", "run", "cleanup"}
  <2>1. engine[s].pc \in PcsOf(task[s].phase) /\ engine[s].pc = "main"
    BY <1>1 DEF CallOK, ControlOK, Main
  <2>2. task[s].phase \notin {"compile", "run", "cleanup"} => PcsOf(task[s].phase) = {"none"}
    BY Zenon DEF PcsOf
  <2> QED  BY <2>1, <2>2
<1>3. PICK pc : pc = Dispatch(Options(task[s].phase))
  OBVIOUS
<1>4. /\ Goes(s, pc) /\ pc \in Pcs
      /\ \/ task[s].phase = "compile" /\ pc = "prepare"
         \/ task[s].phase = "run" /\ pc = "clone"
         \/ task[s].phase = "cleanup" /\ pc = "remove"
  BY <1>2, <1>3, DispatchBy DEF Main, Pcs
<1>5. EngineBut(s) /\ Moved(s, pc, engine[s].status)
  BY <1>1, <1>4, GoesBy DEF Typed
<1> QED  BY <1>1, <1>4, <1>5, EngineFrame DEF Main, Dispatches, cgroupVars

LEMMA FailShape ==
    ASSUME EngineInv, NEW s \in Slots, LoadConfigFails(s) \/ ValidateConfigFails(s)
    PROVE  Frame(s) /\ FailsEarly(s)
<1>1. Typed /\ HitBut(s) /\ Struck(s)
  BY InvTyped, HitBy DEF LoadConfigFails, ValidateConfigFails
<1>2. /\ EngineBut(s)
      /\ Moved(s, "exited", engine[s].status) \/ Moved(s, "emit", "System Error")
  BY <1>1, GoesBy, ReturnsBy DEF Typed, LoadConfigFails, ValidateConfigFails, Pcs, Statuses, Verdicts
<1>3. /\ engine[s].pc = "main"
      /\ UNCHANGED <<valid, attempts, task, errfile, child, dir, hostMounts, seccomp, cgroupVars>>
  BY DEF LoadConfigFails, ValidateConfigFails
<1> QED  BY <1>1, <1>2, <1>3, EngineFrame DEF FailsEarly, cgroupVars

LEMMA EmitShape ==
    ASSUME EngineInv, NEW s \in Slots, Emit(s)
    PROVE  Frame(s) /\ Emits(s)
<1>1. Typed /\ HitBut(s) /\ Calm(s) /\ CallOK(s)
  BY InvTyped, HitBy DEF Emit
<1>2. task[s].phase \in {"compile", "run", "cleanup"}
  <2>1. engine[s].pc \in PcsOf(task[s].phase) /\ engine[s].pc = "emit"
    BY <1>1 DEF CallOK, ControlOK, Emit
  <2>2. task[s].phase \notin {"compile", "run", "cleanup"} => PcsOf(task[s].phase) = {"none"}
    BY Zenon DEF PcsOf
  <2> QED  BY <2>1, <2>2
<1>3. PICK form : form = Form(Options(task[s].phase))
  OBVIOUS
<1>4. form = IF task[s].phase = "run" THEN "run" ELSE "plain"
  BY <1>2, <1>3, DispatchBy
<1> DEFINE line == [form |-> form, status |-> engine[s].status, job |-> Job(s),
                    attempt |-> task[s].attempt]
           e == [engine[s] EXCEPT !.pc = "exited", !.line = line]
<1>5. engine[s] \in Engines /\ task[s] \in Calls
  BY <1>1 DEF Typed
<1>6. line \in Lines
  BY <1>4, <1>5 DEF Lines, Engines, Calls, Job
<1>7. line.form = form /\ line.status = engine[s].status /\ line.job = Job(s)
      /\ line.attempt = task[s].attempt
  OBVIOUS
<1>8. engine' = [engine EXCEPT ![s] = e]
  BY <1>1, <1>3 DEF Emit, Typed
<1> HIDE DEF line
<1>9. /\ e \in Engines /\ e.pc = "exited" /\ e.status = engine[s].status
      /\ e.committed = engine[s].committed /\ e.line = line
  BY <1>5, <1>6 DEF Engines, Pcs
<1> HIDE DEF e
<1>10. EngineBut(s) /\ engine'[s] = e
  BY <1>1, <1>8, <1>9 DEF EngineBut, Typed
<1> QED  BY <1>1, <1>4, <1>7, <1>9, <1>10, EngineFrame DEF Emit, Emits, cgroupVars

(* Every place of the engine belongs to a phase. *)
LEMMA PlaceBy ==
    ASSUME NEW phase, NEW pc \in PcsOf(phase)
    PROVE  /\ pc # "none" => phase \in {"compile", "run", "cleanup"}
           /\ pc \in {"prepare", "guard"} => phase = "compile"
           /\ pc \in {"create", "limits", "join", "destroy"} => phase = "run"
           /\ pc \in {"clone", "poll", "reap"} => phase \in {"compile", "run"}
           /\ pc = "remove" => phase = "cleanup"
<1>1. CASE phase = "compile"
  <2>1. PcsOf(phase) = {"none", "main", "prepare", "clone", "poll", "reap", "guard", "emit",
                        "exited", "killed"}
    BY <1>1, Zenon DEF PcsOf
  <2> QED  BY <1>1, <2>1
<1>2. CASE phase = "run"
  <2>1. PcsOf(phase) = {"none", "main", "clone", "create", "limits", "join", "poll", "destroy",
                        "reap", "emit", "exited", "killed"}
    BY <1>2, Zenon DEF PcsOf
  <2> QED  BY <1>2, <2>1
<1>3. CASE phase = "cleanup"
  <2>1. PcsOf(phase) = {"none", "main", "remove", "emit", "exited", "killed"}
    BY <1>3, Zenon DEF PcsOf
  <2> QED  BY <1>3, <2>1
<1>4. CASE phase \notin {"compile", "run", "cleanup"}
  <2>1. PcsOf(phase) = {"none"}
    BY <1>4, Zenon DEF PcsOf
  <2> QED  BY <2>1
<1> QED  BY <1>1, <1>2, <1>3, <1>4

LEMMA KillShape ==
    ASSUME EngineInv, NEW s \in Slots, Kill(s)
    PROVE  Frame(s) /\ IsKilled(s)
<1>1. Typed /\ HitBut(s) /\ Struck(s)
  BY InvTyped, HitBy DEF Kill
<1>2. EngineBut(s) /\ Moved(s, "killed", engine[s].status)
  BY <1>1, GoesBy DEF Typed, Kill, Pcs
<1>3. /\ ChildBut(s) /\ child'[s].st \in {"none", "gone"}
      /\ child'[s].cause \in {child[s].cause, "killed"}
  <2>1. CASE child[s].st \in {"setup", "program", "zombie"}
    <3>1. child' = Ended(s, "gone", -1, "killed")
      BY <2>1 DEF Kill
    <3>2. "gone" \in States /\ -1 \in Codes /\ "killed" \in Causes
      BY DEF States, Codes, Causes
    <3> QED  BY <1>1, <3>1, <3>2, EndedBy DEF Typed
  <2>2. CASE child[s].st \notin {"setup", "program", "zombie"}
    <3>1. child' = child
      BY <2>2 DEF Kill
    <3>2. child[s].st \in States
      BY <1>1 DEF Typed, Kids
    <3> QED  BY <1>1, <2>2, <3>1, <3>2 DEF States, ChildBut, Typed
  <2> QED  BY <2>1, <2>2
<1>4. Typed'
  BY <1>1, <1>2, <1>3 DEF Kill, Typed, EngineBut, ChildBut, HitBut, cgroupVars
<1>5. Frame(s)
  BY <1>1, <1>2, <1>3, <1>4 DEF Kill, Frame, EngineBut, ChildBut, HitBut, cgroupVars
<1> QED  BY <1>1, <1>2, <1>3, <1>5 DEF Kill, IsKilled, cgroupVars

LEMMA ReturnShape ==
    ASSUME EngineInv, NEW s \in Slots, GoReturns(s)
    PROVE  Frame(s) /\ Advances(s)
<1>1. Typed /\ CallOK(s) /\ task[s] \in Calls /\ engine[s] \in Engines
  BY InvTyped DEF Typed
<1>2. HitBut(s) /\ (Calm(s) \/ Struck(s))
  BY <1>1, HitBy DEF GoReturns, CompileReturns, RunRejected, NextCase, Report, CleanupReturns
<1>3. EngineBut(s) /\ engine'[s] = NoEngine
  BY <1>1, NobodyBy DEF GoReturns, EngineBut, Typed
<1>4. engine[s].line.status \in Verdicts \/ task[s].phase # "run"
  <2>1. task[s].phase = "run" =>
          engine[s].status \in {"none", "Finished", "Runtime Error", "System Error", "Time Limit Exceeded"}
    BY <1>1, Zenon DEF CallOK, ControlOK
  <2>2. engine[s].line = NoLine \/ engine[s].line.status = engine[s].status
    BY <1>1 DEF CallOK, ControlOK
  <2> QED  BY <2>1, <2>2, NobodyBy DEF Verdicts
<1> DEFINE Same(t) == t \in Calls /\ t.job = Job(s) /\ t.attempt = task[s].attempt
                      /\ t.shared = task[s].shared
<1>5. PICK t \in Calls :
        /\ task' = [task EXCEPT ![s] = t] /\ Same(t)
        /\ \/ /\ task[s].phase = "compile" /\ engine[s].line.status = "Compiled"
              /\ t.phase = "run" /\ t.verdict = task[s].verdict
           \/ /\ task[s].phase = "compile" /\ engine[s].line.status # "Compiled"
              /\ t.phase = "done" /\ t.verdict = "Compile Error"
           \/ /\ task[s].phase = "run" /\ ~Accepts(s, engine[s].line)
              /\ t.phase = "done" /\ t.verdict = "System Error"
           \/ /\ task[s].phase = "run" /\ t.phase = "run"
              /\ t.verdict = task[s].verdict /\ engine[s].line.form = "run"
           \/ /\ task[s].phase = "run" /\ t.phase \in {"cleanup", "done"}
              /\ t.verdict = engine[s].line.status /\ engine[s].line.form = "run"
           \/ /\ task[s].phase = "cleanup"
              /\ t.phase = "done" /\ t.verdict = task[s].verdict
  <2>1. CASE CompileReturns(s) /\ engine[s].line.status = "Compiled"
    <3> DEFINE t == [task[s] EXCEPT !.phase = "run"]
    <3>1. Same(t) /\ t.phase = "run" /\ t.verdict = task[s].verdict
      BY <1>1 DEF Calls, Job
    <3>2. task' = [task EXCEPT ![s] = t]
      BY <2>1 DEF CompileReturns, Continues
    <3> QED  BY <2>1, <3>1, <3>2 DEF CompileReturns
  <2>2. CASE CompileReturns(s) /\ engine[s].line.status # "Compiled"
    <3> DEFINE t == [task[s] EXCEPT !.phase = "done", !.verdict = "Compile Error"]
    <3>1. Same(t) /\ t.phase = "done" /\ t.verdict = "Compile Error"
      BY <1>1 DEF Calls, Job, Verdicts
    <3>2. task' = [task EXCEPT ![s] = t]
      BY <2>2 DEF CompileReturns, Continues
    <3> QED  BY <2>2, <3>1, <3>2 DEF CompileReturns
  <2>3. CASE RunRejected(s)
    <3> DEFINE t == [task[s] EXCEPT !.phase = "done", !.verdict = "System Error"]
    <3>1. Same(t) /\ t.phase = "done" /\ t.verdict = "System Error"
      BY <1>1 DEF Calls, Job, Verdicts
    <3>2. task' = [task EXCEPT ![s] = t]
      BY <2>3 DEF RunRejected, Continues
    <3> QED  BY <2>3, <3>1, <3>2 DEF RunRejected
  <2>4. CASE NextCase(s)
    <3> DEFINE t == [task[s] EXCEPT !.left = @ - 1]
    <3>1. task[s].left - 1 \in 0..Cases
      BY <1>1, <2>4, EngineAssumption DEF NextCase, Calls
    <3>2. Same(t) /\ t.phase = task[s].phase /\ t.verdict = task[s].verdict
      BY <1>1, <3>1 DEF Calls, Job
    <3>3. task' = [task EXCEPT ![s] = t]
      BY <2>4 DEF NextCase, Continues
    <3> QED  BY <2>4, <3>2, <3>3 DEF NextCase, Accepts
  <2>5. ASSUME NEW phase \in {"cleanup", "done"}, Report(s),
               Continues(s, [[task[s] EXCEPT !.verdict = engine[s].line.status] EXCEPT !.phase = phase])
        PROVE  \E t \in Calls : /\ task' = [task EXCEPT ![s] = t] /\ Same(t)
                                /\ t.phase = phase /\ t.verdict = engine[s].line.status
    <3> DEFINE u == [task[s] EXCEPT !.verdict = engine[s].line.status]
               t == [u EXCEPT !.phase = phase]
    <3>1. engine[s].line.status \in Verdicts
      BY <1>4, <2>5 DEF Report
    <3>2. Same(u) /\ u.verdict = engine[s].line.status
      BY <1>1, <3>1 DEF Calls, Job
    <3>3. task' = [task EXCEPT ![s] = t]
      BY <2>5 DEF Continues
    <3> HIDE DEF u
    <3>4. Same(t) /\ t.verdict = engine[s].line.status /\ t.phase = phase
      BY <3>2 DEF Calls
    <3> QED  BY <3>3, <3>4
  <2>6. CASE Report(s)
    <3>1. \/ Continues(s, [[task[s] EXCEPT !.verdict = engine[s].line.status] EXCEPT !.phase = "cleanup"])
          \/ Continues(s, [[task[s] EXCEPT !.verdict = engine[s].line.status] EXCEPT !.phase = "done"])
      BY <2>6 DEF Report
    <3> HIDE DEF Same
    <3>2. PICK t \in Calls : /\ task' = [task EXCEPT ![s] = t] /\ Same(t)
                             /\ t.phase \in {"cleanup", "done"} /\ t.verdict = engine[s].line.status
      BY <2>5, <2>6, <3>1
    <3> QED  BY <2>6, <3>2 DEF Report, Accepts
  <2>7. CASE CleanupReturns(s)
    <3> DEFINE t == [task[s] EXCEPT !.phase = "done"]
    <3>1. Same(t) /\ t.phase = "done" /\ t.verdict = task[s].verdict
      BY <1>1 DEF Calls, Job
    <3>2. task' = [task EXCEPT ![s] = t]
      BY <2>7 DEF CleanupReturns, Continues
    <3> QED  BY <2>7, <3>1, <3>2 DEF CleanupReturns
  <2> QED  BY <2>1, <2>2, <2>3, <2>4, <2>6, <2>7 DEF GoReturns
<1>6. /\ task' \in [Slots -> Calls] /\ task'[s] = t
      /\ \A o \in Slots \ {s} : task'[o] = task[o]
  BY <1>1, <1>5 DEF Typed
<1>7. Typed'
  BY <1>1, <1>2, <1>3, <1>6 DEF GoReturns, Typed, EngineBut, HitBut, cgroupVars
<1>8. Frame(s)
  BY <1>2, <1>3, <1>6, <1>7 DEF GoReturns, Frame, EngineBut, HitBut, cgroupVars
<1> QED  BY <1>2, <1>3, <1>5, <1>6, <1>8 DEF GoReturns, Advances, cgroupVars

GroupBut(s) ==
    group' \in [Slots -> Groups] /\ \A o \in Slots \ {s} : group'[o] = group[o]

DirBut(s) ==
    dir' \in [Jobs -> Dirs] /\ \A j \in Jobs \ {Job(s)} : dir'[j] = dir[j]

LEMMA SameBy ==
    ASSUME Typed, NEW s \in Slots
    PROVE  /\ engine' = engine => EngineBut(s)
           /\ child' = child => ChildBut(s)
           /\ group' = group => GroupBut(s)
           /\ dir' = dir => DirBut(s)
BY DEF Typed, EngineBut, ChildBut, GroupBut, DirBut

LEMMA FrameBy ==
    ASSUME Typed, NEW s \in Slots, EngineBut(s), ChildBut(s), GroupBut(s), DirBut(s), HitBut(s),
           UNCHANGED <<valid, attempts, task, hostMounts, seccomp>>,
           errfile' \subseteq Problems, delegated' \in BOOLEAN
    PROVE  Frame(s)
BY DEF Frame, Typed, EngineBut, ChildBut, GroupBut, DirBut, HitBut

LEMMA RemoveBy ==
    ASSUME Typed, NEW s \in Slots, dir' = [dir EXCEPT ![Job(s)] = Remove(@)]
    PROVE  DirBut(s) /\ IsRemoved(dir[Job(s)], dir'[Job(s)])
<1> DEFINE v == Remove(dir[Job(s)])
<1>1. Job(s) \in Jobs
  BY DEF Typed, Calls, Job
<1>2. dir[Job(s)] \in Dirs
  BY <1>1 DEF Typed
<1>3. v \in Dirs /\ v.exists = FALSE /\ v.exe = FALSE /\ v.tampered = FALSE
  BY <1>2, NobodyBy DEF Remove, Dirs
<1>4. dir' = [dir EXCEPT ![Job(s)] = v]
  OBVIOUS
<1> HIDE DEF v
<1>5. DirBut(s) /\ dir'[Job(s)] = v
  BY <1>1, <1>3, <1>4 DEF DirBut, Typed
<1> QED  BY <1>3, <1>5 DEF IsRemoved

LEMMA PrepareShape ==
    ASSUME EngineInv, NEW s \in Slots, Prepare(s)
    PROVE  Frame(s) /\ Prepares(s)
<1>1. Typed /\ Job(s) \in Jobs
  BY InvTyped DEF Typed, Calls, Job
<1>2. ChildBut(s) /\ GroupBut(s) /\ errfile' \subseteq Problems /\ delegated' \in BOOLEAN
      /\ UNCHANGED <<valid, attempts, task, hostMounts, seccomp>>
  BY <1>1, SameBy DEF Prepare, cgroupVars, Typed
<1> DEFINE made == [dir[Job(s)] EXCEPT !.exists = TRUE]
           taken == [dir[Job(s)] EXCEPT !.exists = TRUE, !.mode = "700"]
           Kept(d) == /\ d \in Dirs /\ d.gen = dir[Job(s)].gen /\ d.made = dir[Job(s)].made
                      /\ d.exe = dir[Job(s)].exe /\ d.tampered = dir[Job(s)].tampered
<1>3. dir[Job(s)] \in Dirs
  BY <1>1 DEF Typed
<1>4. Kept(made) /\ made.mode = dir[Job(s)].mode /\ Kept(taken) /\ taken.mode = "700"
      /\ Kept(dir[Job(s)])
  BY <1>3 DEF Dirs
<1>5. CASE /\ (Unhit \/ Hit(s, "prepare")) /\ Goes(s, "clone")
           /\ dir' = [dir EXCEPT ![Job(s)].exists = TRUE, ![Job(s)].mode = "700"]
  <2>1. dir' = [dir EXCEPT ![Job(s)] = taken]
    BY <1>1, <1>5 DEF Typed
  <2> HIDE DEF made, taken
  <2>2. dir'[Job(s)] = taken /\ DirBut(s)
    BY <1>1, <1>4, <2>1 DEF DirBut, Typed
  <2>3. EngineBut(s) /\ Moved(s, "clone", engine[s].status) /\ HitBut(s) /\ (Calm(s) \/ Struck(s))
    BY <1>1, <1>5, GoesBy, HitBy DEF Typed, Pcs
  <2> QED  BY <1>1, <1>2, <1>4, <2>2, <2>3, FrameBy DEF Prepare, Prepares, cgroupVars
<1>6. CASE /\ Hit(s, "prepare") /\ dir' \in {dir, [dir EXCEPT ![Job(s)].exists = TRUE]}
           /\ Returns(s, "emit", "Compile Error")
  <2>1. dir' = dir \/ dir' = [dir EXCEPT ![Job(s)] = made]
    BY <1>1, <1>6 DEF Typed
  <2>2. PICK d \in Dirs : d = dir'[Job(s)] /\ d \in {dir[Job(s)], made}
    <3> HIDE DEF made
    <3> QED  BY <1>1, <1>3, <1>4, <2>1 DEF Typed
  <2> HIDE DEF made, taken
  <2>3. DirBut(s) /\ Kept(d) /\ d.mode = dir[Job(s)].mode
    BY <1>1, <1>4, <2>1, <2>2 DEF DirBut, Typed
  <2>4. EngineBut(s) /\ Moved(s, "emit", "Compile Error") /\ HitBut(s) /\ Struck(s)
    BY <1>1, <1>6, ReturnsBy, HitBy DEF Typed, Pcs, Statuses, Verdicts
  <2> QED  BY <1>1, <1>2, <2>2, <2>3, <2>4, FrameBy DEF Prepare, Prepares, cgroupVars
<1> QED  BY <1>5, <1>6 DEF Prepare

LEMMA UnlinkShape ==
    ASSUME EngineInv, NEW s \in Slots, Guard(s) \/ Cleanup(s)
    PROVE  Frame(s) /\ Unlinks(s)
<1>1. Typed
  BY InvTyped
<1>2. ChildBut(s) /\ GroupBut(s) /\ errfile' \subseteq Problems /\ delegated' \in BOOLEAN
      /\ UNCHANGED <<valid, attempts, task, hostMounts, seccomp, child, group, errfile>>
  BY <1>1, SameBy DEF Guard, Cleanup, cgroupVars, Typed
<1>3. CASE Guard(s)
  <2>1. EngineBut(s) /\ Moved(s, "emit", engine[s].status) /\ HitBut(s)
    BY <1>1, <1>3, GoesBy, HitBy DEF Typed, Pcs, Guard
  <2>2. \/ /\ Unhit
           /\ IF engine[s].committed THEN dir' = dir ELSE dir' = [dir EXCEPT ![Job(s)] = Remove(@)]
        \/ Hit(s, "remove") /\ dir' = dir
    BY <1>3, Zenon DEF Guard
  <2>3. /\ DirBut(s)
        /\ \/ Calm(s) /\ IF engine[s].committed THEN dir' = dir ELSE IsRemoved(dir[Job(s)], dir'[Job(s)])
           \/ Struck(s) /\ dir' = dir
    BY <1>1, <2>2, RemoveBy, SameBy, HitBy
  <2> QED  BY <1>1, <1>2, <1>3, <2>1, <2>3, FrameBy DEF Guard, Unlinks
<1>4. CASE Cleanup(s)
  <2>1. EngineBut(s) /\ Moved(s, "emit", "Cleaned") /\ HitBut(s) /\ (Calm(s) \/ Struck(s))
    BY <1>1, <1>4, ReturnsBy, HitBy DEF Typed, Pcs, Cleanup, Statuses
  <2>2. dir' = dir \/ dir' = [dir EXCEPT ![Job(s)] = Remove(@)]
    BY <1>4, Zenon DEF Cleanup
  <2>3. DirBut(s) /\ (dir' = dir \/ IsRemoved(dir[Job(s)], dir'[Job(s)]))
    BY <1>1, <2>2, RemoveBy, SameBy
  <2> QED  BY <1>1, <1>2, <1>4, <2>1, <2>3, FrameBy DEF Cleanup, Unlinks
<1> QED  BY <1>3, <1>4

LEMMA CloneShape ==
    ASSUME EngineInv, NEW s \in Slots, Clone(s)
    PROVE  Frame(s) /\ Clones(s)
<1>1. Typed /\ CallOK(s) /\ Job(s) \in Jobs /\ task[s] \in Calls
  BY InvTyped DEF Typed, Calls, Job
<1>2. task[s].phase \in {"compile", "run"} /\ engine[s].pc = "clone"
  <2>1. engine[s].pc \in PcsOf(task[s].phase) /\ engine[s].pc = "clone"
    BY <1>1 DEF CallOK, ControlOK, Clone
  <2> QED  BY <2>1, PlaceBy
<1>3. GroupBut(s) /\ group'[s] = NoGroup /\ DirBut(s) /\ delegated' \in BOOLEAN
      /\ UNCHANGED <<valid, attempts, task, dir, hostMounts, seccomp>>
  BY <1>1, SameBy, NobodyBy DEF Clone, GroupBut, Typed
<1>4. /\ errfile' \subseteq errfile /\ errfile' \subseteq Problems
      /\ task[s].phase = "run" => Problem(s) \notin errfile'
  BY <1>1 DEF Clone, Typed
<1>5. CASE /\ Unhit
           /\ child' = [child EXCEPT ![s] = [NoChild EXCEPT !.kind = task[s].phase, !.job = Job(s),
                                                            !.gen = dir[Job(s)].gen, !.st = "setup"]]
           /\ Goes(s, IF task[s].phase = "run" /\ GetCgroup2MountRoot # "" THEN "create" ELSE "poll")
  <2> DEFINE c == [NoChild EXCEPT !.kind = task[s].phase, !.job = Job(s),
                                  !.gen = dir[Job(s)].gen, !.st = "setup"]
  <2>1. dir[Job(s)].gen \in Nat
    BY <1>1 DEF Typed, Dirs
  <2>2. /\ c.kind = task[s].phase /\ c.job = Job(s) /\ c.gen = dir[Job(s)].gen
        /\ c.st = "setup" /\ c.pc = 1 /\ c.done = {} /\ c.cause = "none"
    BY DEF NoChild
  <2>3. c \in Kids
    BY <1>1, <1>2, <2>1, NobodyBy DEF Kids, States
  <2>4. child' = [child EXCEPT ![s] = c]
    BY <1>5
  <2> HIDE DEF c
  <2>5. ChildBut(s) /\ child'[s] = c
    BY <1>1, <2>3, <2>4 DEF ChildBut, Typed
  <2>6. PICK pc \in Pcs : /\ Goes(s, pc) /\ pc \in {"create", "poll"}
                          /\ pc = "create" => task[s].phase = "run"
    BY <1>5 DEF Pcs
  <2>7. EngineBut(s) /\ Moved(s, pc, engine[s].status) /\ HitBut(s) /\ Calm(s)
    BY <1>1, <1>5, <2>6, GoesBy, HitBy DEF Typed
  <2>8. Frame(s)
    BY <1>1, <1>3, <1>4, <2>5, <2>7, FrameBy
  <2> QED  BY <1>2, <1>3, <1>4, <2>2, <2>5, <2>6, <2>7, <2>8 DEF Clones
<1>6. CASE /\ Hit(s, "clone") /\ UNCHANGED child
           /\ IF task[s].phase = "run" THEN Returns(s, "emit", "System Error")
              ELSE Returns(s, "guard", "Compile Error")
  <2>1. ChildBut(s) /\ HitBut(s) /\ Struck(s) /\ child' = child
    BY <1>1, <1>6, SameBy, HitBy
  <2>2. /\ EngineBut(s)
        /\ \/ task[s].phase = "run" /\ Moved(s, "emit", "System Error")
           \/ task[s].phase = "compile" /\ Moved(s, "guard", "Compile Error")
    BY <1>1, <1>2, <1>6, ReturnsBy DEF Typed, Pcs, Statuses, Verdicts
  <2>3. Frame(s)
    BY <1>1, <1>3, <1>4, <2>1, <2>2, FrameBy
  <2> QED  BY <1>2, <1>3, <1>4, <2>1, <2>2, <2>3 DEF Clones
<1> QED  BY <1>5, <1>6 DEF Clone

LEMMA GroupShape ==
    ASSUME EngineInv, NEW s \in Slots, Group(s)
    PROVE  Frame(s) /\ Limits(s)
<1>1. Typed /\ group[s] \in Groups /\ delegated \in BOOLEAN
  BY InvTyped DEF Typed
<1>2. /\ UNCHANGED <<valid, attempts, task, errfile, child, dir, hostMounts, seccomp>>
      /\ ChildBut(s) /\ DirBut(s) /\ errfile' \subseteq Problems /\ delegated' \in BOOLEAN
  BY <1>1, SameBy DEF Group, Create, SetLimits, AddProcess, Typed
<1>3. HitBut(s) /\ (Calm(s) \/ Struck(s))
  BY <1>1, HitBy DEF Group, Create, SetLimits, AddProcess, WriteRefused
<1>4. CASE engine[s].pc = "create" /\ Create(s) /\ Goes(s, IF group'[s].created THEN "limits" ELSE "poll")
  <2> DEFINE g == [NoGroup EXCEPT !.exists = TRUE, !.created = TRUE]
  <2>1. g \in Groups /\ g.created = TRUE
    BY DEF NoGroup, Groups
  <2>2. group' = [group EXCEPT ![s] = g] \/ group' = group
    BY <1>4 DEF Create
  <2> HIDE DEF g
  <2>3. GroupBut(s) /\ (group'[s].created \/ group' = group)
    BY <1>1, <2>1, <2>2 DEF GroupBut, Typed
  <2>4. PICK pc \in Pcs : /\ Goes(s, pc) /\ pc \in {"limits", "poll"}
                          /\ IF group'[s].created THEN pc = "limits" ELSE pc = "poll"
    BY <1>4 DEF Pcs
  <2>5. EngineBut(s) /\ Moved(s, pc, engine[s].status)
    BY <1>1, <2>4, GoesBy DEF Typed
  <2>6. Frame(s)
    BY <1>1, <1>2, <1>3, <2>3, <2>5, FrameBy
  <2> QED  BY <1>2, <1>3, <1>4, <2>3, <2>4, <2>5, <2>6 DEF Limits
<1>5. CASE engine[s].pc = "limits" /\ SetLimits(s) /\ Goes(s, "join")
  <2>1. PICK l \in SUBSET LimitFiles : group' = [group EXCEPT ![s].limits = l]
    BY <1>5 DEF SetLimits
  <2>2. GroupBut(s) /\ group'[s].created = group[s].created /\ group'[s].exists = group[s].exists
        /\ group'[s].held = group[s].held
    BY <1>1, <2>1 DEF GroupBut, Typed, Groups
  <2>3. EngineBut(s) /\ Moved(s, "join", engine[s].status)
    BY <1>1, <1>5, GoesBy DEF Typed, Pcs
  <2>4. Frame(s)
    BY <1>1, <1>2, <1>3, <2>2, <2>3, FrameBy
  <2> QED  BY <1>2, <1>3, <1>5, <2>2, <2>3, <2>4 DEF Limits
<1>6. CASE engine[s].pc = "join" /\ AddProcess(s) /\ Goes(s, "poll")
  <2>1. (\E b \in BOOLEAN : group' = [group EXCEPT ![s].member = b]) \/ group' = group
    <3>1. (child[s].st \in {"setup", "program"}) \in BOOLEAN
      OBVIOUS
    <3> QED  BY <1>6, <3>1, Zenon DEF AddProcess
  <2>2. GroupBut(s) /\ group'[s].created = group[s].created /\ group'[s].exists = group[s].exists
        /\ group'[s].held = group[s].held
    BY <1>1, <2>1, SMTT(60) DEF GroupBut, Typed, Groups
  <2>3. EngineBut(s) /\ Moved(s, "poll", engine[s].status)
    BY <1>1, <1>6, GoesBy DEF Typed, Pcs
  <2>4. Frame(s)
    BY <1>1, <1>2, <1>3, <2>2, <2>3, FrameBy
  <2> QED  BY <1>2, <1>3, <1>6, <2>2, <2>3, <2>4 DEF Limits
<1> QED  BY <1>4, <1>5, <1>6 DEF Group

LEMMA GoneBy ==
    ASSUME Typed, NEW s \in Slots, child' = [child EXCEPT ![s].st = "gone"]
    PROVE  ChildBut(s) /\ child'[s].st = "gone" /\ SameEnd(s)
BY SMTT(60) DEF Typed, ChildBut, SameEnd, Kids, States

(* What becomes of the exit code of a program. *)
LEMMA ByExitCodeBy ==
    ASSUME NEW s \in Slots, NEW code \in Codes
    PROVE  \/ ByExitCode(s, code) = "Finished" /\ code = 0
           \/ ByExitCode(s, code) = "Runtime Error" /\ code \in {-1, 127} \cup 1..119
           \/ /\ ByExitCode(s, code) = "System Error" /\ code \in 120..255
              /\ code = 127 => Problem(s) \in errfile
<1>1. CASE code = 0
  <2>1. code # 127 /\ ~(code > 119)
    BY <1>1
  <2>2. ByExitCode(s, code) = "Finished"
    BY <1>1, <2>1, Zenon DEF ByExitCode
  <2> QED  BY <1>1, <2>2
<1>2. CASE code = 127
  <2>1. code # 0 /\ ~(code > 119 /\ code # 127) /\ code \in 120..255
    BY <1>2
  <2>2. ByExitCode(s, code) = IF Problem(s) \in errfile THEN "System Error" ELSE "Runtime Error"
    BY <1>2, <2>1, Zenon DEF ByExitCode, ReadRunExecFailureMarker
  <2> QED  BY <1>2, <2>1, <2>2
<1>3. CASE code > 119 /\ code # 127
  <2>1. code # 0 /\ code \in 120..255
    BY <1>3 DEF Codes
  <2>2. ByExitCode(s, code) = "System Error"
    BY <1>3, <2>1, Zenon DEF ByExitCode
  <2> QED  BY <1>3, <2>1, <2>2
<1>4. CASE code # 0 /\ ~(code > 119)
  <2>1. code # 127 /\ code \in {-1} \cup 1..119
    BY <1>4 DEF Codes
  <2>2. ByExitCode(s, code) = "Runtime Error"
    BY <1>4, <2>1, Zenon DEF ByExitCode
  <2> QED  BY <2>1, <2>2
<1> QED  BY <1>1, <1>2, <1>3, <1>4

LEMMA ReapShape ==
    ASSUME EngineInv, NEW s \in Slots, Reap(s)
    PROVE  Frame(s) /\ Reaps(s)
<1>1. Typed /\ CallOK(s) /\ engine[s] \in Engines
  BY InvTyped DEF Typed
<1>2. task[s].phase \in {"compile", "run"} /\ engine[s].pc = "poll" /\ child[s].st = "zombie"
  <2>1. engine[s].pc \in PcsOf(task[s].phase) /\ engine[s].pc = "poll"
    BY <1>1 DEF CallOK, ControlOK, Reap
  <2> QED  BY <2>1, PlaceBy DEF Reap
<1>3. ChildBut(s) /\ child'[s].st = "gone" /\ SameEnd(s)
  BY <1>1, GoneBy DEF Reap
<1>4. /\ UNCHANGED <<valid, attempts, task, errfile, dir, hostMounts, seccomp, group, delegated>>
      /\ GroupBut(s) /\ DirBut(s) /\ HitBut(s) /\ Calm(s)
      /\ errfile' \subseteq Problems /\ delegated' \in BOOLEAN
  BY <1>1, SameBy, HitBy DEF Reap, cgroupVars, Typed
<1>5. PICK code \in Codes : code = child[s].code
  BY <1>1 DEF Typed, Kids
<1>6. PICK status : status = ByExitCode(s, code)
  OBVIOUS
<1>7. CASE task[s].phase = "run"
  <2> DEFINE e == [engine[s] EXCEPT !.pc = "destroy", !.status = status]
  <2>1. status \in Statuses
    BY <1>6, ByExitCodeBy DEF Statuses, Verdicts
  <2>2. /\ e \in Engines /\ e.pc = "destroy" /\ e.status = status
        /\ e.committed = engine[s].committed /\ e.line = engine[s].line
    BY <1>1, <2>1 DEF Engines, Pcs
  <2>3. engine' = [engine EXCEPT ![s] = e]
    BY <1>5, <1>6, <1>7 DEF Reap
  <2> HIDE DEF e
  <2>4. EngineBut(s) /\ engine'[s] = e
    BY <1>1, <2>2, <2>3 DEF EngineBut, Typed
  <2>5. Frame(s)
    BY <1>1, <1>3, <1>4, <2>4, FrameBy
  <2>6. \/ status = "Finished" /\ code = 0
        \/ status = "Runtime Error" /\ code \in {-1, 127} \cup 1..119
        \/ /\ status = "System Error" /\ code \in 120..255
           /\ code = 127 => Problem(s) \in errfile
    <3>1. \/ ByExitCode(s, code) = "Finished" /\ code = 0
          \/ ByExitCode(s, code) = "Runtime Error" /\ code \in {-1, 127} \cup 1..119
          \/ /\ ByExitCode(s, code) = "System Error" /\ code \in 120..255
             /\ code = 127 => Problem(s) \in errfile
      BY ByExitCodeBy, ZenonT(60)
    <3> QED  BY <1>6, <3>1
  <2> QED  BY <1>2, <1>3, <1>4, <1>5, <1>7, <2>2, <2>4, <2>5, <2>6 DEF Reaps
<1>8. CASE task[s].phase = "compile"
  <2> DEFINE verdict == IF code = 0 THEN "Compiled" ELSE "Compile Error"
             e == [engine[s] EXCEPT !.pc = "reap", !.committed = (code = 0), !.status = verdict]
  <2>1. verdict \in Statuses
    BY DEF Statuses, Verdicts
  <2>2. (code = 0) \in BOOLEAN
    OBVIOUS
  <2>3. engine' = [engine EXCEPT ![s] = e]
    BY <1>5, <1>8 DEF Reap
  <2> HIDE DEF verdict
  <2>4. /\ e \in Engines /\ e.pc = "reap" /\ e.status = verdict
        /\ e.committed = (code = 0) /\ e.line = engine[s].line
    BY <1>1, <2>1, <2>2 DEF Engines, Pcs
  <2> HIDE DEF e
  <2>5. EngineBut(s) /\ engine'[s] = e
    BY <1>1, <2>3, <2>4 DEF EngineBut, Typed
  <2>6. Frame(s)
    BY <1>1, <1>3, <1>4, <2>5, FrameBy
  <2> QED  BY <1>2, <1>3, <1>4, <1>5, <1>8, <2>4, <2>5, <2>6 DEF Reaps, verdict
<1> QED  BY <1>2, <1>7, <1>8

LEMMA PollShape ==
    ASSUME EngineInv, NEW s \in Slots, PollFails(s)
    PROVE  Frame(s) /\ GivesUp(s)
<1>1. Typed /\ CallOK(s)
  BY InvTyped
<1>2. task[s].phase \in {"compile", "run"} /\ engine[s].pc = "poll"
  <2>1. engine[s].pc \in PcsOf(task[s].phase) /\ engine[s].pc = "poll"
    BY <1>1 DEF CallOK, ControlOK, PollFails
  <2> QED  BY <2>1, PlaceBy
<1>3. /\ UNCHANGED <<valid, attempts, task, errfile, dir, hostMounts, seccomp, group, delegated>>
      /\ GroupBut(s) /\ DirBut(s) /\ errfile' \subseteq Problems /\ delegated' \in BOOLEAN
  BY <1>1, SameBy DEF PollFails, cgroupVars, Typed
<1>4. CASE /\ child[s].st # "zombie" /\ child' = Ended(s, "gone", -1, "killed")
           /\ IF task[s].phase = "compile" THEN Hit(s, "slow") ELSE Unhit
           /\ IF task[s].phase = "run" THEN Returns(s, "destroy", "Time Limit Exceeded")
              ELSE Returns(s, "reap", "Compile Error")
  <2>1. "gone" \in States /\ -1 \in Codes /\ "killed" \in Causes
    BY DEF States, Codes, Causes
  <2>2. ChildBut(s) /\ child'[s].st = "gone" /\ child'[s].cause = "killed"
    BY <1>1, <1>4, <2>1, EndedBy DEF Typed
  <2>3. HitBut(s) /\ (IF task[s].phase = "compile" THEN Struck(s) ELSE Calm(s))
    BY <1>1, <1>4, HitBy
  <2>4. /\ EngineBut(s)
        /\ \/ task[s].phase = "run" /\ Moved(s, "destroy", "Time Limit Exceeded")
           \/ task[s].phase = "compile" /\ Moved(s, "reap", "Compile Error")
    BY <1>1, <1>2, <1>4, ReturnsBy DEF Typed, Pcs, Statuses, Verdicts
  <2>5. Frame(s)
    BY <1>1, <1>3, <2>2, <2>3, <2>4, FrameBy
  <2> QED  BY <1>2, <1>3, <1>4, <2>2, <2>3, <2>4, <2>5 DEF GivesUp
<1>5. CASE /\ Hit(s, "wait4") /\ UNCHANGED child
           /\ IF task[s].phase = "run" THEN Returns(s, "destroy", "System Error")
              ELSE Returns(s, "reap", "Compile Error")
  <2>1. ChildBut(s) /\ HitBut(s) /\ Struck(s) /\ child' = child
    BY <1>1, <1>5, SameBy, HitBy
  <2>2. /\ EngineBut(s)
        /\ \/ task[s].phase = "run" /\ Moved(s, "destroy", "System Error")
           \/ task[s].phase = "compile" /\ Moved(s, "reap", "Compile Error")
    BY <1>1, <1>2, <1>5, ReturnsBy DEF Typed, Pcs, Statuses, Verdicts
  <2>3. Frame(s)
    BY <1>1, <1>3, <2>1, <2>2, FrameBy
  <2> QED  BY <1>2, <1>3, <2>1, <2>2, <2>3 DEF GivesUp
<1> QED  BY <1>4, <1>5 DEF PollFails

LEMMA UnwindShape ==
    ASSUME EngineInv, NEW s \in Slots, Unwind(s)
    PROVE  Frame(s) /\ Destroys(s)
<1>1. Typed
  BY InvTyped
<1>2. /\ UNCHANGED <<valid, attempts, task, errfile, dir, hostMounts, seccomp, delegated>>
      /\ DirBut(s) /\ errfile' \subseteq Problems /\ delegated' \in BOOLEAN
  BY <1>1, SameBy DEF Unwind, Destroy, cgroupVars, Typed
<1>3. EngineBut(s) /\ Moved(s, "reap", engine[s].status) /\ engine[s].pc = "destroy"
  BY <1>1, GoesBy DEF Unwind, Typed, Pcs
<1>4. /\ GroupBut(s) /\ HitBut(s)
      /\ \/ Calm(s) /\ group'[s] = IF group[s].created THEN NoGroup ELSE group[s]
         \/ Struck(s) /\ group'[s].held
  <2> DEFINE g == [group[s] EXCEPT !.created = FALSE, !.held = TRUE]
  <2>1. g \in Groups /\ g.held
    BY <1>1 DEF Typed, Groups
  <2>2. \/ Unhit /\ group' = IF group[s].created THEN [group EXCEPT ![s] = NoGroup] ELSE group
        \/ Hit(s, "rmdir") /\ group' = [group EXCEPT ![s] = g]
    BY <1>1 DEF Unwind, Destroy, Unhit, Hit, Typed
  <2> HIDE DEF g
  <2>3. CASE Unhit /\ group' = IF group[s].created THEN [group EXCEPT ![s] = NoGroup] ELSE group
    BY <1>1, <2>3, NobodyBy, HitBy DEF GroupBut, Typed
  <2>4. CASE Hit(s, "rmdir") /\ group' = [group EXCEPT ![s] = g]
    BY <1>1, <2>1, <2>4, HitBy DEF GroupBut, Typed
  <2> QED  BY <2>2, <2>3, <2>4
<1>5. /\ ChildBut(s)
      /\ \/ child' = child
         \/ /\ child[s].st \in {"setup", "program"} /\ child'[s].st = "zombie"
            /\ child'[s].kind = child[s].kind /\ child'[s].job = child[s].job
            /\ child'[s].cause = "killed"
  <2>1. \/ child' = child
        \/ child[s].st \in {"setup", "program"} /\ child' = Ended(s, "zombie", -1, "killed")
    BY DEF Unwind, Destroy, KillAllProcesses
  <2>2. "zombie" \in States /\ -1 \in Codes /\ "killed" \in Causes
    BY DEF States, Codes, Causes
  <2>3. CASE child[s].st \in {"setup", "program"} /\ child' = Ended(s, "zombie", -1, "killed")
    <3>1. ChildBut(s) /\ SameKid(s) /\ child'[s].st = "zombie" /\ child'[s].cause = "killed"
      BY <1>1, <2>2, <2>3, EndedBy DEF Typed
    <3> QED  BY <2>3, <3>1 DEF SameKid
  <2> QED  BY <1>1, <2>1, <2>3, SameBy
<1>6. Frame(s)
  BY <1>1, <1>2, <1>3, <1>4, <1>5, FrameBy
<1> QED  BY <1>2, <1>3, <1>4, <1>5, <1>6 DEF Destroys

LEMMA GuardShape ==
    ASSUME EngineInv, NEW s \in Slots, ProcessGuard(s)
    PROVE  Frame(s) /\ Reaped(s)
<1>1. Typed /\ child[s].st \in States
  BY InvTyped DEF Typed, Kids
<1>2. /\ UNCHANGED <<valid, attempts, task, errfile, dir, hostMounts, seccomp, group, delegated>>
      /\ GroupBut(s) /\ DirBut(s) /\ HitBut(s) /\ Calm(s)
      /\ errfile' \subseteq Problems /\ delegated' \in BOOLEAN
  BY <1>1, SameBy, HitBy DEF ProcessGuard, cgroupVars, Typed
<1>3. PICK pc \in Pcs : Goes(s, pc) /\ pc = IF task[s].phase = "compile" THEN "guard" ELSE "emit"
  BY DEF ProcessGuard, Pcs
<1>4. EngineBut(s) /\ Moved(s, pc, engine[s].status) /\ engine[s].pc = "reap"
  BY <1>1, <1>3, GoesBy DEF ProcessGuard, Typed
<1>5. /\ ChildBut(s) /\ child'[s].st \in {"none", "gone"}
      /\ child'[s].cause \in {child[s].cause, "killed"}
      /\ child[s].st = "gone" => child' = child
  <2>1. CASE child[s].st \in {"setup", "program"}
    <3>1. child' = Ended(s, "gone", -1, "killed")
      BY <2>1, Zenon DEF ProcessGuard
    <3>2. "gone" \in States /\ -1 \in Codes /\ "killed" \in Causes
      BY DEF States, Codes, Causes
    <3> QED  BY <1>1, <2>1, <3>1, <3>2, EndedBy DEF Typed
  <2>2. CASE child[s].st = "zombie"
    <3>1. child[s].st \notin {"setup", "program"}
      BY <2>2
    <3>2. child' = [child EXCEPT ![s].st = "gone"]
      BY <2>2, <3>1, Zenon DEF ProcessGuard
    <3> QED  BY <1>1, <2>2, <3>2, GoneBy DEF SameEnd
  <2>3. CASE child[s].st \notin {"setup", "program", "zombie"}
    <3>1. child[s].st \notin {"setup", "program"} /\ child[s].st # "zombie"
      BY <2>3
    <3>2. child' = child
      BY <3>1, Zenon DEF ProcessGuard
    <3> QED  BY <1>1, <2>3, <3>2, SameBy DEF States
  <2> QED  BY <2>1, <2>2, <2>3
<1>6. Frame(s)
  BY <1>1, <1>2, <1>4, <1>5, FrameBy
<1> QED  BY <1>2, <1>3, <1>4, <1>5, <1>6 DEF Reaped

(* The next step of a child that is setting up. *)
LEMMA SetupBy ==
    ASSUME EngineInv, NEW s \in Slots, child[s].st = "setup"
    PROVE  /\ child[s] \in Kids /\ child[s].job = Job(s) /\ Job(s) \in Jobs
           /\ child[s].kind = task[s].phase
           /\ StepOf(s) = Steps(child[s].kind)[child[s].pc]
           /\ Ordered(child[s].kind, StepOf(s), Before(child[s]))
           /\ child[s].done \subseteq Before(child[s])
           /\ \A x \in Before(child[s]) : x # "seccomp" => x \in child[s].done
           /\ StepOf(s) = "exec" <=> child[s].pc = Len(Steps(child[s].kind))
           /\ child[s].pc \in 1..Len(Steps(child[s].kind))
<1>1. Typed /\ CallOK(s)
  BY InvTyped
<1>2. /\ child[s] \in Kids /\ child[s].job = Job(s) /\ Job(s) \in Jobs
      /\ child[s].kind = task[s].phase
  BY <1>1 DEF CallOK, ChildOK, Typed, Calls, Job
<1>3. StepOf(s) = Steps(child[s].kind)[child[s].pc]
  BY DEF StepOf, Steps
<1>4. /\ child[s].pc \in 1..Len(Steps(child[s].kind))
      /\ child[s].done \subseteq Before(child[s]) \cup {"exec"} /\ "exec" \notin child[s].done
      /\ Before(child[s]) \subseteq child[s].done \cup {"seccomp"}
  BY <1>1 DEF CallOK, SetupOK
<1>5. child[s].kind \in {"compile", "run"}
  BY <1>2 DEF Kids
<1>7. CASE child[s].kind = "run"
  <2>1. Steps(child[s].kind) = RunChildFn
    BY <1>7 DEF Steps
  <2>2. child[s].pc \in 1..32
    BY <1>4, <2>1, RunPlaces
  <2>3. Before(child[s]) = {RunChildFn[i] : i \in 1..(child[s].pc - 1)}
    BY <2>1 DEF Before
  <2>4. Ordered("run", RunChildFn[child[s].pc], Before(child[s]))
    BY <2>2, <2>3, RunOrder
  <2>5. StepOf(s) = "exec" <=> child[s].pc = Len(Steps(child[s].kind))
    BY <1>3, <2>1, <2>2, RunPlaces
  <2> QED  BY <1>2, <1>3, <1>4, <1>7, <2>1, <2>4, <2>5
<1>8. CASE child[s].kind = "compile"
  <2>1. Steps(child[s].kind) = CompileChildFn
    BY <1>8 DEF Steps
  <2>2. child[s].pc \in 1..25
    BY <1>4, <2>1, CompilePlaces
  <2>3. Before(child[s]) = {CompileChildFn[i] : i \in 1..(child[s].pc - 1)}
    BY <2>1 DEF Before
  <2>4. Ordered("compile", CompileChildFn[child[s].pc], Before(child[s]))
    BY <2>2, <2>3, CompileOrder
  <2>5. StepOf(s) = "exec" <=> child[s].pc = Len(Steps(child[s].kind))
    BY <1>3, <2>1, <2>2, CompilePlaces
  <2> QED  BY <1>2, <1>3, <1>4, <1>8, <2>1, <2>4, <2>5
<1> QED  BY <1>5, <1>7, <1>8

LEMMA LeavesBy ==
    ASSUME NEW d \in Dirs, NEW step
    PROVE  LET e == Leaves(step, d)
           IN  /\ e \in Dirs
               /\ e.exists = d.exists /\ e.gen = d.gen /\ e.exe = d.exe /\ e.tampered = d.tampered
               /\ step # "chmod_root" => e.mode = d.mode
               /\ d.made \subseteq e.made \cup (IF step = "rmdir_old" THEN {"old_root"} ELSE {})
               /\ step = "mkdir_tmp" => "tmp" \in e.made
               /\ step = "mkdir_proc" => "proc" \in e.made
               /\ step = "mkdir_old" => "old_root" \in e.made
<1>1. CASE step \in DOMAIN Makes
  <2>1. Leaves(step, d) = [d EXCEPT !.made = @ \cup {Makes[step]}]
    <3>1. step # "chmod_root" /\ step # "rmdir_old"
      BY <1>1, Domains
    <3> QED  BY <1>1, <3>1, Zenon DEF Leaves
  <2>2. /\ Makes[step] \in {"lib", "old_root", "tmp", "proc"}
        /\ step = "mkdir_tmp" => Makes[step] = "tmp"
        /\ step = "mkdir_proc" => Makes[step] = "proc"
        /\ step = "mkdir_old" => Makes[step] = "old_root"
    BY <1>1, Domains DEF Makes
  <2> QED  BY <2>1, <2>2 DEF Dirs
<1>2. CASE step = "chmod_root"
  <2>1. step \notin DOMAIN Makes /\ step # "rmdir_old"
    BY <1>2, Domains
  <2>2. Leaves(step, d) = [d EXCEPT !.mode = "555"]
    BY <1>2, <2>1, Zenon DEF Leaves
  <2> QED  BY <1>2, <2>2 DEF Dirs
<1>3. CASE step = "rmdir_old"
  <2>1. step \notin DOMAIN Makes /\ step # "chmod_root"
    BY <1>3, Domains
  <2>2. Leaves(step, d) = [d EXCEPT !.made = @ \ {"old_root"}]
    BY <1>3, <2>1, Zenon DEF Leaves
  <2> QED  BY <1>3, <2>2 DEF Dirs
<1>4. CASE step \notin DOMAIN Makes \cup {"chmod_root", "rmdir_old"}
  <2>1. step \notin DOMAIN Makes /\ step # "chmod_root" /\ step # "rmdir_old"
    BY <1>4
  <2>2. Leaves(step, d) = d
    BY <2>1, Zenon DEF Leaves
  <2>3. step \notin {"mkdir_tmp", "mkdir_proc", "mkdir_old"}
    BY <1>4, Domains
  <2> QED  BY <2>2, <2>3
<1> QED  BY <1>1, <1>2, <1>3, <1>4

LEMMA StepShape ==
    ASSUME EngineInv, NEW s \in Slots, Child(s), child[s].st = "setup", DoStep(s)
    PROVE  Frame(s) /\ SetsUp(s)
<1>1. Typed /\ CallOK(s) /\ hostMounts = {}
  BY InvTyped
<1>2. PICK step \in StepNames : step = StepOf(s)
  BY SetupBy DEF Ordered, StepNames
<1>3. /\ child[s] \in Kids /\ child[s].job = Job(s) /\ Job(s) \in Jobs
      /\ Ordered(child[s].kind, step, Before(child[s]))
      /\ \A x \in Before(child[s]) : x # "seccomp" => x \in child[s].done
  BY <1>2, SetupBy
<1>4. Propagates(s) = {}
  BY <1>2, <1>3 DEF Propagates, Ordered
<1> DEFINE st == IF step = "exec" THEN "program" ELSE child[s].st
           pc == IF step = "exec" THEN child[s].pc ELSE child[s].pc + 1
           done == IF step = "seccomp" /\ child[s].kind = "run" /\ ~ShouldEnableRunSeccomp
                   THEN child[s].done ELSE child[s].done \cup {step}
           v == [child[s] EXCEPT !.st = st, !.pc = pc, !.done = done]
<1>5. st \in States /\ pc \in Pos /\ done \in SUBSET StepNames
  BY <1>3, <1>2 DEF Kids, States, Pos
<1>6. child' = [child EXCEPT ![s] = v]
  BY <1>1, <1>2 DEF DoStep, Typed
<1>7. IF step = "exec" THEN st = "program" /\ pc = child[s].pc
      ELSE st = "setup" /\ pc = child[s].pc + 1
  OBVIOUS
<1>8. done \in {child[s].done \cup {step}} \cup
             (IF step = "seccomp" /\ child[s].kind = "run" /\ seccomp = "off"
              THEN {child[s].done} ELSE {})
  BY DEF ShouldEnableRunSeccomp
<1> HIDE DEF st, pc, done
<1>9. /\ v \in Kids /\ v.st = st /\ v.pc = pc /\ v.done = done /\ v.kind = child[s].kind
      /\ v.job = child[s].job /\ v.gen = child[s].gen /\ v.cause = child[s].cause
  BY <1>3, <1>5 DEF Kids
<1> HIDE DEF v
<1>10. ChildBut(s) /\ child'[s] = v
  BY <1>1, <1>6, <1>9 DEF ChildBut, Typed
<1>11. PICK d \in Dirs : d = dir[Job(s)]
  BY <1>1, <1>3 DEF Typed
<1>12. PICK e : e = IF Disturbed(s) THEN d ELSE Leaves(step, d)
  OBVIOUS
<1>13. /\ e \in Dirs /\ e.exists = d.exists /\ e.gen = d.gen /\ e.exe = d.exe
       /\ e.tampered = d.tampered /\ (step # "chmod_root" => e.mode = d.mode)
       /\ ~Disturbed(s) =>
             /\ d.made \subseteq e.made \cup (IF step = "rmdir_old" THEN {"old_root"} ELSE {})
             /\ step = "mkdir_tmp" => "tmp" \in e.made
             /\ step = "mkdir_proc" => "proc" \in e.made
             /\ step = "mkdir_old" => "old_root" \in e.made
  BY <1>12, LeavesBy
<1>14. DirBut(s) /\ dir'[Job(s)] = e
  <2>1. dir' = IF Disturbed(s) THEN dir ELSE [dir EXCEPT ![Job(s)] = Leaves(step, @)]
    BY <1>2, <1>3 DEF DoStep
  <2>2. CASE Disturbed(s)
    BY <1>1, <1>11, <1>12, <2>1, <2>2, SameBy
  <2>3. CASE ~Disturbed(s)
    <3>1. dir' = [dir EXCEPT ![Job(s)] = e]
      BY <1>11, <1>12, <2>1, <2>3
    <3> QED  BY <1>1, <1>3, <1>13, <3>1 DEF DirBut, Typed
  <2> QED  BY <2>2, <2>3
<1>15. errfile' = errfile
  <2>1. child'[s].st # "zombie"
    BY <1>7, <1>9, <1>10
  <2> QED  BY <2>1 DEF Child, ExitRunExecError
<1>16. /\ UNCHANGED <<valid, attempts, task, engine, group, delegated, hostMounts, seccomp>>
       /\ EngineBut(s) /\ GroupBut(s) /\ HitBut(s) /\ Calm(s)
       /\ errfile' \subseteq Problems /\ delegated' \in BOOLEAN
  <2>1. UNCHANGED <<valid, attempts, task, engine, group, delegated, seccomp>>
        /\ NoFault /\ UNCHANGED hit /\ hostMounts' = hostMounts
    BY <1>4 DEF Child, DoStep, cgroupVars
  <2> QED  BY <1>1, <1>15, <2>1, SameBy, HitBy DEF Typed
<1>17. Frame(s)
  BY <1>1, <1>10, <1>14, <1>16, FrameBy
<1> QED  BY <1>2, <1>3, <1>7, <1>8, <1>9, <1>10, <1>11, <1>13, <1>14, <1>15, <1>16, <1>17
         DEF SetsUp, SameKid

LEMMA ExitCodeBy ==
    ASSUME NEW s \in Slots, StepOf(s) \in DOMAIN SandboxExitCode
    PROVE  ExitCode(s) \in Codes \ {0}
<1>1. \A step \in DOMAIN SandboxExitCode : SandboxExitCode[step] \in 101..200
  BY DEF SandboxExitCode
<1> QED  BY <1>1 DEF ExitCode, Codes

LEMMA BreakShape ==
    ASSUME EngineInv, NEW s \in Slots, Child(s), child[s].st = "setup", StepFails(s) \/ StepBlocked(s)
    PROVE  Frame(s) /\ Breaks(s)
<1>1. Typed /\ child[s].job = Job(s) /\ Job(s) \in Jobs
  BY InvTyped, SetupBy
<1>2. PICK code \in Codes : code = ExitCode(s) /\ code # 0
  BY ExitCodeBy DEF StepFails, StepBlocked, ExitSetupError
<1>3. "zombie" \in States /\ "failed" \in Causes /\ "blocked" \in Causes
  BY DEF States, Causes
<1>4. PICK cause \in {"failed", "blocked"} :
        /\ child' = Ended(s, "zombie", code, cause)
        /\ \/ cause = "failed" /\ StepFails(s)
           \/ cause = "blocked" /\ StepBlocked(s)
  BY <1>2 DEF StepFails, StepBlocked, ExitSetupError
<1>5. /\ ChildBut(s) /\ SameKid(s) /\ child'[s].st = "zombie" /\ child'[s].code = code
      /\ child'[s].cause = cause
  BY <1>1, <1>3, <1>4, EndedBy DEF Typed
<1>6. /\ HitBut(s)
      /\ \/ cause = "failed" /\ Struck(s) /\ "setup" \in FaultKinds
         \/ cause = "blocked" /\ Calm(s) /\ (~Possible(s) \/ Disturbed(s))
  <2>1. CASE cause = "failed" /\ StepFails(s)
    <3>1. Fault("setup") /\ hit' = hit \cup {s} /\ "setup" \in FaultKinds
      BY <2>1 DEF StepFails, Fault
    <3> QED  BY <1>1, <2>1, <3>1, HitBy
  <2>2. CASE cause = "blocked" /\ StepBlocked(s)
    BY <1>1, <2>2, HitBy DEF StepBlocked
  <2> QED  BY <1>4, <2>1, <2>2
<1>7. /\ UNCHANGED <<valid, attempts, task, engine, group, delegated, dir, hostMounts, seccomp>>
      /\ EngineBut(s) /\ GroupBut(s) /\ DirBut(s) /\ delegated' \in BOOLEAN
  <2>1. UNCHANGED <<valid, attempts, task, engine, group, delegated, dir, hostMounts, seccomp>>
    BY DEF Child, StepFails, StepBlocked, ExitSetupError, cgroupVars
  <2> QED  BY <1>1, <2>1, SameBy DEF Typed
<1>8. /\ errfile' = errfile \/ (child[s].kind = "run" /\ errfile' = errfile \cup {ProblemOf[Job(s)]})
      /\ errfile' \subseteq Problems
  BY <1>1, EngineAssumption DEF Child, ExitRunExecError, Typed
<1>9. Frame(s)
  BY <1>1, <1>5, <1>6, <1>7, <1>8, FrameBy
<1> QED  BY <1>2, <1>5, <1>6, <1>7, <1>8, <1>9 DEF Breaks

(* A compiler or a program runs behind all the steps of its set-up. *)
LEMMA ProgramBy ==
    ASSUME EngineInv, NEW s \in Slots, child[s].st = "program"
    PROVE  /\ child[s] \in Kids /\ child[s].job = Job(s) /\ Job(s) \in Jobs
           /\ child[s].kind = task[s].phase
           /\ {"close_fds", "pivot", "umount_old", "lib_ro", "rlimit_cpu", "rlimit_as", "rlimit_fsize",
               "setgroups", "setgid", "setuid", "no_new_privs"} \subseteq child[s].done
           /\ child[s].kind = "run" => {"proc_ro", "rlimit_nproc", "root_ro"} \subseteq child[s].done
           /\ "seccomp" \in child[s].done \/ (child[s].kind = "run" /\ seccomp = "off")
<1>1. Typed /\ CallOK(s)
  BY InvTyped
<1>2. /\ child[s] \in Kids /\ child[s].job = Job(s) /\ Job(s) \in Jobs
      /\ child[s].kind = task[s].phase
  BY <1>1 DEF CallOK, ChildOK, Typed, Calls, Job
<1>3. /\ child[s].pc = Len(Steps(child[s].kind))
      /\ Before(child[s]) \subseteq child[s].done \cup (IF child[s].kind = "run" /\ seccomp = "off"
                                                         THEN {"seccomp"} ELSE {})
  BY <1>1 DEF CallOK, SetupOK
<1>4. child[s].kind \in {"compile", "run"}
  BY <1>2 DEF Kids
<1>5. PICK kind \in {"compile", "run"} :
        kind = child[s].kind /\ Ordered(kind, "exec", Before(child[s]))
  <2>1. CASE child[s].kind = "run"
    <3>1. Steps(child[s].kind) = RunChildFn
      BY <2>1 DEF Steps
    <3>2. child[s].pc = 32 /\ RunChildFn[32] = "exec"
      BY <1>3, <3>1, RunPlaces
    <3>3. Before(child[s]) = {RunChildFn[i] : i \in 1..(child[s].pc - 1)}
      BY <3>1 DEF Before
    <3>4. Ordered("run", RunChildFn[child[s].pc], Before(child[s]))
      BY <3>2, <3>3, RunOrder
    <3> QED  BY <2>1, <3>2, <3>4
  <2>2. CASE child[s].kind = "compile"
    <3>1. Steps(child[s].kind) = CompileChildFn
      BY <2>2 DEF Steps
    <3>2. child[s].pc = 25 /\ CompileChildFn[25] = "exec"
      BY <1>3, <3>1, CompilePlaces
    <3>3. Before(child[s]) = {CompileChildFn[i] : i \in 1..(child[s].pc - 1)}
      BY <3>1 DEF Before
    <3>4. Ordered("compile", CompileChildFn[child[s].pc], Before(child[s]))
      BY <3>2, <3>3, CompileOrder
    <3> QED  BY <2>2, <3>2, <3>4
  <2> QED  BY <1>4, <2>1, <2>2
<1> QED  BY <1>2, <1>3, <1>5 DEF Ordered

LEMMA CompilerShape ==
    ASSUME EngineInv, NEW s \in Slots, Child(s), Compiler(s, child[s].job \in valid)
    PROVE  Frame(s) /\ Compiles(s)
<1>1. /\ Typed /\ child[s].st = "program" /\ child[s].kind = "compile"
      /\ child[s].job = Job(s) /\ Job(s) \in Jobs
  BY InvTyped, ProgramBy DEF Compiler
<1>2. "open_write" \in Allowed(s)
  BY <1>1 DEF Allowed, LoadCompileSeccompRules
<1>3. "zombie" \in States /\ 0 \in Codes /\ 1 \in Codes /\ "self" \in Causes
  BY DEF States, Codes, Causes
<1>4. /\ UNCHANGED <<valid, attempts, task, engine, group, delegated, hostMounts, seccomp>>
      /\ EngineBut(s) /\ GroupBut(s) /\ HitBut(s) /\ Calm(s) /\ delegated' \in BOOLEAN
  <2>1. /\ UNCHANGED <<valid, attempts, task, engine, group, delegated, hostMounts, seccomp>>
        /\ NoFault /\ UNCHANGED hit
    BY DEF Child, Compiler, cgroupVars
  <2> QED  BY <1>1, <2>1, SameBy, HitBy DEF Typed
<1>5. errfile' = errfile /\ errfile' \subseteq Problems
  BY <1>1 DEF Child, ExitRunExecError, Typed
<1>6. CASE Job(s) \in valid /\ ~Disturbed(s) /\ dir[Job(s)].mode = "700"
  <2>1. child' = Ended(s, "zombie", 0, "self") /\ dir' = [dir EXCEPT ![Job(s)].exe = TRUE]
    BY <1>1, <1>2, <1>6 DEF Compiler, Ends
  <2>2. /\ ChildBut(s) /\ SameKid(s) /\ child'[s].st = "zombie" /\ child'[s].code = 0
        /\ child'[s].cause = "self"
    BY <1>1, <1>3, <2>1, EndedBy DEF Typed
  <2> DEFINE e == [dir[Job(s)] EXCEPT !.exe = TRUE]
  <2>3. dir[Job(s)] \in Dirs /\ dir' = [dir EXCEPT ![Job(s)] = e]
    BY <1>1, <2>1 DEF Typed
  <2>4. /\ e \in Dirs /\ e.exe = TRUE /\ e.exists = dir[Job(s)].exists /\ e.gen = dir[Job(s)].gen
        /\ e.mode = dir[Job(s)].mode /\ e.made = dir[Job(s)].made
        /\ e.tampered = dir[Job(s)].tampered
    BY <2>3 DEF Dirs
  <2> HIDE DEF e
  <2>5. DirBut(s) /\ dir'[Job(s)] = e
    BY <1>1, <2>3, <2>4 DEF DirBut, Typed
  <2>6. Frame(s)
    BY <1>1, <1>4, <1>5, <2>2, <2>5, FrameBy
  <2> QED  BY <1>1, <1>4, <1>5, <1>6, <2>2, <2>4, <2>5, <2>6 DEF Compiles
<1>7. CASE ~(Job(s) \in valid /\ ~Disturbed(s) /\ dir[Job(s)].mode = "700")
  <2>1. child' = Ended(s, "zombie", 1, "self") /\ dir' = dir
    BY <1>1, <1>2, <1>7 DEF Compiler, Ends
  <2>2. /\ ChildBut(s) /\ SameKid(s) /\ child'[s].st = "zombie" /\ child'[s].code = 1
        /\ child'[s].cause = "self"
    BY <1>1, <1>3, <2>1, EndedBy DEF Typed
  <2>3. Frame(s)
    BY <1>1, <1>4, <1>5, <2>1, <2>2, FrameBy, SameBy
  <2> QED  BY <1>1, <1>4, <1>5, <1>7, <2>1, <2>2, <2>3 DEF Compiles
<1> QED  BY <1>6, <1>7

LEMMA UserShape ==
    ASSUME EngineInv, NEW s \in Slots, Child(s), (\E c \in ExitCodes : User(s, c)) \/ UserWrites(s)
    PROVE  Frame(s) /\ Plays(s)
<1>1. /\ Typed /\ child[s].st = "program" /\ child[s].kind = "run"
      /\ "root_ro" \in child[s].done
  BY InvTyped, ProgramBy DEF User, UserWrites
<1>2. PICK code \in Codes : child' = Ended(s, "zombie", code, "self") /\ UNCHANGED dir
  <2>1. CASE UserWrites(s)
    <3>1. child' = Ended(s, "zombie", -1, "self") /\ UNCHANGED dir
      BY <1>1, <2>1 DEF UserWrites, Ends
    <3>2. -1 \in Codes
      BY DEF Codes
    <3> QED  BY <3>1, <3>2
  <2>2. ASSUME NEW c \in ExitCodes, User(s, c)
        PROVE  c \in Codes /\ child' = Ended(s, "zombie", c, "self") /\ UNCHANGED dir
    BY <2>2, EngineAssumption DEF User, Ends, Codes
  <2> QED  BY <2>1, <2>2
<1>3. "zombie" \in States /\ "self" \in Causes
  BY DEF States, Causes
<1>4. ChildBut(s) /\ SameKid(s) /\ child'[s].st = "zombie" /\ child'[s].cause = "self"
  BY <1>1, <1>2, <1>3, EndedBy DEF Typed
<1>5. /\ UNCHANGED <<valid, attempts, task, engine, group, delegated, hostMounts, seccomp>>
      /\ EngineBut(s) /\ GroupBut(s) /\ DirBut(s) /\ HitBut(s) /\ Calm(s) /\ delegated' \in BOOLEAN
  <2>1. /\ UNCHANGED <<valid, attempts, task, engine, group, delegated, hostMounts, seccomp>>
        /\ NoFault /\ UNCHANGED hit
    BY DEF Child, User, UserWrites, cgroupVars
  <2> QED  BY <1>1, <1>2, <2>1, SameBy, HitBy DEF Typed
<1>6. errfile' = errfile /\ errfile' \subseteq Problems
  BY <1>1 DEF Child, ExitRunExecError, Typed
<1>7. Frame(s)
  BY <1>1, <1>4, <1>5, <1>6, FrameBy
<1> QED  BY <1>1, <1>2, <1>4, <1>5, <1>6, <1>7 DEF Plays

(* Every step is the beginning of a call or has one of the shapes. *)
LEMMA NextShape ==
    ASSUME EngineInv, Next
    PROVE  \E s \in Slots : (\E j \in Jobs : Begin(s, j)) \/ (Frame(s) /\ Shape(s))
<1>1. PICK s \in Slots : \/ \E j \in Jobs : Begin(s, j)
                         \/ Start(s) \/ Kill(s) \/ GoReturns(s) \/ Engine(s) \/ Child(s)
  BY Zenon DEF Next
<1>2. CASE Start(s) \/ Kill(s) \/ GoReturns(s)
  BY <1>2, StartShape, KillShape, ReturnShape DEF Shape
<1>3. CASE Engine(s)
  <2>1. CASE LoadConfigFails(s) \/ ValidateConfigFails(s) \/ Main(s) \/ Emit(s)
    BY <2>1, FailShape, MainShape, EmitShape DEF Shape
  <2>2. CASE Prepare(s) \/ Guard(s) \/ Cleanup(s)
    BY <2>2, PrepareShape, UnlinkShape DEF Shape
  <2>3. CASE Clone(s) \/ Group(s) \/ Reap(s)
    BY <2>3, CloneShape, GroupShape, ReapShape DEF Shape
  <2>4. CASE PollFails(s) \/ Unwind(s) \/ ProcessGuard(s)
    BY <2>4, PollShape, UnwindShape, GuardShape DEF Shape
  <2> QED  BY <1>3, <2>1, <2>2, <2>3, <2>4, Zenon DEF Engine
<1>4. CASE Child(s)
  <2>1. CASE child[s].st = "setup" /\ (DoStep(s) \/ StepFails(s) \/ StepBlocked(s))
    BY <1>4, <2>1, StepShape, BreakShape DEF Shape
  <2>2. CASE Compiler(s, child[s].job \in valid)
    BY <1>4, <2>2, CompilerShape DEF Shape
  <2>3. CASE (\E c \in ExitCodes : User(s, c)) \/ UserWrites(s)
    BY <1>4, <2>3, UserShape DEF Shape
  <2> QED  BY <1>4, <2>1, <2>2, <2>3, Zenon DEF Child, Setup
<1> QED  BY <1>1, <1>2, <1>3, <1>4

---------------------------------------------------------------------------
(* The invariant of a call is kept by its own steps.                       *)

\* ControlOK phase by phase.
Control(t, e) ==
    /\ t.phase = "compile" =>
         /\ e.pc \in {"none", "main", "prepare", "clone", "poll", "reap", "guard", "emit", "exited",
                      "killed"}
         /\ e.status \in {"none", "Compiled", "Compile Error", "System Error"}
    /\ t.phase = "run" =>
         /\ e.pc \in {"none", "main", "clone", "create", "limits", "join", "poll", "destroy", "reap",
                      "emit", "exited", "killed"}
         /\ e.status \in {"none", "Finished", "Runtime Error", "System Error", "Time Limit Exceeded"}
    /\ t.phase = "cleanup" => e.pc \in {"none", "main", "remove", "emit", "exited", "killed"}
    /\ t.phase \notin {"compile", "run"} => e.status \in {"none", "Cleaned", "System Error"}
    /\ t.phase \notin {"compile", "run", "cleanup"} => e.pc = "none"
    /\ e.pc = "none" => e = NoEngine
    /\ e.pc # "exited" => e.line = NoLine
    /\ e.line # NoLine =>
         /\ e.line.form = (IF t.phase = "run" THEN "run" ELSE "plain")
         /\ e.line.status = e.status /\ e.line.job = t.job /\ e.line.attempt = t.attempt
    /\ e.committed <=> e.status = "Compiled"
    /\ e.pc \in {"main", "prepare", "clone", "create", "limits", "join", "poll"} => e.status = "none"
    /\ e.pc \in {"reap", "guard"} /\ t.phase = "compile" => e.status \in {"Compiled", "Compile Error"}
    /\ t.phase \in {"idle", "compile", "run"} => t.verdict = "none"

LEMMA ControlBy ==
    ASSUME NEW t, NEW e
    PROVE  ControlOK(t, e) <=> Control(t, e)
<1> DEFINE S == CASE t.phase = "run" -> {"none", "Finished", "Runtime Error", "System Error",
                                         "Time Limit Exceeded"}
                  [] t.phase = "compile" -> {"none", "Compiled", "Compile Error", "System Error"}
                  [] OTHER -> {"none", "Cleaned", "System Error"}
<1>1. CASE t.phase = "compile"
  <2>1. t.phase # "run"
    BY <1>1
  <2>2. PcsOf(t.phase) = {"none", "main", "prepare", "clone", "poll", "reap", "guard", "emit",
                          "exited", "killed"}
    BY <1>1, Zenon DEF PcsOf
  <2>3. S = {"none", "Compiled", "Compile Error", "System Error"}
    BY <1>1, <2>1, Zenon
  <2> QED  BY <1>1, <2>2, <2>3, Zenon DEF ControlOK, Control
<1>2. CASE t.phase = "run"
  <2>1. t.phase # "compile"
    BY <1>2
  <2>2. PcsOf(t.phase) = {"none", "main", "clone", "create", "limits", "join", "poll", "destroy",
                          "reap", "emit", "exited", "killed"}
    BY <1>2, Zenon DEF PcsOf
  <2>3. S = {"none", "Finished", "Runtime Error", "System Error", "Time Limit Exceeded"}
    BY <1>2, <2>1, Zenon
  <2> QED  BY <1>2, <2>2, <2>3, Zenon DEF ControlOK, Control
<1>3. CASE t.phase = "cleanup"
  <2>1. t.phase # "compile" /\ t.phase # "run"
    BY <1>3
  <2>2. PcsOf(t.phase) = {"none", "main", "remove", "emit", "exited", "killed"}
    BY <1>3, Zenon DEF PcsOf
  <2>3. S = {"none", "Cleaned", "System Error"}
    BY <2>1, Zenon
  <2> QED  BY <1>3, <2>2, <2>3, Zenon DEF ControlOK, Control
<1>4. CASE t.phase \notin {"compile", "run", "cleanup"}
  <2>1. t.phase # "compile" /\ t.phase # "run" /\ t.phase # "cleanup"
    BY <1>4
  <2>2. PcsOf(t.phase) = {"none"}
    BY <2>1, Zenon DEF PcsOf
  <2>3. S = {"none", "Cleaned", "System Error"}
    BY <2>1, Zenon
  <2> QED  BY <1>4, <2>1, <2>2, <2>3, Zenon DEF ControlOK, Control
<1> QED  BY <1>1, <1>2, <1>3, <1>4

LEMMA ControlKept ==
    ASSUME EngineInv, NEW s \in Slots, Frame(s), Shape(s)
    PROVE  ControlOK(task'[s], engine'[s])
<1>1. Control(task[s], engine[s]) /\ Typed
  BY InvTyped, ControlBy DEF CallOK
<1> SUFFICES Control(task'[s], engine'[s])
  BY ControlBy
<1> DEFINE t == task[s]
           e == engine[s]
<1>2. CASE Starts(s)
  BY <1>1, <1>2, NobodyBy DEF Starts, Control, Live
<1>3. CASE Dispatches(s)
  BY <1>1, <1>3 DEF Dispatches, Control, Moved
<1>4. CASE FailsEarly(s)
  BY <1>1, <1>4 DEF FailsEarly, Control, Moved
<1>5. CASE Emits(s)
  BY <1>1, <1>5 DEF Emits, Control, Job
<1>6. CASE IsKilled(s)
  BY <1>1, <1>6 DEF IsKilled, Control, Moved
<1>7. CASE Advances(s)
  BY <1>1, <1>7, NobodyBy DEF Advances, Control, Typed, Calls
<1>8. CASE Prepares(s)
  BY <1>1, <1>8 DEF Prepares, Control, Moved
<1>9. CASE Unlinks(s)
  BY <1>1, <1>9 DEF Unlinks, Control, Moved
<1>10. CASE Clones(s)
  BY <1>1, <1>10 DEF Clones, Control, Moved
<1>11. CASE Limits(s)
  BY <1>1, <1>11 DEF Limits, Control, Moved
<1>12. CASE Reaps(s)
  BY <1>1, <1>12 DEF Reaps, Control
<1>13. CASE GivesUp(s)
  BY <1>1, <1>13 DEF GivesUp, Control, Moved
<1>14. CASE Destroys(s)
  BY <1>1, <1>14 DEF Destroys, Control, Moved
<1>15. CASE Reaped(s)
  BY <1>1, <1>15 DEF Reaped, Control, Moved
<1>16. CASE SetsUp(s) \/ Breaks(s) \/ Compiles(s) \/ Plays(s)
  BY <1>1, <1>16 DEF SetsUp, Breaks, Compiles, Plays
<1> QED  BY <1>2, <1>3, <1>4, <1>5, <1>6, <1>7, <1>8, <1>9, <1>10, <1>11, <1>12, <1>13, <1>14, <1>15,
            <1>16, Zenon DEF Shape

LEMMA ChildKept ==
    ASSUME EngineInv, NEW s \in Slots, Frame(s), Shape(s)
    PROVE  ChildOK(task'[s], engine'[s], child'[s])
<1>1. ChildOK(task[s], engine[s], child[s])
  BY InvTyped DEF CallOK
<1>2. CASE Starts(s) \/ Dispatches(s) \/ FailsEarly(s) \/ Emits(s) \/ Prepares(s) \/ Unlinks(s)
  BY <1>1, <1>2 DEF Starts, Dispatches, FailsEarly, Emits, Prepares, Unlinks, ChildOK, Watching
<1>3. CASE Advances(s)
  BY <1>1, <1>3 DEF Advances, ChildOK, Watching
<1>4. CASE Clones(s)
  BY <1>1, <1>4 DEF Clones, ChildOK, Watching, Moved, Job
<1>5. CASE Limits(s)
  BY <1>1, <1>5 DEF Limits, ChildOK, Watching, Moved
<1>6. CASE IsKilled(s) \/ Reaps(s) \/ Reaped(s)
  BY <1>6 DEF IsKilled, Reaps, Reaped, ChildOK
<1>7. CASE GivesUp(s)
  BY <1>1, <1>7 DEF GivesUp, ChildOK, Watching, Moved
<1>8. CASE Destroys(s)
  BY <1>1, <1>8 DEF Destroys, ChildOK, Watching, Moved
<1>9. CASE SetsUp(s) \/ Breaks(s) \/ Compiles(s) \/ Plays(s)
  BY <1>1, <1>9 DEF SetsUp, Breaks, Compiles, Plays, ChildOK, SameKid
<1> QED  BY <1>2, <1>3, <1>4, <1>5, <1>6, <1>7, <1>8, <1>9, Zenon DEF Shape

LEMMA GroupKept ==
    ASSUME EngineInv, NEW s \in Slots, Frame(s), Shape(s)
    PROVE  GroupOK(task'[s], engine'[s], group'[s])
<1>1. GroupOK(task[s], engine[s], group[s]) /\ Control(task[s], engine[s])
  BY InvTyped, ControlBy DEF CallOK
<1>2. CASE Starts(s) \/ Dispatches(s) \/ FailsEarly(s)
  BY <1>1, <1>2 DEF Starts, Dispatches, FailsEarly, GroupOK, Moved, Control
<1>3. CASE Emits(s) \/ Prepares(s)
  BY <1>1, <1>3 DEF Emits, Prepares, GroupOK, Moved, Control
<1>4. CASE Unlinks(s)
  BY <1>1, <1>4 DEF Unlinks, GroupOK, Moved, Control
<1>5. CASE Advances(s)
  BY <1>1, <1>5, NobodyBy DEF Advances, GroupOK, Control
<1>6. CASE Clones(s)
  BY <1>6, NobodyBy DEF Clones, GroupOK
<1>7. CASE Limits(s)
  BY <1>1, <1>7 DEF Limits, GroupOK, Moved, Control
<1>8. CASE IsKilled(s)
  BY <1>1, <1>8 DEF IsKilled, GroupOK, Moved
<1>9. CASE Reaps(s)
  BY <1>1, <1>9 DEF Reaps, GroupOK
<1>10. CASE GivesUp(s)
  BY <1>1, <1>10 DEF GivesUp, GroupOK, Moved
<1>11. CASE Destroys(s)
  BY <1>1, <1>11, NobodyBy DEF Destroys, GroupOK, Moved, Control
<1>12. CASE Reaped(s)
  BY <1>1, <1>12 DEF Reaped, GroupOK, Moved, Control
<1>13. CASE SetsUp(s) \/ Breaks(s) \/ Compiles(s) \/ Plays(s)
  BY <1>1, <1>13 DEF SetsUp, Breaks, Compiles, Plays
<1> QED  BY <1>2, <1>3, <1>4, <1>5, <1>6, <1>7, <1>8, <1>9, <1>10, <1>11, <1>12, <1>13, Zenon DEF Shape

LEMMA StepsLen == \A kind : Len(Steps(kind)) \in {25, 32} /\ 1 \in 1..Len(Steps(kind))
<1> TAKE kind
<1>1. Steps(kind) = RunChildFn \/ Steps(kind) = CompileChildFn
  BY DEF Steps
<1>2. Len(Steps(kind)) = 32 \/ Len(Steps(kind)) = 25
  BY <1>1, RunPlaces, CompilePlaces, Zenon
<1>3. 1 \in 1..32 /\ 1 \in 1..25
  OBVIOUS
<1> QED  BY <1>2, <1>3, Zenon

LEMMA SetupKept ==
    ASSUME EngineInv, NEW s \in Slots, Frame(s), Shape(s)
    PROVE  SetupOK(child[s])'
<1>1. SetupOK(child[s]) /\ Typed /\ child'[s] \in Kids /\ seccomp' = seccomp
  BY InvTyped DEF CallOK, Frame, Typed
<1>2. CASE child'[s] = child[s]
  BY <1>1, <1>2 DEF SetupOK, Before, Steps
<1>3. CASE child'[s].st \notin {"setup", "program"}
  BY <1>3 DEF SetupOK
<1>4. CASE Clones(s)
  <2>1. CASE child'[s] # child[s]
    <3>1. child'[s].st = "setup" /\ child'[s].pc = 1 /\ child'[s].done = {}
      BY <1>4, <2>1 DEF Clones
    <3>2. Before(child[s])' = {}
      BY <3>1 DEF Before, Steps
    <3>3. PICK kind : kind = child'[s].kind
      OBVIOUS
    <3>4. 1 \in 1..Len(Steps(kind))
      BY StepsLen, Zenon
    <3> QED  BY <3>1, <3>2, <3>3, <3>4 DEF SetupOK
  <2> QED  BY <1>2, <2>1
<1>5. CASE SetsUp(s)
  <2> DEFINE F == Steps(child[s].kind)
  <2>1. PICK step : step = StepOf(s)
    OBVIOUS
  <2>2. PICK n \in Nat : n = child[s].pc /\ n \in 1..Len(F) /\ step = F[n]
                         /\ (step = "exec" <=> n = Len(F)) /\ Len(F) \in Nat
    <3>1. Len(F) \in Nat
      BY StepsLen
    <3> QED  BY <1>5, <2>1, <3>1, SetupBy DEF SetsUp
  <2>3. /\ child[s].done \subseteq Before(child[s])
        /\ "exec" \notin Before(child[s])
        /\ Before(child[s]) \subseteq child[s].done \cup (IF child[s].kind = "run" /\ seccomp = "off"
                                                           THEN {"seccomp"} ELSE {})
    BY <1>1, <1>5, SetupBy DEF SetsUp, Ordered, SetupOK
  <2>4. /\ child'[s].kind = child[s].kind
        /\ IF step = "exec"
           THEN child'[s].st = "program" /\ child'[s].pc = n
           ELSE child'[s].st = "setup" /\ child'[s].pc = n + 1
        /\ child'[s].done \in {child[s].done \cup {step}} \cup
             (IF step = "seccomp" /\ child[s].kind = "run" /\ seccomp = "off"
              THEN {child[s].done} ELSE {})
    BY <1>5, <2>1, <2>2 DEF SetsUp, SameKid
  <2>5. Before(child[s]) = {F[i] : i \in 1..(n - 1)}
    BY <2>2 DEF Before
  <2>6. Before(child[s])' = {F[i] : i \in 1..(child'[s].pc - 1)} /\ Steps(child[s].kind)' = F
    BY <2>4 DEF Before, Steps
  <2> HIDE DEF F
  <2>7. CASE step = "exec"
    <3>1. Before(child[s])' = Before(child[s])
      BY <2>4, <2>5, <2>6, <2>7
    <3>2. child'[s].done = child[s].done \cup {"exec"}
      BY <2>4, <2>7
    <3> QED  BY <1>1, <2>2, <2>3, <2>4, <2>6, <2>7, <3>1, <3>2 DEF SetupOK
  <2>8. CASE step # "exec"
    <3>1. 1..(child'[s].pc - 1) = (1..(n - 1)) \cup {n}
      BY <2>2, <2>4, <2>8
    <3>2. Before(child[s])' = Before(child[s]) \cup {step}
      BY <2>2, <2>5, <2>6, <3>1
    <3>3. child'[s].pc \in 1..Len(F)
      BY <2>2, <2>4, <2>8
    <3> QED  BY <1>1, <2>3, <2>4, <2>6, <2>8, <3>2, <3>3 DEF SetupOK
  <2> QED  BY <2>7, <2>8
<1>6. CASE Starts(s) \/ Dispatches(s) \/ FailsEarly(s) \/ Emits(s) \/ Prepares(s) \/ Unlinks(s)
           \/ Advances(s) \/ Limits(s)
  BY <1>2, <1>6 DEF Starts, Dispatches, FailsEarly, Emits, Prepares, Unlinks, Advances, Limits
<1>7. CASE IsKilled(s) \/ Reaps(s) \/ GivesUp(s) \/ Destroys(s) \/ Reaped(s)
  BY <1>2, <1>3, <1>7 DEF IsKilled, Reaps, GivesUp, Destroys, Reaped
<1>8. CASE Breaks(s) \/ Compiles(s) \/ Plays(s)
  BY <1>3, <1>8 DEF Breaks, Compiles, Plays
<1> QED  BY <1>4, <1>5, <1>6, <1>7, <1>8, Zenon DEF Shape

LEMMA DirKept ==
    ASSUME EngineInv, NEW s \in Slots, Frame(s), Shape(s)
    PROVE  DirectoryUntouched'
<1>1. ~dir[Job(s)].tampered /\ Job(s) \in Jobs /\ \A j \in Jobs : ~dir[j].tampered
  BY InvTyped DEF Typed, Calls, Job
<1>2. ~dir'[Job(s)].tampered
  <2>1. CASE Starts(s) \/ Dispatches(s) \/ FailsEarly(s) \/ Emits(s) \/ IsKilled(s) \/ Advances(s)
    BY <1>1, <2>1 DEF Starts, Dispatches, FailsEarly, Emits, IsKilled, Advances
  <2>2. CASE Prepares(s) \/ Unlinks(s)
    BY <1>1, <2>2 DEF Prepares, Unlinks, IsRemoved
  <2>3. CASE Clones(s) \/ Limits(s) \/ Reaps(s) \/ GivesUp(s) \/ Destroys(s) \/ Reaped(s)
    BY <1>1, <2>3 DEF Clones, Limits, Reaps, GivesUp, Destroys, Reaped
  <2>4. CASE SetsUp(s) \/ Breaks(s) \/ Compiles(s) \/ Plays(s)
    BY <1>1, <2>4 DEF SetsUp, Breaks, Compiles, Plays
  <2> QED  BY <2>1, <2>2, <2>3, <2>4, Zenon DEF Shape
<1> QED  BY <1>1, <1>2 DEF DirectoryUntouched, Frame

LEMMA CallKept ==
    ASSUME EngineInv, NEW s \in Slots, Frame(s), Shape(s)
    PROVE  EngineInv'
<1>1. Typed' /\ hostMounts' = {}
  BY InvTyped DEF Frame
<1>0. HostUntouched'
  BY <1>1 DEF HostUntouched
<1>2. TypeOK'
  BY <1>0, <1>1, TypedType, PTL
<1>3. CallOK(s)'
  BY ControlKept, ChildKept, GroupKept, SetupKept DEF CallOK
<1>4. ASSUME NEW o \in Slots \ {s} PROVE CallOK(o)'
  <2>1. /\ CallOK(o) /\ task'[o] = task[o] /\ engine'[o] = engine[o] /\ child'[o] = child[o]
        /\ group'[o] = group[o] /\ seccomp' = seccomp
    BY InvTyped DEF Frame
  <2> QED  BY <2>1 DEF CallOK, SetupOK, Before, Steps
<1> QED  BY <1>1, <1>2, <1>3, <1>4, DirKept DEF EngineInv, HostUntouched, Typed

---------------------------------------------------------------------------
(* A new call, beside those that run.                                      *)

Others(s, j) == {o \in Slots \ {s} : Live(task[o]) /\ Job(o) = j}

Begins(s, j) ==
    /\ ~Live(task[s])
    /\ task'[s].phase = "compile" /\ task'[s].job = j /\ task'[s].verdict = "none"
    /\ task'[s].shared <=> Others(s, j) # {}
    /\ Others(s, j) # {} => "overlap" \in FaultKinds
    /\ \A o \in Slots \ {s} :
         /\ task'[o].phase = task[o].phase /\ task'[o].job = task[o].job
         /\ task'[o].attempt = task[o].attempt /\ task'[o].verdict = task[o].verdict
         /\ task'[o].shared <=> task[o].shared \/ o \in Others(s, j)
         /\ child'[o] = child[o] /\ (o \in hit' <=> o \in hit)
    /\ child'[s] = NoChild /\ s \notin hit'
    /\ UNCHANGED <<engine, group, dir, errfile, valid, hostMounts, seccomp>>

LEMMA BeginShape ==
    ASSUME EngineInv, NEW s \in Slots, NEW j \in Jobs, Begin(s, j)
    PROVE  Typed' /\ Begins(s, j)
<1>1. Typed
  BY InvTyped
<1> DEFINE others == {o \in Slots \ {s} : task[o].phase \notin {"idle", "done"} /\ Job(o) = j}
<1>2. others = Others(s, j)
  BY <1>1 DEF Others, Live, Typed, Calls
<1> DEFINE t == [NoTask EXCEPT !.phase = "compile", !.job = j, !.left = Cases,
                               !.attempt = attempts[j] + 1, !.shared = others # {}]
<1>3. attempts[j] \in 0..MaxAttempts /\ attempts[j] < MaxAttempts /\ MaxAttempts \in Nat
  BY <1>1, EngineAssumption DEF Begin, Typed
<1>4. attempts[j] + 1 \in Nat /\ attempts[j] + 1 \in 0..MaxAttempts
  BY <1>3
<1>5. PICK b \in BOOLEAN : b = (others # {})
  OBVIOUS
<1>6. t = [NoTask EXCEPT !.phase = "compile", !.job = j, !.left = Cases,
                         !.attempt = attempts[j] + 1, !.shared = b]
  BY <1>5
<1>7. /\ t \in Calls /\ t.phase = "compile" /\ t.job = j /\ t.verdict = "none" /\ t.shared = b
  <2>1. Cases \in 0..Cases
    BY EngineAssumption
  <2>2. PICK n \in Nat : n = attempts[j] + 1
    BY <1>4
  <2> HIDE DEF others
  <2>3. t = [NoTask EXCEPT !.phase = "compile", !.job = j, !.left = Cases, !.attempt = n, !.shared = b]
    BY <1>6, <2>2
  <2> HIDE DEF t
  <2> QED  BY <2>1, <2>3, NobodyBy DEF Calls
<1>8. task' = [o \in Slots |-> IF o = s THEN t
                               ELSE IF o \in others THEN [task[o] EXCEPT !.shared = TRUE] ELSE task[o]]
  BY Zenon DEF Begin
<1> HIDE DEF t
<1>9. task'[s] = t
  BY <1>8
<1>10. ASSUME NEW o \in Slots \ {s}
       PROVE  /\ task'[o] \in Calls
              /\ task'[o].phase = task[o].phase /\ task'[o].job = task[o].job
              /\ task'[o].attempt = task[o].attempt /\ task'[o].verdict = task[o].verdict
              /\ task'[o].shared <=> task[o].shared \/ o \in others
  <2>1. task[o] \in Calls
    BY <1>1 DEF Typed
  <2>2. CASE o \in others
    <3>1. task'[o] = [task[o] EXCEPT !.shared = TRUE]
      BY <1>8, <2>2
    <3> QED  BY <2>1, <2>2, <3>1 DEF Calls
  <2>3. CASE o \notin others
    <3>1. task'[o] = task[o]
      BY <1>8, <2>3
    <3> QED  BY <2>1, <2>3, <3>1
  <2> QED  BY <2>2, <2>3
<1>11. task' \in [Slots -> Calls]
  BY <1>7, <1>8, <1>9, <1>10
<1>12. /\ child' \in [Slots -> Kids] /\ child'[s] = NoChild
       /\ \A o \in Slots \ {s} : child'[o] = child[o]
  BY <1>1, NobodyBy DEF Begin, Typed
<1>13. attempts' \in [Jobs -> 0..MaxAttempts]
  BY <1>1, <1>4 DEF Begin, Typed
<1>14. /\ hit' \subseteq Slots /\ s \notin hit' /\ \A o \in Slots \ {s} : (o \in hit' <=> o \in hit)
       /\ UNCHANGED <<engine, group, dir, errfile, valid, hostMounts, seccomp, delegated>>
  BY <1>1 DEF Begin, Typed, cgroupVars
<1>15. budget' \in Nat /\ (others # {} => "overlap" \in FaultKinds)
  <2>1. IF others = {} THEN NoFault ELSE Fault("overlap")
    BY Zenon DEF Begin
  <2> QED  BY <1>1, <2>1 DEF Typed, Fault, NoFault
<1>16. Typed'
  BY <1>1, <1>11, <1>12, <1>13, <1>14, <1>15 DEF Typed
<1>17. ~Live(task[s])
  BY DEF Begin, Live
<1> QED  BY <1>2, <1>5, <1>7, <1>9, <1>10, <1>12, <1>14, <1>15, <1>16, <1>17 DEF Begins

LEMMA BeginKept ==
    ASSUME EngineInv, NEW s \in Slots, NEW j \in Jobs, Begin(s, j)
    PROVE  EngineInv'
<1>1. Typed' /\ Begins(s, j) /\ hostMounts' = {} /\ Typed
  BY BeginShape, InvTyped DEF Begins
<1>0. HostUntouched'
  BY <1>1 DEF HostUntouched
<1>2. TypeOK'
  BY <1>0, <1>1, TypedType, PTL
<1>3. ASSUME NEW o \in Slots PROVE CallOK(o)'
  <2>1. /\ CallOK(o) /\ Control(task[o], engine[o]) /\ engine'[o] = engine[o]
        /\ group'[o] = group[o] /\ seccomp' = seccomp
    BY <1>1, InvTyped, ControlBy DEF Begins, CallOK
  <2>2. CASE o = s
    <3>1. task[s].phase \notin {"compile", "run", "cleanup"} /\ engine[s] = NoEngine
      BY <1>1, <2>1, <2>2 DEF Begins, Live, Control
    <3>2. Control(task'[s], engine'[s])
      BY <1>1, <2>1, <2>2, <3>1, NobodyBy DEF Begins, Control
    <3>3. ChildOK(task'[s], engine'[s], child'[s]) /\ SetupOK(child[s])'
      BY <1>1, NobodyBy DEF Begins, ChildOK, SetupOK
    <3>4. GroupOK(task'[s], engine'[s], group'[s])
      BY <1>1, <2>1, <2>2, <3>1, NobodyBy DEF Begins, GroupOK, CallOK
    <3> QED  BY <2>2, <3>2, <3>3, <3>4, ControlBy DEF CallOK
  <2>3. CASE o # s
    <3>1. /\ task'[o].phase = task[o].phase /\ task'[o].job = task[o].job
          /\ task'[o].attempt = task[o].attempt /\ task'[o].verdict = task[o].verdict
          /\ child'[o] = child[o]
      BY <1>1, <2>3 DEF Begins
    <3>2. Control(task'[o], engine'[o])
      BY <2>1, <3>1, ZenonT(60) DEF Control
    <3>3. ChildOK(task'[o], engine'[o], child'[o]) /\ GroupOK(task'[o], engine'[o], group'[o])
      BY <2>1, <3>1 DEF CallOK, ChildOK, GroupOK
    <3>4. SetupOK(child[o])'
      BY <2>1, <3>1 DEF CallOK, SetupOK, Before, Steps
    <3> QED  BY <3>2, <3>3, <3>4, ControlBy DEF CallOK
  <2> QED  BY <2>2, <2>3
<1>4. DirectoryUntouched'
  BY <1>1, InvTyped DEF Begins, DirectoryUntouched
<1> QED  BY <1>1, <1>2, <1>3, <1>4 DEF EngineInv, HostUntouched, Typed

LEMMA InitInv == Init => EngineInv
<1> SUFFICES ASSUME Init PROVE EngineInv
  OBVIOUS
<1>1. Typed /\ hostMounts = {}
  <2>1. task \in [Slots -> Calls] /\ engine \in [Slots -> Engines]
    BY NobodyBy DEF Init
  <2>2. child \in [Slots -> Kids] /\ dir \in [Jobs -> Dirs] /\ hostMounts = {} /\ hit = {}
        /\ seccomp \in SeccompModes
    BY NobodyBy DEF Init, ChildInit
  <2>3. group \in [Slots -> Groups] /\ delegated \in BOOLEAN
    BY NobodyBy DEF Init, CgroupInit
  <2>4. valid \subseteq Jobs /\ attempts \in [Jobs -> 0..MaxAttempts] /\ errfile = {} /\ budget \in Nat
    BY EngineAssumption, MaxFaultsAssumption DEF Init, FaultsInit
  <2> QED  BY <2>1, <2>2, <2>3, <2>4 DEF Typed
<1>2. ASSUME NEW s \in Slots PROVE CallOK(s)
  <2>1. task[s] = NoTask /\ engine[s] = NoEngine /\ child[s] = NoChild /\ group[s] = NoGroup
    BY DEF Init, ChildInit, CgroupInit
  <2>2. Control(NoTask, NoEngine)
    BY NobodyBy DEF Control
  <2>3. ChildOK(NoTask, NoEngine, NoChild) /\ GroupOK(NoTask, NoEngine, NoGroup) /\ SetupOK(NoChild)
    BY NobodyBy DEF ChildOK, GroupOK, SetupOK
  <2> QED  BY <2>1, <2>2, <2>3, ControlBy DEF CallOK
<1>3. DirectoryUntouched
  BY NobodyBy DEF Init, ChildInit, DirectoryUntouched
<1> QED  BY <1>1, <1>2, <1>3, TypedType DEF EngineInv, HostUntouched, Typed

LEMMA SameInv ==
    ASSUME EngineInv, UNCHANGED vars
    PROVE  EngineInv'
<1>1. Typed /\ Typed' /\ hostMounts' = {}
  BY InvTyped DEF Typed, vars, childVars, cgroupVars, engineVars
<1>0. HostUntouched'
  BY <1>1 DEF HostUntouched
<1>2. ASSUME NEW s \in Slots PROVE CallOK(s)'
  <2>1. CallOK(s) /\ UNCHANGED <<task, engine, child, group, seccomp>>
    BY InvTyped DEF vars, childVars, cgroupVars, engineVars
  <2> QED  BY <2>1 DEF CallOK, SetupOK, Before, Steps
<1>3. DirectoryUntouched'
  BY InvTyped DEF DirectoryUntouched, vars, childVars
<1>4. TypeOK'
  BY <1>0, <1>1, TypedType, PTL
<1> QED  BY <1>1, <1>2, <1>3, <1>4 DEF EngineInv, HostUntouched, Typed

(* The inductive invariant of the processes: types, where a judge_engine,  *)
(* its child and its cgroup can be at the same time, which steps of its    *)
(* set-up a child has behind it, and that the host is untouched.           *)
THEOREM EngineInvHolds == Spec => []EngineInv
<1>1. EngineInv /\ [Next]_vars => EngineInv'
  <2> SUFFICES ASSUME EngineInv, [Next]_vars PROVE EngineInv'
    OBVIOUS
  <2>1. CASE Next
    BY <2>1, NextShape, CallKept, BeginKept
  <2> QED  BY <2>1, SameInv
<1> QED  BY <1>1, InitInv, PTL DEF Spec

(* Types: every variable of the engine, its children and its cgroups keeps *)
(* the values TypeOK gives it.                                             *)
THEOREM TypeCorrect == Spec => []TypeOK
<1>1. EngineInv => TypeOK
  BY DEF EngineInv
<1> QED  BY <1>1, EngineInvHolds, PTL

(* The compiler and the program run only behind the whole isolation, on    *)
(* every path through the set-up and whatever fails on the way; no mount   *)
(* reaches the host and no program changes the directory it runs from.     *)
THEOREM ShutIn == Spec => []Isolated
<1>1. EngineInv => Isolated
  <2> SUFFICES ASSUME EngineInv PROVE Confined
    BY DEF EngineInv, Isolated
  <2> QED  BY ProgramBy DEF Confined
<1> QED  BY <1>1, EngineInvHolds, PTL

---------------------------------------------------------------------------
(* A call that is alone with its job, and the directory of the job.        *)

(* Only a call that is under way makes steps, and it keeps its job. *)
LEMMA BusyBy ==
    ASSUME EngineInv, NEW s \in Slots, Frame(s), Shape(s)
    PROVE  /\ Live(task[s]) /\ task'[s].job = task[s].job /\ task'[s].shared = task[s].shared
           /\ Control(task[s], engine[s]) /\ ChildOK(task[s], engine[s], child[s])
<1>1. Control(task[s], engine[s]) /\ ChildOK(task[s], engine[s], child[s])
  BY InvTyped, ControlBy DEF CallOK
<1>2. engine[s].pc # "none" => Live(task[s])
  BY <1>1 DEF Control, Live
<1>3. child[s].st \in {"setup", "program"} => engine[s].pc # "none"
  BY <1>1 DEF ChildOK, Watching
<1>4. CASE Starts(s) \/ Dispatches(s) \/ FailsEarly(s) \/ Emits(s) \/ IsKilled(s) \/ Advances(s)
  BY <1>1, <1>2, <1>4 DEF Starts, Dispatches, FailsEarly, Emits, IsKilled, Advances, Job
<1>5. CASE Prepares(s) \/ Unlinks(s) \/ Clones(s) \/ Limits(s)
  BY <1>1, <1>2, <1>5 DEF Prepares, Unlinks, Clones, Limits
<1>6. CASE Reaps(s) \/ GivesUp(s) \/ Destroys(s) \/ Reaped(s)
  BY <1>1, <1>2, <1>6 DEF Reaps, GivesUp, Destroys, Reaped
<1>7. CASE SetsUp(s) \/ Breaks(s) \/ Compiles(s) \/ Plays(s)
  BY <1>1, <1>2, <1>3, <1>7 DEF SetsUp, Breaks, Compiles, Plays
<1> QED  BY <1>4, <1>5, <1>6, <1>7, Zenon DEF Shape

LEMMA SharedKept ==
    ASSUME EngineInv, SharedInv, NEW s \in Slots, Frame(s), Shape(s)
    PROVE  SharedInv'
<1>1. /\ Live(task[s]) /\ task'[s].job = task[s].job /\ task'[s].shared = task[s].shared
      /\ \A o \in Slots \ {s} : task'[o] = task[o]
  BY BusyBy DEF Frame
<1>2. \A o \in Slots : /\ Live(task'[o]) => Live(task[o])
                       /\ task'[o].job = task[o].job /\ task'[o].shared = task[o].shared
  BY <1>1
<1> QED  BY <1>2 DEF SharedInv, Job

LEMMA OwnDir ==
    ASSUME EngineInv, NEW s \in Slots, Frame(s), Shape(s), Live(task'[s]),
           DirOK(task[s], engine[s], child[s], dir[Job(s)], s \in hit)
    PROVE  DirOK(task'[s], engine'[s], child'[s], dir'[Job(s)], s \in hit')
<1>1. Control(task[s], engine[s]) /\ ChildOK(task[s], engine[s], child[s])
  BY BusyBy
<1>2. CASE Starts(s) \/ Dispatches(s)
  BY <1>1, <1>2 DEF Starts, Dispatches, DirOK, Control, Moved, Calm
<1>3. CASE FailsEarly(s) \/ Emits(s)
  BY <1>1, <1>3 DEF FailsEarly, Emits, DirOK, Control, Moved, Calm, Struck
<1>4. CASE IsKilled(s)
  BY <1>1, <1>4 DEF IsKilled, DirOK, Moved
<1>5. CASE Advances(s)
  BY <1>1, <1>5, NobodyBy DEF Advances, DirOK, Control, ChildOK, Watching, Live
<1>6. CASE Prepares(s)
  BY <1>1, <1>6 DEF Prepares, DirOK, Control, ChildOK, Watching, Moved, Struck
<1>7. CASE Unlinks(s)
  BY <1>1, <1>7 DEF Unlinks, IsRemoved, DirOK, Control, ChildOK, Watching, Moved, Calm, Struck
<1>8. CASE Clones(s)
  BY <1>1, <1>8 DEF Clones, DirOK, Control, ChildOK, Watching, Moved, Struck
<1>9. CASE Limits(s)
  BY <1>1, <1>9 DEF Limits, DirOK, Control, Moved
<1>10. CASE Reaps(s)
  BY <1>1, <1>10 DEF Reaps, DirOK, Control
<1>11. CASE GivesUp(s)
  BY <1>1, <1>11 DEF GivesUp, DirOK, Control, Moved
<1>12. CASE Destroys(s) \/ Reaped(s)
  BY <1>1, <1>12 DEF Destroys, Reaped, DirOK, Control, Moved
<1>13. CASE SetsUp(s)
  <2>1. PICK step : step = StepOf(s)
    OBVIOUS
  <2>2. /\ child[s].job = Job(s) /\ child[s].kind = task[s].phase
        /\ step = "chmod_root" => child[s].kind = "run"
    BY <1>13, <2>1, SetupBy DEF SetsUp, Ordered
  <2>3. ~Disturbed(s)
    BY <1>13, <2>2 DEF SetsUp, DirOK, Disturbed
  <2>4. engine[s].pc \in Watching
    BY <1>1, <1>13 DEF SetsUp, ChildOK
  <2> QED  BY <1>13, <2>1, <2>2, <2>3, <2>4 DEF SetsUp, DirOK, Watching
<1>14. CASE Breaks(s)
  BY <1>1, <1>14 DEF Breaks, DirOK, ChildOK, Watching
<1>15. CASE Compiles(s)
  <2>1. engine[s].pc \in Watching /\ task'[s] = task[s] /\ engine'[s] = engine[s]
        /\ child'[s].st = "zombie"
    BY <1>1, <1>15 DEF Compiles, ChildOK
  <2>2. /\ dir'[Job(s)].mode = dir[Job(s)].mode
        /\ dir[Job(s)].exe \/ child'[s].code = 0 => dir'[Job(s)].exe
    BY <1>15 DEF Compiles
  <2> QED  BY <2>1, <2>2 DEF DirOK, Watching
<1>16. CASE Plays(s)
  <2>1. task[s].phase = "run" /\ task'[s] = task[s] /\ dir' = dir /\ child'[s].st = "zombie"
    BY <1>1, <1>16 DEF Plays, ChildOK
  <2> QED  BY <2>1 DEF DirOK
<1> QED  BY <1>2, <1>3, <1>4, <1>5, <1>6, <1>7, <1>8, <1>9, <1>10, <1>11, <1>12, <1>13, <1>14, <1>15,
            <1>16, Zenon DEF Shape

LEMMA ExeKept ==
    ASSUME EngineInv, \A j \in Jobs : dir[j].exe => j \in valid, NEW s \in Slots, Frame(s), Shape(s)
    PROVE  \A j \in Jobs : dir'[j].exe => j \in valid'
<1>1. Job(s) \in Jobs /\ valid' = valid /\ \A j \in Jobs \ {Job(s)} : dir'[j] = dir[j]
  BY InvTyped DEF Frame, Typed, Calls, Job
<1>2. dir'[Job(s)].exe => dir[Job(s)].exe \/ Job(s) \in valid
  <2>1. CASE Starts(s) \/ Dispatches(s) \/ FailsEarly(s) \/ Emits(s) \/ IsKilled(s) \/ Advances(s)
    BY <2>1 DEF Starts, Dispatches, FailsEarly, Emits, IsKilled, Advances
  <2>2. CASE Prepares(s) \/ Unlinks(s)
    BY <2>2 DEF Prepares, Unlinks, IsRemoved
  <2>3. CASE Clones(s) \/ Limits(s) \/ Reaps(s) \/ GivesUp(s) \/ Destroys(s) \/ Reaped(s)
    BY <2>3 DEF Clones, Limits, Reaps, GivesUp, Destroys, Reaped
  <2>4. CASE SetsUp(s) \/ Breaks(s) \/ Compiles(s) \/ Plays(s)
    BY <2>4 DEF SetsUp, Breaks, Compiles, Plays
  <2> QED  BY <2>1, <2>2, <2>3, <2>4, Zenon DEF Shape
<1> QED  BY <1>1, <1>2

LEMMA DirInvKept ==
    ASSUME ShareInv, NEW s \in Slots, Frame(s), Shape(s)
    PROVE  DirInv'
<1>1. EngineInv /\ SharedInv /\ DirInv
  BY DEF ShareInv
<1>2. Live(task[s]) /\ task'[s].job = task[s].job /\ task'[s].shared = task[s].shared
  BY <1>1, BusyBy
<1>3. ASSUME NEW o \in Slots, Live(task'[o]), ~task'[o].shared
      PROVE  DirOK(task'[o], engine'[o], child'[o], dir'[task'[o].job], o \in hit')
  <2>1. CASE o = s
    <3>1. DirOK(task[s], engine[s], child[s], dir[Job(s)], s \in hit)
      BY <1>1, <1>2, <1>3, <2>1 DEF DirInv
    <3>2. DirOK(task'[s], engine'[s], child'[s], dir'[Job(s)], s \in hit')
      BY <1>1, <1>3, <2>1, <3>1, OwnDir
    <3> QED  BY <1>2, <2>1, <3>2 DEF Job
  <2>2. CASE o # s
    <3>1. /\ task'[o] = task[o] /\ engine'[o] = engine[o] /\ child'[o] = child[o]
          /\ (o \in hit' <=> o \in hit)
      BY <2>2 DEF Frame
    <3>2. DirOK(task[o], engine[o], child[o], dir[Job(o)], o \in hit)
      BY <1>1, <1>3, <3>1 DEF DirInv
    <3>3. Job(o) # Job(s) /\ Job(o) \in Jobs
      BY <1>1, <1>2, <1>3, <2>2, <3>1, InvTyped DEF SharedInv, Job, Typed, Calls
    <3>4. dir'[Job(o)] = dir[Job(o)]
      BY <3>3 DEF Frame
    <3> QED  BY <3>1, <3>2, <3>4 DEF Job, DirOK
  <2> QED  BY <2>1, <2>2
<1>4. \A j \in Jobs : dir'[j].exe => j \in valid'
  BY <1>1, ExeKept DEF DirInv
<1> QED  BY <1>3, <1>4 DEF DirInv, Job

LEMMA BeginShared ==
    ASSUME ShareInv, NEW s \in Slots, NEW j \in Jobs, Begin(s, j)
    PROVE  SharedInv' /\ DirInv'
<1>1. EngineInv /\ SharedInv /\ DirInv /\ Begins(s, j)
  BY BeginShape DEF ShareInv
<1>2. SharedInv'
  <2>1. ASSUME NEW a \in Slots, NEW b \in Slots, a # b, Live(task'[a]), Live(task'[b]),
               task'[a].job = task'[b].job
        PROVE  task'[a].shared
    <3>1. CASE a = s
      <4>1. b \in Others(s, j)
        BY <1>1, <2>1, <3>1 DEF Begins, Others, Live, Job
      <4> QED  BY <1>1, <3>1, <4>1 DEF Begins
    <3>2. CASE b = s
      <4>1. a \in Others(s, j)
        BY <1>1, <2>1, <3>2 DEF Begins, Others, Live, Job
      <4> QED  BY <1>1, <2>1, <3>2, <4>1 DEF Begins
    <3>3. CASE a # s /\ b # s
      <4>1. task[a].shared
        BY <1>1, <2>1, <3>3 DEF Begins, SharedInv, Live, Job
      <4> QED  BY <1>1, <3>3, <4>1 DEF Begins
    <3> QED  BY <3>1, <3>2, <3>3
  <2>2. ASSUME NEW a \in Slots, task'[a].shared
        PROVE  "overlap" \in FaultKinds
    <3>1. CASE a = s
      BY <1>1, <2>2, <3>1 DEF Begins
    <3>2. CASE a # s
      BY <1>1, <2>2, <3>2 DEF Begins, SharedInv
    <3> QED  BY <3>1, <3>2
  <2> QED  BY <2>1, <2>2 DEF SharedInv, Job
<1>3. ASSUME NEW o \in Slots, Live(task'[o]), ~task'[o].shared
      PROVE  DirOK(task'[o], engine'[o], child'[o], dir'[task'[o].job], o \in hit')
  <2>1. CASE o = s
    <3>1. engine[s] = NoEngine
      BY <1>1, InvTyped, ControlBy DEF Begins, Live, CallOK, Control
    <3> QED  BY <1>1, <2>1, <3>1, NobodyBy DEF Begins, DirOK
  <2>2. CASE o # s
    <3>1. /\ task'[o].phase = task[o].phase /\ task'[o].job = task[o].job
          /\ ~task[o].shared /\ child'[o] = child[o] /\ (o \in hit' <=> o \in hit)
          /\ engine' = engine /\ dir' = dir
      BY <1>1, <1>3, <2>2 DEF Begins
    <3>2. DirOK(task[o], engine[o], child[o], dir[Job(o)], o \in hit)
      BY <1>1, <1>3, <3>1 DEF DirInv, Live
    <3> QED  BY <3>1, <3>2 DEF DirOK, Job
  <2> QED  BY <2>1, <2>2
<1> QED  BY <1>1, <1>2, <1>3 DEF DirInv, Begins, Job

(* The inductive invariant of the directories: who may work in the         *)
(* directory of a job, and what compiles, runs and kills leave in it.      *)
THEOREM ShareInvHolds == Spec => []ShareInv
<1>1. Init => ShareInv
  <2> SUFFICES ASSUME Init PROVE ShareInv
    OBVIOUS
  <2>1. \A s \in Slots : task[s] = NoTask
    BY DEF Init
  <2>2. SharedInv
    BY <2>1, NobodyBy DEF SharedInv, Live
  <2>3. DirInv
    BY <2>1, NobodyBy DEF DirInv, Live, Init, ChildInit
  <2> QED  BY <2>2, <2>3, InitInv DEF ShareInv
<1>2. ShareInv /\ [Next]_vars => ShareInv'
  <2> SUFFICES ASSUME ShareInv, [Next]_vars PROVE ShareInv'
    OBVIOUS
  <2>1. CASE Next
    <3>1. ASSUME NEW s \in Slots, NEW j \in Jobs, Begin(s, j) PROVE ShareInv'
      BY <3>1, BeginShared, BeginKept DEF ShareInv
    <3>2. ASSUME NEW s \in Slots, Frame(s), Shape(s) PROVE ShareInv'
      BY <3>2, SharedKept, DirInvKept, CallKept DEF ShareInv
    <3> QED  BY <2>1, <3>1, <3>2, NextShape DEF ShareInv
  <2>2. CASE UNCHANGED vars
    <3>1. EngineInv'
      BY <2>2, SameInv DEF ShareInv
    <3>2. SharedInv' /\ DirInv'
      BY <2>2 DEF ShareInv, SharedInv, DirInv, Live, Job, DirOK, vars, childVars, engineVars
    <3> QED  BY <3>1, <3>2 DEF ShareInv
  <2> QED  BY <2>1, <2>2
<1> QED  BY <1>1, <1>2, PTL DEF Spec

(* When judge_engine has ended, its child is reaped, its cgroup is gone,   *)
(* unless the kernel refuses to remove it, and a failed compile has taken  *)
(* its directory along.                                                    *)
THEOREM NothingLeft == Spec => []NothingOutlivesEngine
<1>1. ShareInv => NothingOutlivesEngine
  <2> SUFFICES ASSUME ShareInv, NEW s \in Slots
               PROVE  /\ engine[s].pc \in {"exited", "killed"} => child[s].st \in {"none", "gone"}
                      /\ engine[s].pc = "exited" =>
                           ~group[s].exists \/ group[s].held \/ task[s].phase # "run"
                      /\ engine[s].line.status = "Compile Error" /\ s \notin hit /\ ~task[s].shared =>
                           ~dir[Job(s)].exists
    BY DEF NothingOutlivesEngine
  <2>1. /\ Control(task[s], engine[s]) /\ ChildOK(task[s], engine[s], child[s])
        /\ GroupOK(task[s], engine[s], group[s]) /\ child[s].st \in States
    BY InvTyped, ControlBy DEF ShareInv, CallOK, Typed, Kids
  <2>2. engine[s].pc \in {"exited", "killed"} => child[s].st \in {"none", "gone"}
    BY <2>1 DEF ChildOK, States, Watching
  <2>3. engine[s].pc = "exited" => ~group[s].exists \/ group[s].held \/ task[s].phase # "run"
    BY <2>1 DEF GroupOK
  <2>4. ASSUME engine[s].line.status = "Compile Error", s \notin hit, ~task[s].shared
        PROVE  ~dir[Job(s)].exists
    <3>1. engine[s].pc = "exited" /\ engine[s].status = "Compile Error" /\ task[s].phase = "compile"
      BY <2>1, <2>4, NobodyBy DEF Control
    <3>2. DirOK(task[s], engine[s], child[s], dir[Job(s)], s \in hit)
      BY <2>4, <3>1 DEF ShareInv, DirInv, Live
    <3> QED  BY <2>4, <3>1, <3>2 DEF DirOK
  <2> QED  BY <2>2, <2>3, <2>4
<1> QED  BY <1>1, ShareInvHolds, PTL

(* No directory is removed under a live process of its job, by its own     *)
(* call or by that of another slot.                                        *)
THEOREM KeptInUse == Spec => NotRemovedInUse
<1> DEFINE P == \A s \in Slots : Alive(s) /\ ~task[s].shared =>
                  dir'[child[s].job].gen = dir[child[s].job].gen
<1>1. ShareInv /\ [Next]_vars => [P]_vars
  <2> SUFFICES ASSUME ShareInv, Next, NEW s \in Slots, Alive(s), ~task[s].shared
               PROVE  dir'[child[s].job].gen = dir[child[s].job].gen
    OBVIOUS
  <2>1. /\ EngineInv /\ SharedInv /\ Control(task[s], engine[s])
        /\ ChildOK(task[s], engine[s], child[s])
    BY InvTyped, ControlBy DEF ShareInv, CallOK
  <2>2. /\ child[s].job = Job(s) /\ engine[s].pc \in Watching /\ Job(s) \in Jobs
        /\ Live(task[s])
    BY <2>1, InvTyped DEF ChildOK, Alive, Watching, Control, Live, Typed, Calls, Job
  <2>3. ASSUME NEW o \in Slots, NEW j \in Jobs, Begin(o, j)
        PROVE  dir'[child[s].job].gen = dir[child[s].job].gen
    BY <2>3 DEF Begin
  <2>4. ASSUME NEW o \in Slots, Frame(o), Shape(o)
        PROVE  dir'[child[s].job].gen = dir[child[s].job].gen
    <3>1. CASE o = s
      <4>1. CASE Starts(s) \/ Dispatches(s) \/ FailsEarly(s) \/ Emits(s) \/ IsKilled(s) \/ Advances(s)
        BY <4>1 DEF Starts, Dispatches, FailsEarly, Emits, IsKilled, Advances
      <4>2. CASE Prepares(s) \/ Unlinks(s)
        BY <2>2, <4>2 DEF Prepares, Unlinks, Watching
      <4>3. CASE Clones(s) \/ Limits(s) \/ Reaps(s) \/ GivesUp(s) \/ Destroys(s) \/ Reaped(s)
        BY <4>3 DEF Clones, Limits, Reaps, GivesUp, Destroys, Reaped
      <4>4. CASE SetsUp(s) \/ Breaks(s) \/ Compiles(s) \/ Plays(s)
        BY <2>2, <4>4 DEF SetsUp, Breaks, Compiles, Plays
      <4> QED  BY <2>4, <3>1, <4>1, <4>2, <4>3, <4>4, Zenon DEF Shape
    <3>2. CASE o # s
      <4>1. Live(task[o])
        BY <2>1, <2>4, BusyBy
      <4>2. Job(o) # Job(s)
        BY <2>1, <2>2, <3>2, <4>1 DEF SharedInv
      <4> QED  BY <2>2, <2>4, <4>2 DEF Frame
    <3> QED  BY <3>1, <3>2
  <2> QED  BY <2>1, <2>3, <2>4, NextShape
<1> QED  BY <1>1, ShareInvHolds, PTL DEF Spec, NotRemovedInUse

---------------------------------------------------------------------------
(* The set-up never stands in its own way.                                 *)

(* A step of a child that is alone with its job can be taken. *)
LEMMA StepPossible ==
    ASSUME ShareInv, CompileCpuLimit <= CompileRealLimit, NEW s \in Slots,
           child[s].st = "setup", ~task[s].shared
    PROVE  Possible(s) /\ ~Disturbed(s)
<1>1. EngineInv
  BY DEF ShareInv
<1>2. PICK step : step = StepOf(s)
  OBVIOUS
<1>3. /\ child[s].job = Job(s) /\ child[s].kind = task[s].phase /\ child[s] \in Kids
      /\ Ordered(child[s].kind, step, Before(child[s]))
      /\ child[s].done \subseteq Before(child[s])
      /\ \A x \in Before(child[s]) : x # "seccomp" => x \in child[s].done
  BY <1>1, <1>2, SetupBy
<1>4. DirOK(task[s], engine[s], child[s], dir[Job(s)], s \in hit)
  BY <1>3 DEF ShareInv, DirInv, Live, Kids
<1>5. ~Disturbed(s)
  BY <1>3, <1>4 DEF Disturbed, DirOK
<1>6. Permitted(s) /\ Mkdir(s)
  BY <1>2, <1>3 DEF Permitted, Mkdir, Ordered
<1>7. /\ step = "chmod_root" => "root_ro" \notin child[s].done
      /\ step = "pivot" => {"private", "bind_self"} \subseteq child[s].done
      /\ step = "exec" => "bind_lib" \in child[s].done
  BY <1>3 DEF Ordered
<1>8. step = "pivot" => "old_root" \in dir[Job(s)].made
  <2>1. step = "pivot" => "mkdir_old" \in child[s].done /\ "rmdir_old" \notin child[s].done
    BY <1>3 DEF Ordered
  <2> QED  BY <1>4, <2>1 DEF DirOK
<1>9. (step = "tmpfs" => "tmp" \in dir[Job(s)].made) /\ (step = "proc" => "proc" \in dir[Job(s)].made)
  <2>1. /\ step = "tmpfs" => "mkdir_tmp" \in child[s].done
        /\ step = "proc" => "mkdir_proc" \in child[s].done
    BY <1>3 DEF Ordered
  <2> QED  BY <1>4, <2>1 DEF DirOK
<1>10. child[s].kind = "run" => dir[Job(s)].exe
  BY <1>3, <1>4 DEF DirOK
<1> QED  BY <1>2, <1>3, <1>5, <1>6, <1>7, <1>8, <1>9, <1>10 DEF Possible

LEMMA BlockedKept ==
    ASSUME ShareInv, BlockedInv, CompileCpuLimit <= CompileRealLimit, [Next]_vars
    PROVE  BlockedInv'
<1>1. CASE UNCHANGED vars
  BY <1>1 DEF BlockedInv, vars, childVars, engineVars
<1>2. ASSUME NEW s \in Slots, NEW j \in Jobs, Begin(s, j) PROVE BlockedInv'
  <2>1. Begins(s, j)
    BY <1>2, BeginShape DEF ShareInv
  <2>2. ASSUME NEW o \in Slots, child'[o].cause = "blocked" PROVE task'[o].shared
    <3>1. CASE o = s
      BY <2>1, <2>2, <3>1, NobodyBy DEF Begins
    <3>2. CASE o # s
      BY <2>1, <2>2, <3>2 DEF Begins, BlockedInv
    <3> QED  BY <3>1, <3>2
  <2> QED  BY <2>2 DEF BlockedInv
<1>3. ASSUME NEW s \in Slots, Frame(s), Shape(s) PROVE BlockedInv'
  <2>1. task'[s].shared = task[s].shared
    BY <1>3, BusyBy DEF ShareInv
  <2>2. child'[s].cause = "blocked" => child[s].cause = "blocked" \/ task[s].shared
    <3>1. CASE Starts(s) \/ Dispatches(s) \/ FailsEarly(s) \/ Emits(s) \/ IsKilled(s) \/ Advances(s)
      BY <3>1 DEF Starts, Dispatches, FailsEarly, Emits, IsKilled, Advances
    <3>2. CASE Prepares(s) \/ Unlinks(s) \/ Clones(s) \/ Limits(s)
      BY <3>2 DEF Prepares, Unlinks, Clones, Limits
    <3>3. CASE Reaps(s) \/ GivesUp(s) \/ Destroys(s) \/ Reaped(s)
      BY <3>3 DEF Reaps, SameEnd, GivesUp, Destroys, Reaped
    <3>4. CASE SetsUp(s) \/ Compiles(s) \/ Plays(s)
      BY <3>4 DEF SetsUp, Compiles, Plays
    <3>5. CASE Breaks(s)
      <4>1. child'[s].cause = "blocked" => ~Possible(s) \/ Disturbed(s)
        BY <3>5 DEF Breaks
      <4>2. child[s].st = "setup"
        BY <3>5 DEF Breaks
      <4> QED  BY <4>1, <4>2, StepPossible
    <3> QED  BY <1>3, <3>1, <3>2, <3>3, <3>4, <3>5, Zenon DEF Shape
  <2>3. \A o \in Slots \ {s} : child'[o] = child[o] /\ task'[o] = task[o]
    BY <1>3 DEF Frame
  <2> QED  BY <2>1, <2>2, <2>3 DEF BlockedInv
<1> QED  BY <1>1, <1>2, <1>3, NextShape DEF ShareInv

LEMMA BlockedInit == Init => BlockedInv
BY NobodyBy DEF Init, ChildInit, BlockedInv

(* In whatever state earlier compiles, runs, failures and kills have left  *)
(* the directory of a job, a child gets through its set-up, unless another *)
(* attempt works on the directory too.                                     *)
THEOREM SetupGoesThrough ==
    ASSUME CompileCpuLimit <= CompileRealLimit
    PROVE  Spec => []SetupNeverBlocked
<1>1. ShareInv /\ BlockedInv /\ [Next]_vars => BlockedInv'
  BY BlockedKept
<1>2. BlockedInv => SetupNeverBlocked
  BY DEF BlockedInv, SetupNeverBlocked
<1> QED  BY <1>1, <1>2, BlockedInit, ShareInvHolds, PTL DEF Spec

---------------------------------------------------------------------------
(* The verdict of a call that is alone and met no failure is its own.      *)

\* No child of another job can put the mark of a failed exec into the file
\* of standard error of a program: either every job has a problem of its own,
\* or no set-up fails and attempts do not overlap.
StderrIsOwn ==
    \/ \A i, j \in Jobs : ProblemOf[i] = ProblemOf[j] => i = j
    \/ {"setup", "overlap"} \cap FaultKinds = {}

(* The file of standard error of a program gets no mark but its own. *)
LEMMA MarkBy ==
    ASSUME ShareInv, BlockedInv', StderrIsOwn, NEW s \in Slots, Frame(s), Shape(s),
           NEW o \in Slots, Live(task[o]), ~task[o].shared, s # o \/ s \notin hit',
           ProblemOf[Job(o)] \notin errfile
    PROVE  ProblemOf[Job(o)] \notin errfile'
<1>1. /\ EngineInv /\ SharedInv /\ Live(task[s]) /\ task'[s].shared = task[s].shared
      /\ Job(s) \in Jobs /\ Job(o) \in Jobs
  BY BusyBy, InvTyped DEF ShareInv, Typed, Calls, Job
<1>2. CASE Breaks(s)
  <2>1. CASE Struck(s) /\ "setup" \in FaultKinds
    <3>1. s # o
      BY <2>1 DEF Struck
    <3>2. Job(s) # Job(o)
      BY <1>1, <3>1 DEF SharedInv
    <3>3. ProblemOf[Job(s)] # ProblemOf[Job(o)]
      BY <1>1, <2>1, <3>2 DEF StderrIsOwn
    <3> QED  BY <1>2, <3>3 DEF Breaks
  <2>2. CASE child'[s].cause = "blocked"
    <3>1. task[s].shared /\ "overlap" \in FaultKinds
      BY <1>1, <2>2 DEF BlockedInv, SharedInv
    <3>2. Job(s) # Job(o)
      BY <1>1, <3>1 DEF SharedInv
    <3>3. ProblemOf[Job(s)] # ProblemOf[Job(o)]
      BY <1>1, <3>1, <3>2 DEF StderrIsOwn
    <3> QED  BY <1>2, <3>3 DEF Breaks
  <2> QED  BY <1>2, <2>1, <2>2 DEF Breaks
<1>3. CASE Starts(s) \/ Dispatches(s) \/ FailsEarly(s) \/ Emits(s) \/ IsKilled(s) \/ Advances(s)
  BY <1>3 DEF Starts, Dispatches, FailsEarly, Emits, IsKilled, Advances
<1>4. CASE Prepares(s) \/ Unlinks(s) \/ Clones(s) \/ Limits(s)
  BY <1>4 DEF Prepares, Unlinks, Clones, Limits
<1>5. CASE Reaps(s) \/ GivesUp(s) \/ Destroys(s) \/ Reaped(s)
  BY <1>5 DEF Reaps, GivesUp, Destroys, Reaped
<1>6. CASE SetsUp(s) \/ Compiles(s) \/ Plays(s)
  BY <1>6 DEF SetsUp, Compiles, Plays
<1> QED  BY <1>2, <1>3, <1>4, <1>5, <1>6, Zenon DEF Shape

\* QuietOK without the file of standard error.
Quiet(t, e, c, compiling) ==
    /\ c.st = "zombie" => c.cause = "self"
    /\ c.st = "zombie" /\ c.kind = "compile" /\ c.code # 0 => t.job \notin compiling
    /\ e.pc \in {"destroy", "reap"} => c.st = "gone"
    /\ e.pc # "killed"
    /\ e.pc \in {"destroy", "reap", "guard", "emit", "exited"} => e.status # "none"
    /\ t.phase = "compile" => e.status # "System Error"
    /\ e.pc = "exited" => e.line # NoLine
    /\ Earned(e.status, c, t.job, compiling) /\ Earned(t.verdict, c, t.job, compiling)

LEMMA NothingEarned ==
    ASSUME NEW c, NEW j, NEW compiling, NEW status \in {"none", "Compiled", "Cleaned", "Time Limit Exceeded"}
    PROVE  Earned(status, c, j, compiling)
BY DEF Earned

LEMMA QuietKept ==
    ASSUME ShareInv, BlockedInv', NEW s \in Slots, Frame(s), Shape(s),
           ~task[s].shared, s \notin hit', QuietOK(task[s], engine[s], child[s])
    PROVE  Quiet(task'[s], engine'[s], child'[s], valid)
<1> DEFINE t == task[s]
           e == engine[s]
           c == child[s]
<1>1. /\ EngineInv /\ Live(t) /\ task'[s].job = t.job /\ valid' = valid
      /\ task'[s].shared = t.shared
      /\ Control(t, e) /\ ChildOK(t, e, c) /\ Quiet(t, e, c, valid)
  BY BusyBy DEF ShareInv, Frame, QuietOK, Quiet
<1>2. DirOK(t, e, c, dir[Job(s)], s \in hit) /\ (dir[Job(s)].exe => t.job \in valid)
  BY <1>1, InvTyped DEF ShareInv, DirInv, Typed, Calls, Job
<1>3. t.verdict = "none" \/ t.phase = "cleanup"
  BY <1>1 DEF Control, Live
<1>4. CASE Starts(s)
  BY <1>1, <1>4, NothingEarned DEF Starts, Quiet
<1>5. CASE Dispatches(s)
  BY <1>1, <1>5 DEF Dispatches, Quiet, Moved
<1>6. CASE FailsEarly(s) \/ IsKilled(s)
  BY <1>6 DEF FailsEarly, IsKilled, Struck
<1>7. CASE Emits(s)
  BY <1>1, <1>7, NobodyBy DEF Emits, Quiet
<1>8. CASE Advances(s)
  <2>1. e.pc = "exited" /\ e.line # NoLine /\ e.status # "none"
    BY <1>1, <1>8 DEF Advances, Quiet
  <2>2. /\ e.line.form = (IF t.phase = "run" THEN "run" ELSE "plain")
        /\ e.line.status = e.status /\ e.line.job = t.job /\ e.line.attempt = t.attempt
    BY <1>1, <2>1 DEF Control
  <2>3. t.phase = "run" => Accepts(s, e.line)
    BY <2>2 DEF Accepts, Job
  <2>4. t.phase = "compile" => e.status \in {"Compiled", "Compile Error"}
    BY <1>1, <2>1 DEF Control, Quiet
  <2>5. /\ engine'[s] = NoEngine /\ child' = child
        /\ task'[s].verdict \in {"none", e.status} \/ task'[s].verdict = t.verdict
    BY <1>8, <2>2, <2>3, <2>4 DEF Advances
  <2>6. Earned(task'[s].verdict, c, t.job, valid)
    BY <1>1, <2>5, NothingEarned DEF Quiet
  <2> QED  BY <1>1, <2>1, <2>5, <2>6, NobodyBy, NothingEarned DEF Quiet, ChildOK, Watching
<1>9. CASE Prepares(s)
  BY <1>1, <1>9 DEF Prepares, Quiet, Moved, Struck
<1>10. CASE Unlinks(s)
  <2>1. /\ task' = task /\ child' = child /\ engine'[s].pc = "emit"
        /\ engine'[s].status \in {e.status, "Cleaned"} /\ (t.phase = "compile" => engine'[s].status = e.status)
    BY <1>1, <1>10 DEF Unlinks, Moved, Control
  <2>2. c.st # "zombie" /\ (engine'[s].status = e.status => e.status # "none")
    BY <1>1, <1>10 DEF Unlinks, Moved, Quiet, ChildOK, Watching
  <2>3. Earned(engine'[s].status, c, t.job, valid)
    BY <1>1, <2>1, NothingEarned DEF Quiet
  <2> QED  BY <1>1, <2>1, <2>2, <2>3 DEF Quiet
<1>11. CASE Clones(s)
  <2>1. /\ child'[s].st = "setup" /\ task' = task /\ engine'[s].pc \in {"poll", "create"}
        /\ engine'[s].status = "none"
    BY <1>1, <1>11 DEF Clones, Struck, Moved, Control
  <2>2. t.verdict = "none"
    BY <1>1, <1>3, <1>11 DEF Clones, Control
  <2> QED  BY <2>1, <2>2 DEF Quiet, Earned
<1>12. CASE Limits(s)
  BY <1>1, <1>12 DEF Limits, Quiet, Moved
<1>13. CASE Reaps(s)
  <2>1. /\ task' = task /\ child'[s].st = "gone" /\ child'[s].cause = "self"
        /\ child'[s].code = c.code /\ c.kind = t.phase
    BY <1>1, <1>13 DEF Reaps, SameEnd, Quiet, ChildOK
  <2>2. t.verdict = "none"
    BY <1>1, <1>3, <1>13 DEF Reaps, Control
  <2>3. CASE t.phase = "run"
    <3>1. t.job \in valid
      BY <1>2, <2>3 DEF DirOK
    <3>2. ProblemOf[t.job] \notin errfile
      BY <1>13, <2>3 DEF QuietOK, Reaps
    <3>3. /\ engine'[s].pc = "destroy"
          /\ \/ engine'[s].status = "Finished" /\ c.code = 0
             \/ engine'[s].status = "Runtime Error" /\ c.code \in {-1, 127} \cup 1..119
             \/ engine'[s].status = "System Error" /\ c.code \in 120..255 \ {127}
      BY <1>13, <2>3, <3>2 DEF Reaps, Problem, Job
    <3>4. Earned(engine'[s].status, child'[s], t.job, valid)
      BY <2>1, <3>1, <3>3 DEF Earned, Own
    <3>5. Earned(t.verdict, child'[s], t.job, valid)
      BY <2>2, NothingEarned
    <3> QED  BY <2>1, <2>3, <3>3, <3>4, <3>5 DEF Quiet
  <2>4. CASE t.phase = "compile"
    <3>1. /\ engine'[s].pc = "reap"
          /\ \/ engine'[s].status = "Compiled"
             \/ engine'[s].status = "Compile Error" /\ c.code # 0
      BY <1>13, <2>4 DEF Reaps
    <3>2. engine'[s].status = "Compile Error" => t.job \notin valid
      BY <1>1, <1>13, <2>1, <2>4, <3>1 DEF Reaps, Quiet
    <3> QED  BY <1>1, <2>1, <2>2, <2>4, <3>1, <3>2 DEF Quiet, Earned
  <2> QED  BY <1>13, <2>3, <2>4 DEF Reaps
<1>14. CASE GivesUp(s)
  <2>1. /\ task' = task /\ child'[s].st = "gone" /\ engine'[s].pc = "destroy"
        /\ engine'[s].status = "Time Limit Exceeded" /\ t.phase = "run"
    BY <1>14 DEF GivesUp, Struck, Moved
  <2> QED  BY <1>3, <2>1 DEF Quiet, Earned
<1>15. CASE Destroys(s)
  <2>1. child' = child /\ c.st = "gone"
    BY <1>1, <1>15 DEF Destroys, Quiet
  <2> QED  BY <1>1, <1>15, <2>1 DEF Destroys, Quiet, Moved
<1>16. CASE Reaped(s)
  <2>1. child' = child /\ c.st = "gone"
    BY <1>1, <1>16 DEF Reaped, Quiet
  <2> QED  BY <1>1, <1>16, <2>1 DEF Reaped, Quiet, Moved
<1>17. CASE SetsUp(s) \/ Compiles(s) \/ Plays(s)
  <2>1. /\ c.st \in {"setup", "program"} /\ task' = task /\ engine' = engine
        /\ child'[s].kind = c.kind
    BY <1>17 DEF SetsUp, Compiles, Plays, SameKid
  <2>2. /\ e.pc \in Watching \ {"destroy", "reap"} /\ e.status = "none" /\ t.verdict = "none"
        /\ c.kind = t.phase
    BY <1>1, <1>3, <2>1 DEF ChildOK, Watching, Quiet, Control
  <2>3. child'[s].st = "zombie" => child'[s].cause = "self"
    BY <1>17 DEF SetsUp, Compiles, Plays
  <2>4. child'[s].st = "zombie" /\ c.kind = "compile" /\ child'[s].code # 0 => t.job \notin valid
    <3>1. CASE Compiles(s)
      <4>1. e.pc = "poll" /\ t.phase = "compile" /\ c.job = Job(s)
        BY <1>1, <2>1, <2>2, <3>1 DEF Compiles, Watching, Control, ChildOK, Job
      <4>2. ~Disturbed(s) /\ dir[Job(s)].mode = "700"
        BY <1>2, <2>1, <4>1 DEF DirOK, Disturbed
      <4> QED  BY <3>1, <4>2 DEF Compiles, Job
    <3> QED  BY <1>17, <3>1 DEF SetsUp, Plays
  <2> QED  BY <1>1, <2>1, <2>2, <2>3, <2>4 DEF Quiet, Earned, Watching
<1>18. CASE Breaks(s)
  BY <1>1, <1>18 DEF Breaks, Struck, BlockedInv
<1> QED  BY <1>4, <1>5, <1>6, <1>7, <1>8, <1>9, <1>10, <1>11, <1>12, <1>13, <1>14, <1>15, <1>16, <1>17,
            <1>18, Zenon DEF Shape

(* A failure met by a call is not forgotten before its end. *)
LEMMA StruckBy ==
    ASSUME NEW s \in Slots, Shape(s), s \in hit
    PROVE  s \in hit'
<1>1. Calm(s) \/ Struck(s) => s \in hit'
  BY DEF Calm, Struck
<1>2. CASE Starts(s) \/ Dispatches(s) \/ FailsEarly(s) \/ Emits(s) \/ IsKilled(s) \/ Advances(s)
  BY <1>1, <1>2 DEF Starts, Dispatches, FailsEarly, Emits, IsKilled, Advances
<1>3. CASE Prepares(s) \/ Unlinks(s) \/ Clones(s) \/ Limits(s)
  BY <1>1, <1>3 DEF Prepares, Unlinks, Clones, Limits
<1>4. CASE Reaps(s) \/ GivesUp(s) \/ Destroys(s) \/ Reaped(s)
  BY <1>1, <1>4 DEF Reaps, GivesUp, Destroys, Reaped
<1>5. CASE SetsUp(s) \/ Breaks(s) \/ Compiles(s) \/ Plays(s)
  BY <1>1, <1>5 DEF SetsUp, Breaks, Compiles, Plays
<1> QED  BY <1>2, <1>3, <1>4, <1>5, Zenon DEF Shape

\* While a program is watched over, its file of standard error has no mark.
Clean(t, e, marked) ==
    t.phase = "run" /\ e.pc \in {"create", "limits", "join", "poll"} => ProblemOf[t.job] \notin marked

LEMMA QuietBy ==
    ASSUME NEW s \in Slots
    PROVE  QuietOK(task[s], engine[s], child[s]) <=>
             /\ Quiet(task[s], engine[s], child[s], valid) /\ Clean(task[s], engine[s], errfile)
BY Zenon DEF QuietOK, Quiet, Clean

LEMMA CleanKept ==
    ASSUME ShareInv, BlockedInv', StderrIsOwn, NEW s \in Slots, Frame(s), Shape(s),
           ~task[s].shared, s \notin hit', Clean(task[s], engine[s], errfile)
    PROVE  Clean(task'[s], engine'[s], errfile')
<1>1. EngineInv /\ Live(task[s]) /\ task'[s].job = task[s].job
  BY BusyBy DEF ShareInv
<1>2. CASE Clones(s)
  BY <1>2 DEF Clones, Clean, Problem, Job
<1>3. CASE Limits(s)
  BY <1>1, <1>3, BusyBy DEF Limits, Clean, Control
<1>4. CASE SetsUp(s) \/ Breaks(s) \/ Compiles(s) \/ Plays(s)
  <2>1. task' = task /\ engine' = engine
    BY <1>4 DEF SetsUp, Breaks, Compiles, Plays
  <2>2. ProblemOf[Job(s)] \notin errfile => ProblemOf[Job(s)] \notin errfile'
    BY <1>1, MarkBy
  <2> QED  BY <2>1, <2>2 DEF Clean, Job
<1>5. CASE Starts(s) \/ Dispatches(s) \/ FailsEarly(s) \/ Emits(s) \/ IsKilled(s) \/ Advances(s)
  BY <1>5, NobodyBy DEF Starts, Dispatches, FailsEarly, Emits, IsKilled, Advances, Moved, Clean
<1>6. CASE Prepares(s) \/ Unlinks(s)
  BY <1>6 DEF Prepares, Unlinks, Moved, Clean
<1>7. CASE Reaps(s) \/ GivesUp(s) \/ Destroys(s) \/ Reaped(s)
  BY <1>7 DEF Reaps, GivesUp, Destroys, Reaped, Moved, Clean
<1> QED  BY <1>2, <1>3, <1>4, <1>5, <1>6, <1>7, Zenon DEF Shape

LEMMA VerdictKept ==
    ASSUME ShareInv, BlockedInv', StderrIsOwn, VerdictInv, [Next]_vars
    PROVE  VerdictInv'
<1>1. ASSUME NEW o \in Slots PROVE
        QuietOK(task[o], engine[o], child[o])' <=>
          /\ Quiet(task'[o], engine'[o], child'[o], valid') /\ Clean(task'[o], engine'[o], errfile')
  BY Zenon DEF QuietOK, Quiet, Clean
<1>2. ASSUME NEW s \in Slots, Frame(s), Shape(s), NEW o \in Slots, ~task'[o].shared, o \notin hit'
      PROVE  QuietOK(task[o], engine[o], child[o])'
  <2>1. EngineInv /\ valid' = valid /\ task'[s].shared = task[s].shared /\ Live(task[s])
    BY <1>2, BusyBy DEF ShareInv, Frame
  <2>2. CASE o = s
    <3>1. s \notin hit
      BY <1>2, <2>2, StruckBy
    <3>2. QuietOK(task[s], engine[s], child[s])
      BY <1>2, <2>1, <2>2, <3>1 DEF VerdictInv
    <3>3. Clean(task[s], engine[s], errfile)
      BY <3>2, QuietBy
    <3>4. Quiet(task'[s], engine'[s], child'[s], valid)
      BY <1>2, <2>1, <2>2, <3>2, QuietKept
    <3>5. Clean(task'[s], engine'[s], errfile')
      BY <1>2, <2>1, <2>2, <3>3, CleanKept
    <3> QED  BY <1>1, <2>1, <2>2, <3>4, <3>5
  <2>3. CASE o # s
    <3>1. /\ task'[o] = task[o] /\ engine'[o] = engine[o] /\ child'[o] = child[o] /\ o \notin hit
      BY <1>2, <2>3 DEF Frame
    <3>2. Quiet(task[o], engine[o], child[o], valid) /\ Clean(task[o], engine[o], errfile)
      BY <1>2, <3>1, QuietBy DEF VerdictInv
    <3>3. Clean(task[o], engine[o], errfile')
      BY <1>2, <2>3, <3>1, <3>2, MarkBy DEF Clean, Live, Job
    <3> QED  BY <1>1, <2>1, <3>1, <3>2, <3>3
  <2> QED  BY <2>2, <2>3
<1>3. ASSUME NEW s \in Slots, NEW j \in Jobs, Begin(s, j),
             NEW o \in Slots, ~task'[o].shared, o \notin hit'
      PROVE  QuietOK(task[o], engine[o], child[o])'
  <2>1. Begins(s, j) /\ EngineInv
    BY <1>3, BeginShape DEF ShareInv
  <2>2. CASE o = s
    <3>1. engine[s] = NoEngine
      BY <2>1, InvTyped, ControlBy DEF Begins, Live, CallOK, Control
    <3>2. task'[s].verdict = "none" /\ child'[s] = NoChild /\ engine'[s] = NoEngine
      BY <2>1, <3>1 DEF Begins
    <3> QED  BY <1>1, <2>2, <3>2, NobodyBy, NothingEarned DEF Quiet, Clean
  <2>3. CASE o # s
    <3>1. /\ task'[o].phase = task[o].phase /\ task'[o].job = task[o].job
          /\ task'[o].verdict = task[o].verdict /\ ~task[o].shared /\ o \notin hit
          /\ child'[o] = child[o] /\ engine' = engine /\ errfile' = errfile /\ valid' = valid
      BY <1>3, <2>1, <2>3 DEF Begins
    <3>2. Quiet(task[o], engine[o], child[o], valid) /\ Clean(task[o], engine[o], errfile)
      BY <3>1, QuietBy DEF VerdictInv
    <3> QED  BY <1>1, <3>1, <3>2 DEF Quiet, Clean
  <2> QED  BY <2>2, <2>3
<1>4. CASE UNCHANGED vars
  <2>1. UNCHANGED <<task, engine, child, hit, errfile, valid>>
    BY <1>4 DEF vars, childVars, engineVars
  <2>2. ASSUME NEW o \in Slots, ~task'[o].shared, o \notin hit'
        PROVE  QuietOK(task[o], engine[o], child[o])'
    <3>1. Quiet(task[o], engine[o], child[o], valid) /\ Clean(task[o], engine[o], errfile)
      BY <2>1, <2>2, QuietBy DEF VerdictInv
    <3> QED  BY <1>1, <2>1, <3>1
  <2> QED  BY <2>2 DEF VerdictInv
<1>5. CASE Next
  BY <1>2, <1>3, <1>5, NextShape DEF ShareInv, VerdictInv
<1> QED  BY <1>4, <1>5

(* The verdict of a job is that of its own program: failures met by other  *)
(* calls, or by earlier attempts of the job, do not show in it.            *)
THEOREM VerdictOwned ==
    ASSUME CompileCpuLimit <= CompileRealLimit, StderrIsOwn
    PROVE  Spec => []VerdictIsOwn
<1>1. ShareInv /\ BlockedInv /\ [Next]_vars => BlockedInv'
  BY BlockedKept
<1>2. ShareInv /\ BlockedInv' /\ VerdictInv /\ [Next]_vars => VerdictInv'
  BY VerdictKept
<1>3. Init => VerdictInv
  <2> SUFFICES ASSUME Init, NEW s \in Slots PROVE QuietOK(task[s], engine[s], child[s])
    BY DEF VerdictInv
  <2>1. task[s] = NoTask /\ engine[s] = NoEngine /\ child[s] = NoChild
    BY DEF Init, ChildInit
  <2> QED  BY <2>1, NobodyBy, NothingEarned, QuietBy DEF Quiet, Clean
<1>4. VerdictInv => VerdictIsOwn
  <2> SUFFICES ASSUME VerdictInv, NEW s \in Slots, ~task[s].shared, s \notin hit
               PROVE  /\ task[s].verdict = "Compile Error" => Job(s) \notin valid
                      /\ task[s].verdict = "Finished" => Job(s) \in valid /\ Own(child[s], {0})
                      /\ task[s].verdict = "Runtime Error" => Own(child[s], {-1, 127} \cup 1..119)
                      /\ task[s].verdict = "System Error" => Own(child[s], 120..255 \ {127})
    BY DEF VerdictIsOwn, Own
  <2>1. Earned(task[s].verdict, child[s], task[s].job, valid)
    BY DEF VerdictInv, QuietOK
  <2> QED  BY <2>1 DEF Earned, Job
<1> QED  BY <1>1, <1>2, <1>3, <1>4, BlockedInit, ShareInvHolds, PTL DEF Spec
=============================================================================
