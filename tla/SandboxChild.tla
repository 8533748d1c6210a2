---------------------------- MODULE SandboxChild ----------------------------
(***************************************************************************)
(* The process that Sandbox::Compile and Sandbox::Run clone: it builds a   *)
(* root file system out of the job's directory, limits itself, gives up    *)
(* its privileges and becomes the compiler or the program.  Every step is  *)
(* a system call the kernel may refuse, and a refused one ends the process *)
(* with an exit code of its own.  What outlives the process, the job's     *)
(* directory and the mounts of the host, is kept beside it, because the    *)
(* next process of the job starts from there.                              *)
(***************************************************************************)
EXTENDS Integers, Sequences, Faults

CONSTANTS
    Slots,              \* the calls of judge_engine a worker makes at once
    Jobs,               \* a job's id names its directory
    CompileCpuLimit,    \* compile.cpu_limit_s
    CompileRealLimit,   \* compile.real_time_limit_s
    SeccompModes        \* values of JUDGE_RUN_SECCOMP_MODE, a subset of {"on", "off"}

ASSUME ChildAssumption ==
    /\ Slots # {} /\ Jobs # {}
    /\ CompileCpuLimit \in Nat /\ CompileRealLimit \in Nat
    /\ SeccompModes \subseteq {"on", "off"}

VARIABLES
    child,       \* child[s]: the process cloned in slot s, its steps and its end
    dir,         \* dir[j]: the directory of job j below workspace_root
    hostMounts,  \* mounts made by children that the host sees too
    seccomp,     \* the value of JUDGE_RUN_SECCOMP_MODE
    hit          \* slots whose current call met a failure of the environment

childVars == <<child, dir, hostMounts, seccomp, hit>>

NoChild == [kind |-> "run", job |-> CHOOSE j \in Jobs : TRUE, gen |-> 0, st |-> "none", pc |-> 1,
            done |-> {}, code |-> 0, cause |-> "none"]

\* gen counts the directories there were before this one; mode is that of a
\* new directory, of one handed to run_uid, or of one locked by chmod.
NoDir == [exists |-> FALSE, gen |-> 0, mode |-> "new", made |-> {}, exe |-> FALSE,
          tampered |-> FALSE]

ChildInit ==
    /\ child = [s \in Slots |-> NoChild]
    /\ dir = [j \in Jobs |-> NoDir]
    /\ hostMounts = {}
    /\ seccomp \in SeccompModes
    /\ hit = {}

\* What is left of a process that has ended: how it ended, until it is reaped.
Ended(s, st, code, cause) ==
    [child EXCEPT ![s] = [@ EXCEPT !.st = st, !.pc = 1, !.done = {}, !.code = code, !.cause = cause]]

---------------------------------------------------------------------------
(* The steps, in the order of the code.  One directory or file of the      *)
(* configured lists, "lib", stands for all of them.                        *)

SetupRootfsBindFirst ==
    <<"bind_self", "private", "find_lib", "mkdir_lib", "bind_lib", "lib_ro",
      "mkdir_old", "pivot", "chdir_new", "umount_old", "rmdir_old">>

SetupRootfs ==
    <<"private", "bind_self", "find_lib", "mkdir_lib", "bind_lib", "lib_ro",
      "mkdir_old", "pivot", "chdir_new", "umount_old", "rmdir_old">>

RunChildFnWritableRoot ==
    <<"dup2", "close_fds">> \o SetupRootfs \o
    <<"mkdir_tmp", "mkdir_proc", "chmod_root", "tmpfs", "proc", "proc_ro",
      "rlimit_cpu", "rlimit_as", "rlimit_stack", "rlimit_nproc", "rlimit_fsize",
      "setgroups", "chdir", "setgid", "setuid", "no_new_privs", "seccomp", "exec">>

RunChildFn ==
    <<"dup2", "close_fds">> \o SetupRootfs \o
    <<"mkdir_tmp", "mkdir_proc", "chmod_root", "root_ro", "tmpfs", "proc", "proc_ro",
      "rlimit_cpu", "rlimit_as", "rlimit_stack", "rlimit_nproc", "rlimit_fsize",
      "setgroups", "chdir", "setgid", "setuid", "no_new_privs", "seccomp", "exec">>

CompileChildFn ==
    <<"close_fds", "open_log", "dup2_log">> \o SetupRootfs \o
    <<"mkdir_tmp", "tmpfs", "rlimit_cpu", "rlimit_as", "rlimit_fsize",
      "setgroups", "setgid", "setuid", "no_new_privs", "seccomp", "exec">>

StepOf(s) ==
    LET c == child[s] IN IF c.kind = "run" THEN RunChildFn[c.pc] ELSE CompileChildFn[c.pc]

\* The exit code of a step that fails; the steps that are not here cannot
\* fail, or their failure is ignored.
SandboxExitCode ==
    [dup2 |-> 101, open_log |-> 120, dup2_log |-> 121,
     private |-> 190, bind_self |-> 191, find_lib |-> 192, mkdir_lib |-> 198,
     bind_lib |-> 192, lib_ro |-> 193, mkdir_old |-> 198, pivot |-> 194, chdir_new |-> 195,
     umount_old |-> 196, mkdir_tmp |-> 200, mkdir_proc |-> 197, chmod_root |-> 128,
     root_ro |-> 193, tmpfs |-> 200, proc |-> 197, proc_ro |-> 197,
     rlimit_cpu |-> 141, rlimit_as |-> 142, rlimit_stack |-> 143, rlimit_nproc |-> 144,
     rlimit_fsize |-> 145, setgroups |-> 129, chdir |-> 128, setgid |-> 129, setuid |-> 130,
     no_new_privs |-> 199, seccomp |-> 199, exec |-> 127]

ExitCodeByKind(s) == SandboxExitCode[StepOf(s)] + (IF child[s].kind = "compile" THEN 100 ELSE 0)

ExitCode(s) ==
    IF child[s].kind = "compile" /\ StepOf(s) = "mkdir_tmp" THEN 198 ELSE SandboxExitCode[StepOf(s)]

---------------------------------------------------------------------------
(* What the kernel asks of a step, and what the step leaves behind.        *)

Makes == [mkdir_lib |-> "lib", mkdir_old |-> "old_root", mkdir_tmp |-> "tmp", mkdir_proc |-> "proc"]

Privileged ==
    {"private", "bind_self", "bind_lib", "lib_ro", "pivot", "umount_old", "root_ro", "tmpfs",
     "proc", "proc_ro", "rlimit_stack", "setgroups", "setgid", "setuid"}

\* setuid takes the capabilities away, but for the one no_new_privs replaces.
Permitted(s) ==
    LET c == child[s]
        step == StepOf(s)
    IN  /\ step \in Privileged => "setuid" \notin c.done
        /\ step = "seccomp" => "setuid" \notin c.done \/ "no_new_privs" \in c.done

\* A made directory may already be there, which mkdir reports first (EEXIST).
MkdirMustBeNew(s) ==
    StepOf(s) \in DOMAIN Makes =>
        /\ Makes[StepOf(s)] \notin dir[child[s].job].made
        /\ "root_ro" \notin child[s].done

Mkdir(s) ==
    StepOf(s) \in DOMAIN Makes =>
        Makes[StepOf(s)] \in dir[child[s].job].made \/ "root_ro" \notin child[s].done

Possible(s) ==
    LET c == child[s]
        d == dir[c.job]
        step == StepOf(s)
    IN  /\ Permitted(s)
        /\ Mkdir(s)
        /\ step = "chmod_root" => "root_ro" \notin c.done
        /\ step = "pivot" => {"private", "bind_self"} \subseteq c.done /\ "old_root" \in d.made
        /\ step = "tmpfs" => "tmp" \in d.made
        /\ step = "proc" => "proc" \in d.made
        /\ step = "rlimit_cpu" /\ c.kind = "compile" => CompileCpuLimit <= CompileRealLimit
        /\ step = "exec" => "bind_lib" \in c.done /\ (c.kind = "run" => d.exe)

\* The directory the process was started in has been removed since.
Disturbed(s) == dir[child[s].job].gen # child[s].gen

Leaves(step, d) ==
    CASE step \in DOMAIN Makes -> [d EXCEPT !.made = @ \cup {Makes[step]}]
      [] step = "chmod_root" -> [d EXCEPT !.mode = "555"]
      [] step = "rmdir_old" -> [d EXCEPT !.made = @ \ {"old_root"}]
      [] OTHER -> d

\* Mounts propagate to the host until the tree is made private.
Propagates(s) ==
    IF StepOf(s) \in {"bind_self", "bind_lib", "tmpfs", "proc"} /\ "private" \notin child[s].done
    THEN {StepOf(s)} ELSE {}

ShouldEnableRunSeccomp == seccomp # "off"

\* The step is taken; the last one turns the process into the program.
DoStep(s) ==
    /\ Possible(s)
    /\ child' = [child EXCEPT ![s].st = IF StepOf(s) = "exec" THEN "program" ELSE @,
                              ![s].pc = IF StepOf(s) = "exec" THEN @ ELSE @ + 1,
                              ![s].done = IF StepOf(s) = "seccomp" /\ child[s].kind = "run"
                                             /\ ~ShouldEnableRunSeccomp
                                          THEN @ ELSE @ \cup {StepOf(s)}]
    /\ dir' = IF Disturbed(s) THEN dir
              ELSE [dir EXCEPT ![child[s].job] = Leaves(StepOf(s), @)]
    /\ hostMounts' = hostMounts \cup Propagates(s)
    /\ NoFault
    /\ UNCHANGED <<seccomp, hit>>

\* _exit with the code of the step.
ExitSetupError(s, cause) ==
    /\ StepOf(s) \in DOMAIN SandboxExitCode
    /\ child' = Ended(s, "zombie", ExitCode(s), cause)
    /\ UNCHANGED <<dir, hostMounts, seccomp>>

StepFailsGroupsIgnored(s) ==
    /\ Fault("setup")
    /\ hit' = hit \cup {s}
    /\ IF StepOf(s) = "setgroups"
       THEN child' = [child EXCEPT ![s].pc = @ + 1] /\ UNCHANGED <<dir, hostMounts, seccomp>>
       ELSE ExitSetupError(s, "failed")

\* The kernel refuses a step for a reason of its own.
StepFails(s) ==
    /\ Fault("setup")
    /\ hit' = hit \cup {s}
    /\ ExitSetupError(s, "failed")

\* The step cannot be done in the state the process and the directory are in.
StepBlocked(s) ==
    /\ ~Possible(s) \/ Disturbed(s)
    /\ NoFault
    /\ ExitSetupError(s, "blocked")
    /\ UNCHANGED hit

Setup(s) == child[s].st = "setup" /\ (DoStep(s) \/ StepFails(s) \/ StepBlocked(s))

---------------------------------------------------------------------------
(* The compiler and the user's program, once they run.                     *)

\* The calls of interest the filters let through: that of a program is a
\* list of what is allowed, that of the compiler of what is not.
LoadSeccompRules == {"exit", "open_read"}

LoadCompileSeccompRules == {"exit", "open_read", "open_write", "chmod", "fork"}

Allowed(s) ==
    IF "seccomp" \notin child[s].done THEN {"exit", "open_read", "open_write", "chmod", "fork"}
    ELSE IF child[s].kind = "run" THEN LoadSeccompRules ELSE LoadCompileSeccompRules

Ends(s, code, cause) == child' = Ended(s, "zombie", code, cause)

\* g++ needs the directory it writes to; valid says if the source compiles.
Compiler(s, valid) ==
    /\ child[s].st = "program" /\ child[s].kind = "compile"
    /\ LET d == dir[child[s].job]
           writable == ~Disturbed(s) /\ d.mode = "700" /\ "open_write" \in Allowed(s)
       IN  IF valid /\ writable
           THEN Ends(s, 0, "self") /\ dir' = [dir EXCEPT ![child[s].job].exe = TRUE]
           ELSE Ends(s, 1, "self") /\ UNCHANGED dir
    /\ NoFault
    /\ UNCHANGED <<hostMounts, seccomp, hit>>

User(s, code) ==
    /\ child[s].st = "program" /\ child[s].kind = "run"
    /\ Ends(s, code, "self")
    /\ NoFault
    /\ UNCHANGED <<dir, hostMounts, seccomp, hit>>

\* A program that tries to unlock its directory and to write there: a call
\* the filter refuses kills it (code -1 stands for a signal), a read-only
\* file system and the mode refuse with an error.
UserWrites(s) ==
    /\ child[s].st = "program" /\ child[s].kind = "run"
    /\ IF {"chmod", "open_write"} \subseteq Allowed(s)
       THEN /\ "root_ro" \notin child[s].done /\ ~Disturbed(s)
            /\ dir' = [dir EXCEPT ![child[s].job].tampered = TRUE]
            /\ UNCHANGED child
       ELSE Ends(s, -1, "self") /\ UNCHANGED dir
    /\ NoFault
    /\ UNCHANGED <<hostMounts, seccomp, hit>>

---------------------------------------------------------------------------
ChildTypeOK ==
    /\ child \in [Slots -> [kind : {"compile", "run"}, job : Jobs, gen : Nat, pc : Nat \ {0},
                            st : {"none", "setup", "program", "zombie", "gone"},
                            done : SUBSET (DOMAIN SandboxExitCode \cup {"close_fds", "rmdir_old"}),
                            code : -1..255,
                            cause : {"none", "self", "failed", "blocked", "killed"}]]
    /\ dir \in [Jobs -> [exists : BOOLEAN, gen : Nat, mode : {"new", "700", "555"},
                         made : SUBSET {"lib", "old_root", "tmp", "proc"}, exe : BOOLEAN,
                         tampered : BOOLEAN]]
    /\ hostMounts \subseteq {"bind_self", "bind_lib", "tmpfs", "proc"}
    /\ seccomp \in SeccompModes
    /\ hit \subseteq Slots
=============================================================================
