---------------------------- MODULE CgroupManager ----------------------------
(***************************************************************************)
(* The control group Sandbox::Run puts around a program: run_<pid> below   *)
(* <mount>/deep_oj.  Every operation is a write to a file of the cgroup    *)
(* file system.  WriteToFile looks at the stream before it is flushed, so  *)
(* it notices a file that cannot be opened ("cgroup_open") but reports a   *)
(* write the kernel refuses ("cgroup_write") as done.                      *)
(***************************************************************************)
EXTENDS SandboxChild

CONSTANT Cgroup2Roots    \* the mounts of cgroup v2 with controllers, among the candidates

ASSUME CgroupAssumption == Cgroup2Roots \subseteq {"/sys/fs/cgroup/unified", "/sys/fs/cgroup"}

VARIABLES
    group,       \* group[s]: the cgroup of slot s and the object that stands for it
    delegated    \* the controllers are enabled in deep_oj/cgroup.subtree_control

cgroupVars == <<group, delegated>>

\* The unified hierarchy first; "" without one, and then Run makes no cgroup.
GetCgroup2MountRoot ==
    CASE "/sys/fs/cgroup/unified" \in Cgroup2Roots -> "/sys/fs/cgroup/unified"
      [] Cgroup2Roots = {"/sys/fs/cgroup"} -> "/sys/fs/cgroup"
      [] OTHER -> ""

LimitFiles == {"pids.max", "memory.max", "cpu.max", "io.max"}

\* held: the kernel has refused to remove the directory.
NoGroup == [exists |-> FALSE, created |-> FALSE, limits |-> {}, member |-> FALSE, held |-> FALSE]

CgroupInit == group = [s \in Slots |-> NoGroup] /\ delegated = FALSE

\* WriteToFile returns true although the kernel refused the write.
WriteRefused(s) == Fault("cgroup_write") /\ hit' = hit \cup {s}

\* EnsureParentReady and the directory.  A refused write to subtree_control
\* is not noticed.
Create(s) ==
    /\ \/ /\ delegated' = TRUE
          /\ group' = [group EXCEPT ![s] = [NoGroup EXCEPT !.exists = TRUE, !.created = TRUE]]
          /\ NoFault /\ UNCHANGED hit
       \/ /\ Fault("cgroup_open") /\ hit' = hit \cup {s}
          /\ UNCHANGED <<group, delegated>>
       \/ /\ WriteRefused(s)
          /\ group' = [group EXCEPT ![s] = [NoGroup EXCEPT !.exists = TRUE, !.created = TRUE]]
          /\ UNCHANGED delegated
    /\ UNCHANGED <<child, dir, hostMounts, seccomp>>

\* SetPidsLimit, SetMemoryLimit, SetCPULimit and SetIOLimit: their files are
\* there only if the controllers are enabled, and nobody looks at the results.
SetLimits(s) ==
    /\ group[s].created
    /\ \/ NoFault /\ UNCHANGED hit
          /\ group' = [group EXCEPT ![s].limits = IF delegated THEN LimitFiles ELSE {}]
       \/ \E f \in LimitFiles :
            /\ WriteRefused(s)
            /\ group' = [group EXCEPT ![s].limits = IF delegated THEN LimitFiles \ {f} ELSE {}]
    /\ UNCHANGED <<delegated, child, dir, hostMounts, seccomp>>

AddProcess(s) ==
    /\ group[s].created
    /\ \/ NoFault /\ UNCHANGED hit
          /\ group' = [group EXCEPT ![s].member = child[s].st \in {"setup", "program"}]
       \/ WriteRefused(s) /\ UNCHANGED group
    /\ UNCHANGED <<delegated, child, dir, hostMounts, seccomp>>

\* SIGKILL to the first process that cgroup.procs lists, which is all there is:
\* ReadFromFile reads one line, and a child makes no further processes here.
KillAllProcesses(s) ==
    child' = IF group[s].member /\ child[s].st \in {"setup", "program"}
             THEN Ended(s, "zombie", -1, "killed")
             ELSE child

DestroyNoKill(s) ==
    /\ group' = IF group[s].created /\ ~(group[s].member /\ child[s].st \in {"setup", "program"})
                THEN [group EXCEPT ![s] = NoGroup] ELSE [group EXCEPT ![s].created = FALSE]
    /\ NoFault
    /\ UNCHANGED <<delegated, child, dir, hostMounts, seccomp, hit>>

\* The destructor: a cgroup that holds no process but zombies can be removed.
\* When that fails twice ("rmdir") nobody is told, and the directory stays.
Destroy(s) ==
    /\ KillAllProcesses(s)
    /\ \/ /\ group' = IF group[s].created THEN [group EXCEPT ![s] = NoGroup] ELSE group
          /\ NoFault /\ UNCHANGED hit
       \/ /\ group[s].created
          /\ group' = [group EXCEPT ![s].created = FALSE, ![s].held = TRUE]
          /\ Fault("rmdir") /\ hit' = hit \cup {s}
    /\ UNCHANGED <<delegated, dir, hostMounts, seccomp>>

CgroupTypeOK ==
    /\ group \in [Slots -> [exists : BOOLEAN, created : BOOLEAN, limits : SUBSET LimitFiles,
                            member : BOOLEAN, held : BOOLEAN]]
    /\ delegated \in BOOLEAN
=============================================================================
