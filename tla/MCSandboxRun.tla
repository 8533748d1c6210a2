---------------------------- MODULE MCSandboxRun ----------------------------
(* Small instances of SandboxRun for TLC. *)
EXTENDS SandboxRun

\* A tick is half a second: limits of one and of one and a half seconds.
TwoTimes == {[time |-> 2, mem |-> 2], [time |-> 3, mem |-> 2]}

\* Limits of one second and of much or little memory.
TwoMemories == {[time |-> 2, mem |-> 2], [time |-> 2, mem |-> 1]}

\* A limit of 1250 ms with four ticks to the second.
UnevenLimit == {[time |-> 5, mem |-> 1]}
=============================================================================
