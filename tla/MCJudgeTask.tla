---------------------------- MODULE MCJudgeTask ----------------------------
(* Small instances of JudgeTask for TLC. *)
EXTENDS JudgeTask, TLC

CONSTANTS j1, j2, p1, p2

\* Two jobs of one problem.
SameProblem == (j1 :> p1) @@ (j2 :> p1)

\* Two jobs of two problems.
TwoProblems == (j1 :> p1) @@ (j2 :> p2)

\* Every program: one that does not compile, or one that solves some cases.
AnyProgram == {[compiles |-> TRUE, solves |-> S] : S \in SUBSET (Versions \X Cases)}
                  \cup {[compiles |-> FALSE, solves |-> {}]}

\* A program that solves everything.
GoodProgram == {[compiles |-> TRUE, solves |-> Versions \X Cases]}

Interchangeable == Permutations(Tasks)
=============================================================================
