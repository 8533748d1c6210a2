---------------------------- MODULE MCJudgeEngine ----------------------------
(* Small instances of JudgeEngine for TLC. *)
EXTENDS JudgeEngine, TLC

CONSTANTS j1, j2, s1, s2

SlotSymmetry == Permutations({s1, s2})

TwoProblems == j1 :> 1 @@ j2 :> 2

OneProblem == j1 :> 1

SameProblem == j1 :> 1 @@ j2 :> 1
=============================================================================
