------------------------------- MODULE Faults -------------------------------
(***************************************************************************)
(* Failures of the environment.  FaultKinds says which failures a run      *)
(* allows, MaxFaults how many of them may happen in one behaviour.  Both   *)
(* are constants, so a theorem about the specification holds for every     *)
(* mixture and number of failures.                                         *)
(***************************************************************************)
EXTENDS Naturals

CONSTANTS FaultKinds, MaxFaults

ASSUME MaxFaultsAssumption == MaxFaults \in Nat

VARIABLE budget    \* failures that may still happen

FaultsInit == budget = MaxFaults

Fault(kind) ==
    /\ kind \in FaultKinds
    /\ budget > 0
    /\ budget' = budget - 1

NoFault == UNCHANGED budget
=============================================================================
