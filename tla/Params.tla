------------------------------- MODULE Params -------------------------------
(***************************************************************************)
(* The names the components of the data plane share.                       *)
(***************************************************************************)
CONSTANTS
    Jobs,       \* job ids the API hands out
    Workers,    \* consumer names, the lease owners
    None        \* SQL NULL / Go nil

ASSUME NoneAssumption == None \notin Jobs /\ None \notin Workers
=============================================================================
