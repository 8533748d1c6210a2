---------------------------- MODULE JobLifecycle ----------------------------
(***************************************************************************)
(* What the data plane promises about one submission, without workers,     *)
(* streams or messages.  A job is accepted, started under attempt 1, taken *)
(* over under the next attempt only after its lease has lapsed, and ended  *)
(* once: by the execution that holds the newest token while the lease is   *)
(* live, or as poisoned.  Executions with older tokens may linger, and     *)
(* disappear without a trace.                                              *)
(***************************************************************************)
EXTENDS Naturals

CONSTANT Jobs

VARIABLES
    job,        \* job[j]: phase, attempt, leased, outcome, by
    tokens      \* <<j, a>>: some execution of j under attempt a is alive

lifecycleVars == <<job, tokens>>

NotSubmitted == [phase |-> "none", attempt |-> 0, leased |-> FALSE,
                 outcome |-> "none", by |-> 0]

Init ==
    /\ job = [j \in Jobs |-> NotSubmitted]
    /\ tokens = {}

Accept(j) ==
    /\ job[j].phase = "none"
    /\ job' = [job EXCEPT ![j].phase = "pending"]
    /\ UNCHANGED tokens

\* The execution may be lost at once, with the reply that hands out its token.
Enter(j, a) == tokens' = tokens \cup {<<j, a>>} \/ UNCHANGED tokens

Start(j) ==
    /\ job[j].phase = "pending"
    /\ job' = [job EXCEPT ![j].phase = "processing", ![j].attempt = @ + 1,
                          ![j].leased = TRUE]
    /\ Enter(j, job[j].attempt + 1)

Lapse(j) ==
    /\ job[j].leased
    /\ job' = [job EXCEPT ![j].leased = FALSE]
    /\ UNCHANGED tokens

\* Only the newest execution renews the lease.
Renew(j) ==
    /\ job[j].phase = "processing"
    /\ <<j, job[j].attempt>> \in tokens
    /\ job' = [job EXCEPT ![j].leased = TRUE]
    /\ UNCHANGED tokens

TakeOver(j) ==
    /\ job[j].phase = "processing"
    /\ ~job[j].leased
    /\ job' = [job EXCEPT ![j].attempt = @ + 1, ![j].leased = TRUE]
    /\ Enter(j, job[j].attempt + 1)

Finish(j) ==
    /\ job[j].phase = "processing"
    /\ job[j].leased
    /\ <<j, job[j].attempt>> \in tokens
    /\ job' = [job EXCEPT ![j].phase = "done", ![j].leased = FALSE,
                          ![j].outcome = "judged", ![j].by = job[j].attempt]
    /\ tokens' = tokens \ {<<j, job[j].attempt>>}

Poison(j) ==
    /\ job[j].phase \in {"pending", "processing"}
    /\ job' = [job EXCEPT ![j].phase = "done", ![j].leased = FALSE,
                          ![j].outcome = "poison"]
    /\ UNCHANGED tokens

Collect(j) ==
    /\ job[j].phase = "done"
    /\ job' = [job EXCEPT ![j].phase = "gone"]
    /\ UNCHANGED tokens

\* Executions die: a crash takes all of a worker's at once.
Die ==
    /\ \E T \in SUBSET tokens : T # {} /\ tokens' = tokens \ T
    /\ UNCHANGED job

Next ==
    \/ Die
    \/ \E j \in Jobs :
          \/ Accept(j) \/ Start(j) \/ Lapse(j) \/ Renew(j) \/ TakeOver(j)
          \/ Finish(j) \/ Poison(j) \/ Collect(j)

Spec == Init /\ [][Next]_lifecycleVars
=============================================================================
