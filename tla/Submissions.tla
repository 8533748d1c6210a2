---------------------------- MODULE Submissions ----------------------------
(***************************************************************************)
(* The `submissions` table of PostgreSQL: the only state machine of a job  *)
(* (src/go/internal/repository/postgres.go).  Each SQL statement is one    *)
(* atomic operator: its WHERE clause is a state predicate "...Matches" and *)
(* its SET clause is the action of the same name as the Go method.         *)
(*                                                                         *)
(* `status` and `state` are always written together ('running' with        *)
(* 'processing', a final status with 'done'), so `state` stands for both.  *)
(* lease_until is abstracted to what the statements tell apart: NULL, in   *)
(* the future of NOW(), in its past.                                       *)
(***************************************************************************)
EXTENDS Naturals, Params

VARIABLE
    sub         \* sub[j]: the row of job j

RowState == {"none", "pending", "processing", "done", "gone"}

\* verdict says who ended the job: a fenced finalize or the poison path.
\* by is the attempt_id stored in the result, src the attempt whose execution
\* produced that result (they differ when a cached result is reused).
Row == [state   : RowState,
        attempt : Nat,
        owner   : Workers \cup {None},
        lease   : {"null", "valid", "expired"},
        verdict : {"none", "judged", "poison"},
        by      : Nat,
        src     : Nat]

AbsentRow == [state |-> "none", attempt |-> 0, owner |-> None, lease |-> "null",
              verdict |-> "none", by |-> 0, src |-> 0]

SubmissionsTypeOK == sub \in [Jobs -> Row]

SubmissionsInit == sub = [j \in Jobs |-> AbsentRow]

Running(j) == sub[j].state = "processing"

---------------------------------------------------------------------------
(* INSERT of a fresh row: state 'pending', attempt_id 0, no lease. *)
CreateSubmission(j) ==
    /\ sub[j].state = "none"
    /\ sub' = [sub EXCEPT ![j] = [AbsentRow EXCEPT !.state = "pending"]]

(* Claim CAS of a newly delivered entry. *)
ClaimMatches(j) == sub[j].state = "pending"

ClaimSubmissionForRun(j, w) ==
    /\ ClaimMatches(j)
    /\ sub' = [sub EXCEPT ![j] = [@ EXCEPT !.state   = "processing",
                                           !.attempt = sub[j].attempt + 1,
                                           !.owner   = w,
                                           !.lease   = "valid"]]

(* Heartbeat.  The statement does not ask for lease_until > NOW(): it also *)
(* revives a lease that has expired and that nobody has taken over yet.    *)
RefreshMatches(j, a, w) ==
    /\ Running(j)
    /\ sub[j].attempt = a
    /\ sub[j].owner = w

RefreshSubmissionLease(j, a, w) ==
    /\ RefreshMatches(j, a, w)
    /\ sub' = [sub EXCEPT ![j].lease = "valid"]

FinalizeMatchesLeaseOnly(j, a, w) == Running(j) /\ sub[j].lease = "valid"

(* Fenced final write. *)
FinalizeMatches(j, a, w) ==
    /\ Running(j)
    /\ sub[j].attempt = a
    /\ sub[j].owner = w
    /\ sub[j].lease = "valid"

FinalizeSubmissionWithFence(j, a, w, s) ==
    /\ FinalizeMatches(j, a, w)
    /\ sub' = [sub EXCEPT ![j] = [@ EXCEPT !.state   = "done",
                                           !.owner   = None,
                                           !.lease   = "null",
                                           !.verdict = "judged",
                                           !.by      = a,
                                           !.src     = s]]

(* The explanation of a fenced write that hit 0 rows: a second, separate   *)
(* SELECT, so the row may have moved since the UPDATE.                     *)
FinalizeRejectReason(j, a, w) ==
    CASE sub[j].state \in {"none", "gone"} -> "not_in_expected_state"
      [] sub[j].state \in {"pending", "processing", "done"} /\ sub[j].attempt > a
            -> "stale_attempt"
      [] sub[j].state = "done" /\ sub[j].attempt <= a -> "already_finished"
      [] sub[j].state = "processing" /\ sub[j].attempt <= a
            /\ (sub[j].owner # w \/ sub[j].lease # "valid")
            -> "lease_lost_or_owner_mismatch"
      [] OTHER -> "not_in_expected_state"

PoisonMatchesAnyRow(j) == sub[j].state \in {"pending", "processing", "done"}

(* Poison: ends the job unless it is done.  No attempt, owner or lease is  *)
(* compared, and the result column keeps its value.                        *)
PoisonMatches(j) == sub[j].state \in {"pending", "processing"}

MarkSubmissionPoison(j) ==
    IF PoisonMatches(j)
    THEN sub' = [sub EXCEPT ![j] = [@ EXCEPT !.state   = "done",
                                             !.owner   = None,
                                             !.lease   = "null",
                                             !.verdict = "poison"]]
    ELSE UNCHANGED sub

ReclaimMatchesAnyLease(j) == Running(j)

(* Takeover of an expired lease by the reclaim loop ... *)
ReclaimMatches(j) == Running(j) /\ sub[j].lease = "expired"

ReclaimKeepsAttempt(j, w) ==
    /\ ReclaimMatches(j)
    /\ sub' = [sub EXCEPT ![j] = [@ EXCEPT !.owner = w, !.lease = "valid"]]

ReclaimKeepsOwner(j, w) ==
    /\ ReclaimMatches(j)
    /\ sub' = [sub EXCEPT ![j] = [@ EXCEPT !.attempt = sub[j].attempt + 1, !.lease = "valid"]]

ReclaimSubmissionForRun(j, w) ==
    /\ ReclaimMatches(j)
    /\ sub' = [sub EXCEPT ![j] = [@ EXCEPT !.attempt = sub[j].attempt + 1,
                                           !.owner   = w,
                                           !.lease   = "valid"]]

(* ... and the decision of the SELECT that follows a takeover that hit 0   *)
(* rows.  Everything that is neither missing nor running under a live      *)
(* lease, a pending row included, is "done_or_stale".                      *)
ReclaimDecision(j) ==
    CASE sub[j].state \in {"none", "gone"} -> "not_found"
      [] Running(j) /\ sub[j].lease = "valid" -> "lease_still_valid"
      [] OTHER -> "done_or_stale"

(* Retention: only rows in state 'done' are deleted. *)
DeleteOldDoneSubmission(j) ==
    /\ sub[j].state = "done"
    /\ sub' = [sub EXCEPT ![j].state = "gone"]

(* NOW() passes lease_until. *)
LeaseExpires(j) ==
    /\ sub[j].lease = "valid"
    /\ sub' = [sub EXCEPT ![j].lease = "expired"]
=============================================================================
