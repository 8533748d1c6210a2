--------------------------- MODULE MCJobPipeline ---------------------------
(* Small instances of JobPipeline for TLC. *)
EXTENDS JobPipeline, TLC

\* Every failure the pipeline knows.
AllFaults == {"redis_set", "redis_xadd", "redis_xadd_reply", "db_outbox", "crash_api",
              "slow_dispatch", "redis_group", "redis_read_reply", "redis_get", "db_poison",
              "db_poison_reply", "db_claim", "db_claim_reply", "db_reclaim",
              "db_reclaim_reply", "db_heartbeat", "redis_report", "redis_result",
              "db_finalize", "db_finalize_reply", "redis_ack", "crash",
              "crash_unclaimed", "slow_lease", "slow_inspect", "slow_handler", "ttl",
              "gc", "trim"}

\* Failures after which no open job is left without something that drives it.
RecoverableFaults == {"redis_set", "db_outbox", "crash_api", "slow_dispatch",
                      "db_claim_reply", "db_reclaim", "db_reclaim_reply",
                      "db_heartbeat", "redis_report", "redis_result",
                      "db_finalize", "db_finalize_reply", "redis_ack", "crash", "gc"}

\* All but a lease that lapses before the final write, which leaves the row in
\* processing, where the repair loop does not look.
RepairedFaults == AllFaults \ {"slow_lease"}

\* Workers, their slots and dispatchers are interchangeable.
Interchangeable ==
    Permutations(Workers) \cup Permutations(Slots) \cup Permutations(Dispatchers)
=============================================================================
