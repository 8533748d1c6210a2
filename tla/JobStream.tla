----------------------------- MODULE JobStream -----------------------------
(***************************************************************************)
(* What the data plane keeps in Redis: the job stream with its consumer    *)
(* group, the payload keys task:payload:<job> and the result keys          *)
(* result:<job>.  Redis is external; the commands are modelled from how    *)
(* src/go/internal/worker/stream_consumer.go, api/outbox_dispatcher.go and *)
(* scheduler/*.go use them.                                                *)
(*                                                                         *)
(* Entries are never renumbered: stream[e] is the job_id of entry e, an    *)
(* entry at or below trimPos has been trimmed (XTRIM / XADD MAXLEN ~), one *)
(* above groupPos has not been delivered to the group yet.                 *)
(***************************************************************************)
EXTENDS Naturals, Sequences, Params

CONSTANT FirstBoot      \* no worker has ever created the consumer group

ASSUME FirstBootAssumption == FirstBoot \in BOOLEAN

VARIABLES
    stream,     \* job_id of every entry ever added
    trimPos,    \* entries 1..trimPos are trimmed
    group,      \* the consumer group exists
    groupPos,   \* last-delivered-id of the group
    pel,        \* pending entries list of the group
    idle,       \* pending entries idle for longer than lease + grace
    payload,    \* jobs whose payload key is set
    resultKey   \* resultKey[j]: attempt that wrote result:<j>, 0 if absent

redisVars == <<stream, trimPos, group, groupPos, pel, idle, payload, resultKey>>

Entries == 1..Len(stream)

JobStreamTypeOK ==
    /\ stream \in Seq(Jobs)
    /\ trimPos \in Nat
    /\ group \in BOOLEAN
    /\ groupPos \in Nat
    /\ pel \subseteq Entries
    /\ idle \subseteq pel
    /\ payload \subseteq Jobs
    /\ resultKey \in [Jobs -> Nat]

JobStreamInit ==
    /\ stream = <<>>
    /\ trimPos = 0
    /\ group = ~FirstBoot
    /\ groupPos = 0
    /\ pel = {}
    /\ idle = {}
    /\ payload = {}
    /\ resultKey = [j \in Jobs |-> 0]

\* The entry XREADGROUP > returns next: trimmed ones are skipped.
NextEntry == (IF groupPos > trimPos THEN groupPos ELSE trimPos) + 1

---------------------------------------------------------------------------
XAdd(j) ==
    /\ stream' = Append(stream, j)
    /\ UNCHANGED <<trimPos, group, groupPos, pel, idle, payload, resultKey>>

SetPayload(j) ==
    /\ payload' = payload \cup {j}
    /\ UNCHANGED <<stream, trimPos, group, groupPos, pel, idle, resultKey>>

DelPayload(j) ==
    /\ payload' = payload \ {j}
    /\ UNCHANGED <<stream, trimPos, group, groupPos, pel, idle, resultKey>>

(* XGROUP CREATE <stream> <group> $ MKSTREAM, BUSYGROUP ignored. *)
EnsureGroup ==
    /\ group' = TRUE
    /\ groupPos' = IF group THEN groupPos ELSE Len(stream)
    /\ UNCHANGED <<stream, trimPos, pel, idle, payload, resultKey>>

(* XREADGROUP ... STREAMS <stream> > *)
ReadNewEntry(e) ==
    /\ group
    /\ e = NextEntry
    /\ e \in Entries
    /\ groupPos' = e
    /\ pel' = pel \cup {e}
    /\ UNCHANGED <<stream, trimPos, group, idle, payload, resultKey>>

(* XAUTOCLAIM of one entry that is still in the stream: idle time restarts. *)
AutoClaimEntry(e) ==
    /\ e \in idle
    /\ e > trimPos
    /\ idle' = idle \ {e}
    /\ UNCHANGED <<stream, trimPos, group, groupPos, pel, payload, resultKey>>

(* XAUTOCLAIM reports an entry that was trimmed; AutoClaim acknowledges it. *)
AckDeletedEntry(e) ==
    /\ e \in idle
    /\ e <= trimPos
    /\ pel' = pel \ {e}
    /\ idle' = idle \ {e}
    /\ UNCHANGED <<stream, trimPos, group, groupPos, payload, resultKey>>

XAckKeepsIdle(e) ==
    /\ pel' = pel \ {e}
    /\ UNCHANGED <<stream, trimPos, group, groupPos, idle, payload, resultKey>>

XAck(e) ==
    /\ pel' = pel \ {e}
    /\ idle' = idle \ {e}
    /\ UNCHANGED <<stream, trimPos, group, groupPos, payload, resultKey>>

(* SETNX result:<job>: the first report wins. *)
ReportResult(j, a) ==
    /\ resultKey' = IF resultKey[j] = 0 THEN [resultKey EXCEPT ![j] = a] ELSE resultKey
    /\ UNCHANGED <<stream, trimPos, group, groupPos, pel, idle, payload>>

(* A pending entry has been idle for min-idle-time. *)
EntryTurnsIdle(e) ==
    /\ e \in pel \ idle
    /\ idle' = idle \cup {e}
    /\ UNCHANGED <<stream, trimPos, group, groupPos, pel, payload, resultKey>>

(* XTRIM, or the MAXLEN ~ of an XADD, drops the oldest entry. *)
TrimOldest ==
    /\ trimPos < Len(stream)
    /\ trimPos' = trimPos + 1
    /\ UNCHANGED <<stream, group, groupPos, pel, idle, payload, resultKey>>

(* The TTL of a result key (RESULT_TTL_SEC, 600 s) ends. *)
ResultExpires(j) ==
    /\ resultKey[j] # 0
    /\ resultKey' = [resultKey EXCEPT ![j] = 0]
    /\ UNCHANGED <<stream, trimPos, group, groupPos, pel, idle, payload>>
=============================================================================
