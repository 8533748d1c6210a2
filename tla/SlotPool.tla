------------------------------ MODULE SlotPool ------------------------------
(***************************************************************************)
(* The slots of one worker and the two loops that share them: the loop of  *)
(* Run, which reads new messages, and the reclaim loop, which takes over   *)
(* messages that have been pending for too long.  Both reserve slots       *)
(* before they ask Redis, for as many messages as they may get, and hand   *)
(* one slot to the goroutine of every message.  What a message does is the *)
(* subject of StreamConsumer; here it holds its slot for a while.          *)
(***************************************************************************)
EXTENDS Integers, FiniteSets, Faults

CONSTANTS
    PoolSize,        \* slots of the worker
    ReadCount,       \* JOB_STREAM_READ_COUNT
    ReclaimCount,    \* JOB_RECLAIM_COUNT
    Block,           \* JOB_STREAM_BLOCK_MS, in ticks
    Sleep,           \* WORKER_BACKPRESSURE_SLEEP_MS, in ticks
    MaxWait,         \* the cap of reclaimReserveWait, in ticks
    NumMessages      \* bound: messages of the stream

ASSUME SlotAssumption ==
    /\ PoolSize \in Nat \ {0} /\ ReadCount \in Nat \ {0} /\ ReclaimCount \in Nat \ {0}
    /\ Block \in Nat \ {0} /\ Sleep \in Nat \ {0} /\ MaxWait \in Nat \ {0}
    /\ NumMessages \in Nat

Messages == 1..NumMessages

VARIABLES
    free,        \* tokens in the channel slots
    reader,      \* the loop of Run: where it is, the slots it holds, the time its read may block
    reclaim,     \* the reclaim loop: also the time it may wait and its last reply
    cursor,      \* reclaimNextStartID; 0 stands for "0-0"
    message,     \* message[m]: where the message is, for Redis
    reading,     \* messages in a goroutine of Run
    reclaiming,  \* messages in a goroutine of the reclaim loop
    cancelled    \* the context of the worker is done

vars == <<free, reader, reclaim, cursor, message, reading, reclaiming, cancelled, budget>>

NoReply == [start |-> 0, next |-> 0, full |-> FALSE]

Init ==
    /\ free = PoolSize
    /\ reader = [pc |-> "reserve", held |-> 0, t |-> 0]
    /\ reclaim = [pc |-> "ticker", held |-> 0, t |-> 0, reply |-> NoReply]
    /\ cursor = 0
    /\ message \in [Messages -> {"unsent", "idle"}]
    /\ reading = {} /\ reclaiming = {}
    /\ cancelled = FALSE
    /\ FaultsInit

---------------------------------------------------------------------------
(* The channel *)

Least(a, b) == IF a < b THEN a ELSE b

ReservableAll(limit) == limit

\* reserveSlots takes what is there, up to limit.
Reservable(limit) == Least(limit, free)

\* reclaimReserveWait: longer than a read may block, if the cap allows it.
ReclaimReserveWaitSleepOnly == Least(Sleep, MaxWait)

ReclaimReserveWait == Least(Sleep + Block, MaxWait)

\* releaseSlots: a token sent to the channel while the reclaim loop waits for
\* one goes to it; one more than the channel holds would be dropped.
ReleaseSlots(count) ==
    IF reclaim.pc = "wait" /\ count > 0
    THEN /\ free' = Least(free + count - 1, PoolSize)
         /\ reclaim' = [reclaim EXCEPT !.pc = "topup", !.held = 1]
    ELSE /\ free' = Least(free + count, PoolSize)
         /\ UNCHANGED reclaim

---------------------------------------------------------------------------
(* The stream, as Redis keeps it *)

Send(m) ==
    /\ message[m] = "unsent"
    /\ message' = [message EXCEPT ![m] = "new"]
    /\ NoFault
    /\ UNCHANGED <<free, reader, reclaim, cursor, reading, reclaiming, cancelled>>

\* A pending message has not been touched for the lease and the grace period,
\* whether or not its goroutine still runs.
Age(m) ==
    /\ message[m] = "pending"
    /\ message' = [message EXCEPT ![m] = "idle"]
    /\ NoFault
    /\ UNCHANGED <<free, reader, reclaim, cursor, reading, reclaiming, cancelled>>

Deliver(batch) == [m \in Messages |-> IF m \in batch THEN "pending" ELSE message[m]]

\* XREADGROUP: the oldest new messages, at most count.
ReadNew(count) ==
    LET new == {m \in Messages : message[m] = "new"}
    IN  {m \in new : Cardinality({o \in new : o < m}) < count}

\* XAUTOCLAIM: the first idle messages from start on, at most count, ...
AutoClaim(start, count) ==
    LET idle == {m \in Messages : message[m] = "idle" /\ m >= start}
    IN  {m \in idle : Cardinality({o \in idle : o < m}) < count}

\* ... and the pending message after them, from which the next call starts,
\* or 0 at the end of the list.
NextStart(start, count) ==
    LET batch == AutoClaim(start, count)
        rest == {m \in Messages : message[m] \in {"pending", "idle"} /\ \A b \in batch : b < m}
    IN  IF Cardinality(batch) < count \/ rest = {} THEN 0
        ELSE CHOOSE m \in rest : \A o \in rest : m <= o

---------------------------------------------------------------------------
(* The loop of Run *)

ReaderGoes(pc, held, t) == reader' = [pc |-> pc, held |-> held, t |-> t]

\* Without a slot the loop pauses; the end of the pause is the next reservation.
ReserveSlots ==
    /\ reader.pc = "reserve"
    /\ ~cancelled
    /\ free > 0
    /\ free' = free - Reservable(ReadCount)
    /\ ReaderGoes("read", Reservable(ReadCount), Block)
    /\ NoFault
    /\ UNCHANGED <<reclaim, cursor, message, reading, reclaiming, cancelled>>

\* One slot goes to every message, the others go back.
ReadMessages ==
    LET batch == ReadNew(reader.held)
    IN  /\ reader.pc = "read" /\ ~cancelled
        /\ batch # {}
        /\ message' = Deliver(batch)
        /\ reading' = reading \cup batch
        /\ ReleaseSlots(reader.held - Cardinality(batch))
        /\ ReaderGoes("reserve", 0, 0)
        /\ NoFault
        /\ UNCHANGED <<cursor, reclaiming, cancelled>>

\* Nothing came while the read blocked (redis.Nil).
ReadNothing ==
    /\ reader.pc = "read" /\ ~cancelled
    /\ reader.t = 0
    /\ ReleaseSlots(reader.held)
    /\ ReaderGoes("reserve", 0, 0)
    /\ NoFault
    /\ UNCHANGED <<cursor, message, reading, reclaiming, cancelled>>

\* The read failed, perhaps after Redis had delivered the messages.
ReadError ==
    /\ reader.pc = "read" /\ ~cancelled
    /\ Fault("read")
    /\ message' \in {message, Deliver(ReadNew(reader.held))}
    /\ ReleaseSlots(reader.held)
    /\ ReaderGoes("reserve", 0, 0)
    /\ UNCHANGED <<cursor, reading, reclaiming, cancelled>>

\* The deferred workerWG.Wait is all that is left.
ReaderReturns ==
    /\ cancelled
    /\ reader.pc \in {"reserve", "read"}
    /\ ReleaseSlots(reader.held)
    /\ ReaderGoes("join", 0, 0)
    /\ NoFault
    /\ UNCHANGED <<cursor, message, reading, reclaiming, cancelled>>

RunReturns ==
    /\ reader.pc = "join" /\ reading = {}
    /\ ReaderGoes("returned", 0, 0)
    /\ NoFault
    /\ UNCHANGED <<free, reclaim, cursor, message, reading, reclaiming, cancelled>>

---------------------------------------------------------------------------
(* The reclaim loop *)

ReclaimGoes(pc, held) == reclaim' = [reclaim EXCEPT !.pc = pc, !.held = held]

\* The ticker fires: reclaimOnce starts where the last call stopped.
ReclaimOnce ==
    /\ reclaim.pc = "ticker" /\ ~cancelled
    /\ reclaim' = [reclaim EXCEPT !.pc = "reserve", !.reply = [NoReply EXCEPT !.start = cursor]]
    /\ NoFault
    /\ UNCHANGED <<free, reader, cursor, message, reading, reclaiming, cancelled>>

\* reserveSlots, else the wait of reserveSlotsWithWait.
ReclaimReserve ==
    /\ reclaim.pc = "reserve"
    /\ free' = free - Reservable(ReclaimCount)
    /\ reclaim' = IF free > 0 THEN [reclaim EXCEPT !.pc = "topup", !.held = Reservable(ReclaimCount)]
                  ELSE [reclaim EXCEPT !.pc = "wait", !.t = ReclaimReserveWait]
    /\ NoFault
    /\ UNCHANGED <<reader, cursor, message, reading, reclaiming, cancelled>>

\* The timer or the context ends the wait.
ReclaimSkipped ==
    /\ reclaim.pc = "wait"
    /\ reclaim.t = 0 \/ cancelled
    /\ ReclaimGoes("ticker", 0)
    /\ NoFault
    /\ UNCHANGED <<free, reader, cursor, message, reading, reclaiming, cancelled>>

\* What has been released since is taken too.
ReclaimTopUp ==
    LET more == Reservable(ReclaimCount - reclaim.held)
    IN  /\ reclaim.pc = "topup"
        /\ free' = free - more
        /\ ReclaimGoes("claim", reclaim.held + more)
        /\ NoFault
        /\ UNCHANGED <<reader, cursor, message, reading, reclaiming, cancelled>>

\* The reclaim loop gives slots back when it does not wait for one.
ReclaimReleases(count) == free' = Least(free + count, PoolSize)

ReclaimErrorKeepsSlots ==
    /\ reclaim.pc = "claim"
    /\ \/ cancelled /\ NoFault /\ UNCHANGED message
       \/ /\ ~cancelled /\ Fault("claim")
          /\ message' \in {message, Deliver(AutoClaim(reclaim.reply.start, reclaim.held))}
    /\ ReclaimGoes("ticker", 0)
    /\ UNCHANGED <<free, reader, cursor, reading, reclaiming, cancelled>>

\* XAUTOCLAIM failed, perhaps after Redis had claimed; the cursor stays.
ReclaimError ==
    /\ reclaim.pc = "claim"
    /\ \/ cancelled /\ NoFault /\ UNCHANGED message
       \/ /\ ~cancelled /\ Fault("claim")
          /\ message' \in {message, Deliver(AutoClaim(reclaim.reply.start, reclaim.held))}
    /\ ReclaimReleases(reclaim.held)
    /\ ReclaimGoes("ticker", 0)
    /\ UNCHANGED <<reader, cursor, reading, reclaiming, cancelled>>

ReclaimNothing ==
    /\ reclaim.pc = "claim" /\ ~cancelled
    /\ AutoClaim(reclaim.reply.start, reclaim.held) = {}
    /\ cursor' = NextStart(reclaim.reply.start, reclaim.held)
    /\ ReclaimReleases(reclaim.held)
    /\ ReclaimGoes("ticker", 0)
    /\ NoFault
    /\ UNCHANGED <<reader, message, reading, reclaiming, cancelled>>

ReclaimMessages ==
    LET start == reclaim.reply.start
        batch == AutoClaim(start, reclaim.held)
    IN  /\ reclaim.pc = "claim" /\ ~cancelled
        /\ batch # {}
        /\ message' = Deliver(batch)
        /\ reclaiming' = batch
        /\ ReclaimReleases(reclaim.held - Cardinality(batch))
        /\ reclaim' = [reclaim EXCEPT !.pc = "join", !.held = 0,
                         !.reply = [start |-> start, next |-> NextStart(start, reclaim.held),
                                    full |-> Cardinality(batch) = reclaim.held]]
        /\ NoFault
        /\ UNCHANGED <<reader, cursor, reading, cancelled>>

ReclaimJoinedKeepsCursor ==
    LET r == reclaim.reply
        more == r.next \notin {0, r.start} /\ r.full
    IN  /\ reclaim.pc = "join" /\ reclaiming = {}
        /\ cursor' = IF r.next = 0 THEN cursor ELSE r.next
        /\ reclaim' = [reclaim EXCEPT !.pc = IF more THEN "reserve" ELSE "ticker",
                                      !.reply = IF more THEN [NoReply EXCEPT !.start = r.next]
                                                ELSE NoReply]
        /\ NoFault
        /\ UNCHANGED <<free, reader, message, reading, reclaiming, cancelled>>

\* After reclaimWG.Wait: another round, or the end of reclaimOnce.
ReclaimJoined ==
    LET r == reclaim.reply
        more == r.next \notin {0, r.start} /\ r.full
    IN  /\ reclaim.pc = "join" /\ reclaiming = {}
        /\ cursor' = r.next
        /\ reclaim' = [reclaim EXCEPT !.pc = IF more THEN "reserve" ELSE "ticker",
                                      !.reply = IF more THEN [NoReply EXCEPT !.start = r.next]
                                                ELSE NoReply]
        /\ NoFault
        /\ UNCHANGED <<free, reader, message, reading, reclaiming, cancelled>>

---------------------------------------------------------------------------
(* The goroutines of the messages *)

\* The message is acknowledged, or left pending for a later attempt.
Handled(m) ==
    message' \in {message, [message EXCEPT ![m] = "acked"]}

FinishRead(m) ==
    /\ m \in reading
    /\ Handled(m)
    /\ reading' = reading \ {m}
    /\ ReleaseSlots(1)
    /\ NoFault
    /\ UNCHANGED <<reader, cursor, reclaiming, cancelled>>

FinishReclaim(m) ==
    /\ m \in reclaiming
    /\ Handled(m)
    /\ reclaiming' = reclaiming \ {m}
    /\ ReclaimReleases(1)
    /\ NoFault
    /\ UNCHANGED <<reader, reclaim, cursor, reading, cancelled>>

Cancel ==
    /\ ~cancelled
    /\ Fault("cancel")
    /\ cancelled' = TRUE
    /\ UNCHANGED <<free, reader, reclaim, cursor, message, reading, reclaiming>>

\* Time passes while both loops wait for something: the steps of a loop
\* between two waits take none.
Tick ==
    /\ reader.pc = "read" => reader.t > 0 /\ ReadNew(reader.held) = {}
    /\ reader.pc = "reserve" => free = 0
    /\ reclaim.pc \in {"ticker", "wait", "join"}
    /\ reclaim.pc = "wait" => reclaim.t > 0
    /\ reader.pc = "read" \/ reclaim.pc = "wait"
    /\ ~cancelled
    /\ reader' = IF reader.pc = "read" THEN [reader EXCEPT !.t = @ - 1] ELSE reader
    /\ reclaim' = IF reclaim.pc = "wait" THEN [reclaim EXCEPT !.t = @ - 1] ELSE reclaim
    /\ NoFault
    /\ UNCHANGED <<free, cursor, message, reading, reclaiming, cancelled>>

Reader == ReserveSlots \/ ReadMessages \/ ReadNothing \/ ReadError \/ ReaderReturns \/ RunReturns

Reclaimer ==
    \/ ReclaimOnce \/ ReclaimReserve \/ ReclaimSkipped \/ ReclaimTopUp
    \/ ReclaimError \/ ReclaimNothing \/ ReclaimMessages \/ ReclaimJoined

Finish(m) == FinishRead(m) \/ FinishReclaim(m)

Next ==
    \/ Reader \/ Reclaimer \/ Tick \/ Cancel
    \/ \E m \in Messages : Send(m) \/ Age(m) \/ Finish(m)

Spec == Init /\ [][Next]_vars

\* The loops run and time passes, and every message ends some day.
FairSpec ==
    /\ Spec
    /\ WF_vars(Reader) /\ WF_vars(Reclaimer) /\ WF_vars(Tick)
    /\ \A m \in Messages : WF_vars(FinishRead(m)) /\ WF_vars(FinishReclaim(m))

---------------------------------------------------------------------------
(* Types. *)
TypeOK ==
    /\ free \in 0..PoolSize
    /\ reader \in [pc : {"reserve", "read", "join", "returned"}, held : 0..PoolSize, t : 0..Block]
    /\ reclaim \in [pc : {"ticker", "reserve", "wait", "topup", "claim", "join"}, held : 0..PoolSize,
                    t : 0..MaxWait,
                    reply : [start : 0..NumMessages, next : 0..NumMessages, full : BOOLEAN]]
    /\ cursor \in 0..NumMessages
    /\ message \in [Messages -> {"unsent", "new", "pending", "idle", "acked"}]
    /\ reading \subseteq Messages /\ reclaiming \subseteq Messages
    /\ cancelled \in BOOLEAN
    /\ budget \in Nat

(* Every slot is in the channel, reserved by one of the loops or held by   *)
(* one goroutine, on every path through the loops: none is lost to an      *)
(* error or a short reply, none is given back twice, and there are never   *)
(* more goroutines than slots.                                             *)
SlotsConserved ==
    free + reader.held + reclaim.held + Cardinality(reading) + Cardinality(reclaiming) = PoolSize

(* The reclaim loop gives up on a slot only when messages hold them all,   *)
(* not because the loop of Run sits on the free ones while its read blocks.*)
SkippedOnlyWhenBusy ==
    [][ReclaimSkipped /\ ~cancelled =>
          Cardinality(reading) + Cardinality(reclaiming) = PoolSize]_vars

(* A message that nobody has touched for too long is taken over, however   *)
(* slow the other messages are and whatever errors the calls met, unless   *)
(* the worker stops.                                                       *)
IdleIsReclaimed ==
    \A m \in Messages : message[m] = "idle" ~> message[m] # "idle" \/ cancelled
=============================================================================
