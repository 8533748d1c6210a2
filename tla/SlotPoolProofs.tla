--------------------------- MODULE SlotPoolProofs ---------------------------
(***************************************************************************)
(* Theorems about SlotPool, for every size of the pool, of the batches and *)
(* of the stream, and for any number of failures.                          *)
(***************************************************************************)
EXTENDS SlotPool, FiniteSetTheorems, TLAPS

---------------------------------------------------------------------------
(* A set of messages is finite.                                            *)
LEMMA MessagesFinite ==
    ASSUME NEW S \in SUBSET Messages
    PROVE  IsFiniteSet(S) /\ Cardinality(S) \in Nat
<1>1. IsFiniteSet(Messages)
  BY FS_Interval, SlotAssumption DEF Messages
<1>2. IsFiniteSet(S)
  BY <1>1, FS_Subset
<1> QED  BY <1>2, FS_CardinalityType

(* A set of messages that is not empty has a first one.                    *)
LEMMA FirstMessage ==
    ASSUME NEW S \in SUBSET Messages, S # {}
    PROVE  \E m \in S : \A o \in S : m <= o
<1> DEFINE R == OpToRel(<, Nat)
<1>1. S \subseteq Nat
  BY DEF Messages
<1>2. PICK m \in S : \A o \in S : <<o, m>> \notin R
  BY <1>1, NatLessThanWellFounded, WFMin, Zenon
<1>3. \A o \in S : ~(o < m)
  BY <1>1, <1>2 DEF OpToRel
<1> QED  BY <1>1, <1>3

(* Taking the messages with fewer than count messages before them takes no *)
(* more than count: the number of messages before it tells them apart.     *)
LEMMA FirstOnes ==
    ASSUME NEW S \in SUBSET Messages, NEW count \in Nat
    PROVE  Cardinality({m \in S : Cardinality({o \in S : o < m}) < count}) <= count
<1> DEFINE before(m) == {o \in S : o < m}
           batch == {m \in S : Cardinality(before(m)) < count}
           rank == [m \in batch |-> Cardinality(before(m))]
<1>1. IsFiniteSet(batch) /\ Cardinality(batch) \in Nat
  <2>1. batch \in SUBSET Messages
    OBVIOUS
  <2> QED  BY <2>1, MessagesFinite
<1>2. IsFiniteSet(0..(count - 1)) /\ Cardinality(0..(count - 1)) = count
  <2>1. 0 \in Int /\ count - 1 \in Int
    OBVIOUS
  <2>2. /\ IsFiniteSet(0..(count - 1))
        /\ Cardinality(0..(count - 1)) = IF 0 > count - 1 THEN 0 ELSE (count - 1) - 0 + 1
    BY <2>1, FS_Interval
  <2> QED  BY <2>2
<1>3. \A m \in S : IsFiniteSet(before(m)) /\ Cardinality(before(m)) \in Nat
  <2>1. \A m \in S : before(m) \in SUBSET Messages
    OBVIOUS
  <2> QED  BY <2>1, MessagesFinite
<1>4. rank \in [batch -> 0..(count - 1)]
  BY <1>3
<1>5. ASSUME NEW a \in batch, NEW b \in batch, a < b
      PROVE  rank[a] # rank[b]
  <2>1. a \in Nat /\ b \in Nat /\ S \subseteq Nat
    BY DEF Messages
  <2>2. before(a) \in SUBSET before(b)
    <3>1. \A o \in Nat : o < a => o < b
      BY <2>1, <1>5
    <3> QED  BY <3>1, <2>1
  <2>3. a \in before(b) /\ a \notin before(a)
    BY <2>1, <1>5
  <2>4. Cardinality(before(b)) # Cardinality(before(a))
    <3>1. before(b) # before(a)
      BY <2>3
    <3> HIDE DEF before
    <3>2. IsFiniteSet(before(b))
      BY <1>3
    <3> QED  BY <2>2, <3>1, <3>2, FS_Subset
  <2> QED  BY <2>4
<1>6. \A a, b \in batch : a # b => rank[a] # rank[b]
  <2>1. \A a, b \in batch : a # b => a < b \/ b < a
    BY DEF Messages
  <2> HIDE DEF rank
  <2> QED  BY <2>1, <1>5
<1>7. ~(count < Cardinality(batch))
  <2> HIDE DEF rank, batch
  <2> QED  BY <1>1, <1>2, <1>4, <1>6, FS_PigeonHole
<1> QED  BY <1>1, <1>7

---------------------------------------------------------------------------
(* The invariant: a loop holds slots only between its reservation and its  *)
(* reply, the reclaim loop never more than it may ask for, its goroutines  *)
(* run only while it waits for them, and a message in a goroutine is not   *)
(* new to the group, so that no read delivers it a second time.            *)
Reserved ==
    /\ reader.pc # "read" => reader.held = 0
    /\ reclaim.pc \notin {"topup", "claim"} => reclaim.held = 0
    /\ reclaim.held <= ReclaimCount
    /\ reclaim.pc # "join" => reclaiming = {}
    /\ \A m \in reading \cup reclaiming : message[m] \notin {"unsent", "new"}

Inv == TypeOK /\ SlotsConserved /\ Reserved

MessageStates == [Messages -> {"unsent", "new", "pending", "idle", "acked"}]

ReaderState == [pc : {"reserve", "read", "join", "returned"}, held : 0..PoolSize, t : 0..Block]

ReclaimState ==
    [pc : {"ticker", "reserve", "wait", "topup", "claim", "join"}, held : 0..PoolSize, t : 0..MaxWait,
     reply : [start : 0..NumMessages, next : 0..NumMessages, full : BOOLEAN]]

(* What XREADGROUP returns fits in the slots reserved for it.              *)
LEMMA ReadFits ==
    ASSUME NEW count \in Nat
    PROVE  /\ ReadNew(count) \in SUBSET Messages
           /\ \A m \in ReadNew(count) : message[m] = "new"
           /\ Cardinality(ReadNew(count)) \in 0..count
<1> DEFINE new == {m \in Messages : message[m] = "new"}
<1>1. new \in SUBSET Messages
  OBVIOUS
<1>2. ReadNew(count) = {m \in new : Cardinality({o \in new : o < m}) < count}
  BY DEF ReadNew
<1>3. Cardinality(ReadNew(count)) <= count
  <2> HIDE DEF new
  <2> QED  BY <1>1, <1>2, FirstOnes
<1>4. ReadNew(count) \in SUBSET Messages
  BY <1>2
<1>5. Cardinality(ReadNew(count)) \in Nat
  BY <1>4, MessagesFinite
<1> QED  BY <1>2, <1>3, <1>4, <1>5

(* What XAUTOCLAIM returns fits in the slots reserved for it.              *)
LEMMA ClaimFits ==
    ASSUME NEW start \in 0..NumMessages, NEW count \in Nat
    PROVE  /\ AutoClaim(start, count) \in SUBSET Messages
           /\ Cardinality(AutoClaim(start, count)) \in 0..count
<1> DEFINE idle == {m \in Messages : message[m] = "idle" /\ m >= start}
<1>1. idle \in SUBSET Messages
  OBVIOUS
<1>2. AutoClaim(start, count) = {m \in idle : Cardinality({o \in idle : o < m}) < count}
  BY DEF AutoClaim
<1>3. Cardinality(AutoClaim(start, count)) <= count
  <2> HIDE DEF idle
  <2> QED  BY <1>1, <1>2, FirstOnes
<1>4. AutoClaim(start, count) \in SUBSET Messages
  BY <1>2
<1>5. Cardinality(AutoClaim(start, count)) \in Nat
  BY <1>4, MessagesFinite
<1> QED  BY <1>3, <1>4, <1>5

(* The cursor of XAUTOCLAIM is a message of the stream or the end.         *)
LEMMA NextStartType ==
    ASSUME NEW start \in 0..NumMessages, NEW count \in Nat
    PROVE  NextStart(start, count) \in 0..NumMessages
<1> DEFINE batch == AutoClaim(start, count)
           rest == {m \in Messages : message[m] \in {"pending", "idle"} /\ \A b \in batch : b < m}
<1>1. CASE Cardinality(batch) < count \/ rest = {}
  BY <1>1, SlotAssumption DEF NextStart
<1>2. CASE ~(Cardinality(batch) < count \/ rest = {})
  <2>1. NextStart(start, count) = CHOOSE m \in rest : \A o \in rest : m <= o
    BY <1>2 DEF NextStart
  <2>2. rest \in SUBSET Messages
    OBVIOUS
  <2>3. \E m \in rest : \A o \in rest : m <= o
    <3> HIDE DEF rest
    <3> QED  BY <1>2, <2>2, FirstMessage
  <2>4. NextStart(start, count) \in rest
    <3> HIDE DEF rest
    <3> QED  BY <2>1, <2>3
  <2> QED  BY <2>4, SlotAssumption DEF Messages
<1> QED  BY <1>1, <1>2

(* releaseSlots gives every token to the channel or to the reclaim loop,   *)
(* and drops none as long as the channel has room for them.                *)
LEMMA ReleaseKeeps ==
    ASSUME Inv, NEW count \in Nat, free + count <= PoolSize, ReleaseSlots(count)
    PROVE  /\ free' \in 0..PoolSize
           /\ reclaim' \in ReclaimState
           /\ free' + reclaim'.held = free + reclaim.held + count
           /\ reclaim'.pc \notin {"topup", "claim"} => reclaim'.held = 0
           /\ reclaim'.held <= ReclaimCount
           /\ reclaim'.pc # "join" => reclaiming = {}
<1> USE SlotAssumption DEF Inv, TypeOK, Reserved, Least, ReclaimState
<1>1. CASE reclaim.pc = "wait" /\ count > 0
  <2>1. free' = free + count - 1 /\ reclaim' = [reclaim EXCEPT !.pc = "topup", !.held = 1]
    BY <1>1 DEF ReleaseSlots
  <2>2. reclaim.held = 0 /\ reclaiming = {}
    BY <1>1
  <2>3. reclaim' = [pc |-> "topup", held |-> 1, t |-> reclaim.t, reply |-> reclaim.reply]
    BY <2>1
  <2>4. reclaim' \in ReclaimState
    BY <2>3
  <2>5. free \in Int /\ free' \in 0..PoolSize /\ free' + 1 = free + 0 + count
    BY <2>1, <1>1
  <2>6. reclaim'.pc = "topup" /\ reclaim'.held = 1
    BY <2>3
  <2> HIDE DEF Inv
  <2>7. free' + reclaim'.held = free + reclaim.held + count
    BY <2>2, <2>5, <2>6
  <2>8. reclaim'.held <= ReclaimCount
    BY <2>6
  <2> QED  BY <2>2, <2>4, <2>5, <2>6, <2>7, <2>8
<1>2. CASE ~(reclaim.pc = "wait" /\ count > 0)
  <2>1. free' = free + count /\ reclaim' = reclaim
    BY <1>2 DEF ReleaseSlots
  <2> QED  BY <2>1
<1> QED  BY <1>1, <1>2

(* The sizes the slots are counted by are numbers.                         *)
LEMMA Counts ==
    ASSUME Inv
    PROVE  /\ free \in Nat /\ reader.held \in Nat /\ reclaim.held \in Nat
           /\ IsFiniteSet(reading) /\ Cardinality(reading) \in Nat
           /\ IsFiniteSet(reclaiming) /\ Cardinality(reclaiming) \in Nat
           /\ free + reader.held + reclaim.held + Cardinality(reading) + Cardinality(reclaiming)
                = PoolSize
<1>1. reading \in SUBSET Messages /\ reclaiming \in SUBSET Messages
  BY DEF Inv, TypeOK
<1>2. free \in Nat /\ reader.held \in Nat /\ reclaim.held \in Nat
  BY SlotAssumption DEF Inv, TypeOK
<1> QED  BY <1>1, <1>2, MessagesFinite DEF Inv, SlotsConserved

(* A round of reclaimOnce starts from the cursor with an empty reply.      *)
LEMMA RoundType ==
    ASSUME Inv, NEW start \in 0..NumMessages, NEW pc \in {"ticker", "reserve"},
           reclaim' = [pc |-> pc, held |-> reclaim.held, t |-> reclaim.t,
                       reply |-> [start |-> start, next |-> 0, full |-> FALSE]]
    PROVE  reclaim' \in ReclaimState /\ reclaim'.held = reclaim.held
<1> DEFINE reply == [start |-> start, next |-> 0, full |-> FALSE]
<1>1. reclaim.held \in 0..PoolSize /\ reclaim.t \in 0..MaxWait
  BY DEF Inv, TypeOK
<1>2. reply \in [start : 0..NumMessages, next : 0..NumMessages, full : BOOLEAN]
  BY SlotAssumption
<1> HIDE DEF reply
<1>3. reclaim' = [pc |-> pc, held |-> reclaim.held, t |-> reclaim.t, reply |-> reply]
  BY DEF reply
<1> QED  BY <1>1, <1>2, <1>3 DEF ReclaimState

(* The reclaim loop may go anywhere while it holds no slot and no message. *)
LEMMA EmptyHanded ==
    ASSUME Inv, reclaim.pc # "join" \/ reclaiming = {},
           reclaim.held = 0, reclaim' \in ReclaimState, reclaim'.held = 0, cursor' \in 0..NumMessages,
           UNCHANGED <<free, reader, message, reading, reclaiming, cancelled, budget>>
    PROVE  Inv'
<1> USE SlotAssumption DEF Inv
<1>1. TypeOK'
  BY DEF TypeOK, ReclaimState
<1>2. SlotsConserved'
  BY DEF SlotsConserved
<1>3. reclaiming' = {}
  BY DEF Reserved
<1>4. Reserved'
  BY <1>3 DEF Reserved
<1> QED  BY <1>1, <1>2, <1>4

(* The steps that move no slot keep the invariant.                         *)
LEMMA IdleSteps ==
    ASSUME Inv,
           \/ \E m \in Messages : Send(m) \/ Age(m)
           \/ Cancel \/ Tick \/ RunReturns \/ ReclaimOnce \/ ReclaimSkipped \/ ReclaimJoined
           \/ UNCHANGED vars
    PROVE  Inv'
<1> USE SlotAssumption DEF Inv, TypeOK, SlotsConserved, Reserved, MessageStates
<1>1. CASE \E m \in Messages : Send(m)
  <2>1. PICK m \in Messages : Send(m)
    BY <1>1
  <2>2. m \notin reading \cup reclaiming /\ message' \in MessageStates
        /\ \A o \in reading \cup reclaiming : message'[o] = message[o]
    BY <2>1 DEF Send
  <2> QED  BY <2>1, <2>2 DEF Send, NoFault
<1>2. CASE \E m \in Messages : Age(m)
  <2>1. PICK m \in Messages : Age(m)
    BY <1>2
  <2>2. /\ message' \in MessageStates
        /\ \A o \in Messages : message'[o] \in {message[o], "idle"}
    BY <2>1 DEF Age
  <2> QED  BY <2>1, <2>2 DEF Age, NoFault
<1>3. CASE Cancel
  BY <1>3 DEF Cancel, Fault
<1>4. CASE Tick
  <2>1. /\ reader'.pc = reader.pc /\ reader'.held = reader.held
        /\ reader' \in ReaderState
    BY <1>4 DEF Tick, ReaderState
  <2>2. reclaim'.pc = reclaim.pc /\ reclaim'.held = reclaim.held /\ reclaim' \in ReclaimState
    BY <1>4 DEF Tick, ReclaimState
  <2>3. UNCHANGED <<free, cursor, message, reading, reclaiming, cancelled, budget>>
    BY <1>4 DEF Tick, NoFault
  <2>4. TypeOK'
    BY <2>1, <2>2, <2>3 DEF ReaderState, ReclaimState
  <2>5. SlotsConserved'
    BY <2>1, <2>2, <2>3
  <2>6. Reserved'
    BY <2>1, <2>2, <2>3
  <2> QED  BY <2>4, <2>5, <2>6
<1>5. CASE RunReturns
  BY <1>5 DEF RunReturns, ReaderGoes, NoFault
<1>6. CASE ReclaimOnce
  <2>1. reclaim' = [pc |-> "reserve", held |-> reclaim.held, t |-> reclaim.t,
                    reply |-> [start |-> cursor, next |-> 0, full |-> FALSE]]
    BY <1>6 DEF ReclaimOnce, NoReply
  <2>2. reclaim' \in ReclaimState /\ reclaim.held = 0 /\ reclaim'.held = 0 /\ reclaim.pc # "join"
    <3>1. reclaim.pc = "ticker" /\ cursor \in 0..NumMessages
      BY <1>6 DEF ReclaimOnce
    <3>2. reclaim.held = 0 /\ reclaim.pc # "join"
      BY <3>1
    <3> QED  BY <2>1, <3>1, <3>2, RoundType
  <2> QED  BY <1>6, <2>2, EmptyHanded DEF ReclaimOnce, NoFault
<1>7. CASE ReclaimSkipped
  <2>1. reclaim' = [pc |-> "ticker", held |-> 0, t |-> reclaim.t, reply |-> reclaim.reply]
    BY <1>7 DEF ReclaimSkipped, ReclaimGoes
  <2>2. reclaim' \in ReclaimState /\ reclaim.held = 0 /\ reclaim'.held = 0 /\ reclaim.pc # "join"
    BY <1>7, <2>1 DEF ReclaimSkipped, ReclaimState
  <2> QED  BY <1>7, <2>2, EmptyHanded DEF ReclaimSkipped, NoFault
<1>8. CASE ReclaimJoined
  <2>1. \/ reclaim' = [pc |-> "reserve", held |-> reclaim.held, t |-> reclaim.t,
                       reply |-> [start |-> reclaim.reply.next, next |-> 0, full |-> FALSE]]
        \/ reclaim' = [pc |-> "ticker", held |-> reclaim.held, t |-> reclaim.t,
                       reply |-> [start |-> 0, next |-> 0, full |-> FALSE]]
    <3> DEFINE r == reclaim.reply
               more == r.next \notin {0, r.start} /\ r.full
    <3>1. reclaim' = [reclaim EXCEPT !.pc = IF more THEN "reserve" ELSE "ticker",
                                     !.reply = IF more THEN [NoReply EXCEPT !.start = r.next]
                                               ELSE NoReply]
      BY <1>8 DEF ReclaimJoined
    <3>2. CASE more
      <4>1. reclaim' = [reclaim EXCEPT !.pc = "reserve", !.reply = [NoReply EXCEPT !.start = r.next]]
        BY <3>1, <3>2, Zenon
      <4> QED  BY <4>1 DEF NoReply
    <3>3. CASE ~more
      <4>1. reclaim' = [reclaim EXCEPT !.pc = "ticker", !.reply = NoReply]
        BY <3>1, <3>3, Zenon
      <4> QED  BY <4>1 DEF NoReply
    <3> QED  BY <3>2, <3>3
  <2>2. reclaim.held = 0 /\ reclaiming = {} /\ cursor' \in 0..NumMessages
    BY <1>8 DEF ReclaimJoined
  <2>3. reclaim' \in ReclaimState /\ reclaim'.held = 0
    <3>1. reclaim.reply.next \in 0..NumMessages /\ 0 \in 0..NumMessages
      OBVIOUS
    <3> QED  BY <2>1, <2>2, <3>1, RoundType
  <2> QED  BY <1>8, <2>2, <2>3, EmptyHanded DEF ReclaimJoined, NoFault
<1>9. CASE UNCHANGED vars
  BY <1>9 DEF vars
<1> QED  BY <1>1, <1>2, <1>3, <1>4, <1>5, <1>6, <1>7, <1>8, <1>9

(* A delivered message is pending, the others are as they were.            *)
LEMMA Delivered ==
    ASSUME Inv, NEW batch \in SUBSET Messages
    PROVE  /\ Deliver(batch) \in MessageStates
           /\ \A m \in batch : Deliver(batch)[m] = "pending"
           /\ \A m \in Messages : Deliver(batch)[m] \in {message[m], "pending"}
  BY DEF Inv, TypeOK, Deliver, MessageStates

(* A step that releases slots of the loop of Run or of its goroutines, and *)
(* leaves the rest of them where they are, keeps the invariant.            *)
LEMMA ReaderSettles ==
    ASSUME Inv, NEW count \in Nat, ReleaseSlots(count),
           reader' \in ReaderState, reader'.pc # "read" => reader'.held = 0,
           message' \in MessageStates, reading' \in SUBSET Messages,
           \A m \in reading' \cup reclaiming : message'[m] \notin {"unsent", "new"},
           reader'.held + Cardinality(reading') + count = reader.held + Cardinality(reading),
           UNCHANGED <<cursor, reclaiming, cancelled>>, budget' \in Nat
    PROVE  Inv'
<1>1. reader'.held \in Nat /\ Cardinality(reading') \in Nat
  BY SlotAssumption, MessagesFinite DEF ReaderState
<1>2. free + count <= PoolSize
  BY <1>1, Counts, SlotAssumption
<1>3. /\ free' \in 0..PoolSize /\ reclaim' \in ReclaimState
      /\ free' + reclaim'.held = free + reclaim.held + count
      /\ reclaim'.pc \notin {"topup", "claim"} => reclaim'.held = 0
      /\ reclaim'.held <= ReclaimCount
      /\ reclaim'.pc # "join" => reclaiming = {}
  BY <1>2, ReleaseKeeps
<1>4. TypeOK'
  BY <1>3 DEF Inv, TypeOK, ReaderState, ReclaimState, MessageStates
<1>5. SlotsConserved'
  <2>1. free' \in Nat /\ reclaim'.held \in Nat
    BY <1>3, SlotAssumption DEF ReclaimState
  <2>2. Cardinality(reclaiming') = Cardinality(reclaiming)
    OBVIOUS
  <2>3. /\ free \in Nat /\ reader.held \in Nat /\ reclaim.held \in Nat
        /\ Cardinality(reading) \in Nat /\ Cardinality(reclaiming) \in Nat
        /\ free + reader.held + reclaim.held + Cardinality(reading) + Cardinality(reclaiming)
             = PoolSize
    BY Counts
  <2> DEFINE f == free'
             h == reader'.held
             c == reclaim'.held
             r == Cardinality(reading')
             held == reader.held + Cardinality(reading)
             rest == free + reclaim.held
             x == Cardinality(reclaiming)
  <2>4. /\ f \in Nat /\ h \in Nat /\ c \in Nat /\ r \in Nat /\ x \in Nat
        /\ held \in Nat /\ rest \in Nat
    BY <1>1, <2>1, <2>3
  <2>5. f + c = rest + count /\ h + r + count = held
    BY <1>3
  <2>6. rest + held + x = PoolSize
    BY <2>3
  <2>7. f + h + c + r + x = PoolSize
    <3> HIDE DEF f, h, c, r, held, rest, x
    <3> QED  BY <2>4, <2>5, <2>6
  <2> QED  BY <2>2, <2>7 DEF SlotsConserved
<1>6. Reserved'
  BY <1>3 DEF Reserved
<1> QED  BY <1>4, <1>5, <1>6 DEF Inv

(* The same for the reclaim loop and its goroutines.                       *)
LEMMA ReclaimSettles ==
    ASSUME Inv, NEW count \in Nat, ReclaimReleases(count),
           reclaim' \in ReclaimState, reclaim'.pc \notin {"topup", "claim"}, reclaim'.held = 0,
           cursor' \in 0..NumMessages,
           message' \in MessageStates, reclaiming' \in SUBSET Messages,
           reclaim'.pc # "join" => reclaiming' = {},
           \A m \in reading \cup reclaiming' : message'[m] \notin {"unsent", "new"},
           Cardinality(reclaiming') + count = reclaim.held + Cardinality(reclaiming),
           UNCHANGED <<reader, reading, cancelled>>, budget' \in Nat
    PROVE  Inv'
<1>1. Cardinality(reclaiming') \in Nat
  BY MessagesFinite
<1>2. free' = free + count /\ free' \in 0..PoolSize
  BY <1>1, Counts, SlotAssumption DEF ReclaimReleases, Least
<1>4. TypeOK'
  BY <1>2 DEF Inv, TypeOK, ReclaimState, MessageStates
<1>5. SlotsConserved'
  <2>1. Cardinality(reading') = Cardinality(reading) /\ reader'.held = reader.held
    OBVIOUS
  <2> QED  BY <1>1, <1>2, <2>1, Counts, SlotAssumption DEF SlotsConserved
<1>6. Reserved'
  BY SlotAssumption DEF Inv, Reserved
<1> QED  BY <1>4, <1>5, <1>6 DEF Inv

(* The steps of the loop of Run that move slots.                           *)
LEMMA ReaderSteps ==
    ASSUME Inv, ReserveSlots \/ ReadMessages \/ ReadNothing \/ ReadError \/ ReaderReturns
    PROVE  Inv'
<1> USE SlotAssumption
<1>1. /\ reader.held \in Nat /\ message \in MessageStates /\ reading \in SUBSET Messages
      /\ \A m \in reading \cup reclaiming : m \in Messages /\ message[m] \notin {"unsent", "new"}
      /\ budget \in Nat /\ Cardinality(reading) \in Nat
  BY Counts DEF Inv, TypeOK, Reserved, MessageStates
<1>2. CASE ReserveSlots
  <2> DEFINE taken == Reservable(ReadCount)
  <2>1. taken \in 0..PoolSize /\ free' = free - taken /\ free' \in 0..PoolSize /\ reader.held = 0
    BY <1>2, Counts DEF ReserveSlots, Reservable, Least, Inv, TypeOK, Reserved
  <2>2. reader' = [pc |-> "read", held |-> taken, t |-> Block]
    BY <1>2 DEF ReserveSlots, ReaderGoes
  <2>3. UNCHANGED <<reclaim, cursor, message, reading, reclaiming, cancelled, budget>>
    BY <1>2 DEF ReserveSlots, NoFault
  <2> HIDE DEF taken
  <2>4. reader' \in ReaderState /\ reader'.held = taken /\ reader'.pc = "read"
    BY <2>1, <2>2 DEF ReaderState
  <2>5. TypeOK'
    BY <2>1, <2>3, <2>4 DEF Inv, TypeOK, ReaderState
  <2>6. SlotsConserved'
    BY <2>1, <2>3, <2>4, Counts DEF SlotsConserved
  <2>7. Reserved'
    BY <2>3, <2>4 DEF Inv, Reserved
  <2> QED  BY <2>5, <2>6, <2>7 DEF Inv
<1>3. ASSUME \/ reader' = [pc |-> "reserve", held |-> 0, t |-> 0]
             \/ reader' = [pc |-> "join", held |-> 0, t |-> 0]
      PROVE  reader' \in ReaderState /\ reader'.held = 0
  BY <1>3 DEF ReaderState
<1>4. CASE ReadMessages
  <2> DEFINE batch == ReadNew(reader.held)
  <2>1. /\ batch \in SUBSET Messages /\ \A m \in batch : message[m] = "new"
        /\ Cardinality(batch) \in 0..reader.held
    BY <1>1, ReadFits
  <2>2. /\ message' = Deliver(batch) /\ reading' = reading \cup batch
        /\ ReleaseSlots(reader.held - Cardinality(batch))
        /\ reader' = [pc |-> "reserve", held |-> 0, t |-> 0]
        /\ UNCHANGED <<cursor, reclaiming, cancelled, budget>>
    BY <1>4 DEF ReadMessages, ReaderGoes, NoFault
  <2> HIDE DEF batch
  <2>3. reading \cap batch = {}
    BY <1>1, <2>1
  <2>4. Cardinality(reading') = Cardinality(reading) + Cardinality(batch)
    <3>1. IsFiniteSet(reading) /\ IsFiniteSet(batch)
      BY <1>1, <2>1, MessagesFinite
    <3>2. Cardinality(reading \cup batch)
            = Cardinality(reading) + Cardinality(batch) - Cardinality(reading \cap batch)
      BY <3>1, FS_Union
    <3>3. Cardinality(reading \cap batch) = 0
      BY <2>3, FS_EmptySet
    <3>4. Cardinality(batch) \in Nat
      BY <2>1, MessagesFinite
    <3> QED  BY <1>1, <2>2, <3>2, <3>3, <3>4
  <2>5. reader' \in ReaderState /\ reader'.held = 0
    BY <1>3, <2>2
  <2>6. reader.held - Cardinality(batch) \in Nat
    BY <1>1, <2>1
  <2>7. /\ message' \in MessageStates /\ reading' \in SUBSET Messages
        /\ \A m \in reading' \cup reclaiming : message'[m] \notin {"unsent", "new"}
    BY <1>1, <2>1, <2>2, Delivered
  <2>8. reader'.held + Cardinality(reading') + (reader.held - Cardinality(batch))
          = reader.held + Cardinality(reading)
    BY <1>1, <2>1, <2>4, <2>5
  <2> QED  BY <1>1, <2>2, <2>5, <2>6, <2>7, <2>8, ReaderSettles
<1>5. ASSUME ReleaseSlots(reader.held), reader' \in ReaderState, reader'.held = 0,
             message' \in MessageStates, UNCHANGED reading,
             \A m \in reading \cup reclaiming : message'[m] \notin {"unsent", "new"},
             UNCHANGED <<cursor, reclaiming, cancelled>>, budget' \in Nat
      PROVE  Inv'
  <2>1. reader'.held + Cardinality(reading') + reader.held = reader.held + Cardinality(reading)
    BY <1>1, <1>5
  <2> QED  BY <1>1, <1>5, <2>1, ReaderSettles
<1>6. CASE ReadNothing
  <2>1. /\ ReleaseSlots(reader.held) /\ reader' = [pc |-> "reserve", held |-> 0, t |-> 0]
        /\ UNCHANGED <<cursor, message, reading, reclaiming, cancelled, budget>>
    BY <1>6 DEF ReadNothing, ReaderGoes, NoFault
  <2>2. reader' \in ReaderState /\ reader'.held = 0
    BY <1>3, <2>1
  <2> QED  BY <1>1, <1>5, <2>1, <2>2
<1>7. CASE ReadError
  <2>1. /\ ReleaseSlots(reader.held) /\ reader' = [pc |-> "reserve", held |-> 0, t |-> 0]
        /\ UNCHANGED <<cursor, reading, reclaiming, cancelled>> /\ budget' \in Nat
        /\ message' \in {message, Deliver(ReadNew(reader.held))}
    BY <1>1, <1>7 DEF ReadError, ReaderGoes, Fault
  <2>2. ReadNew(reader.held) \in SUBSET Messages
    BY <1>1, ReadFits
  <2>3. /\ message' \in MessageStates
        /\ \A m \in reading \cup reclaiming : message'[m] \notin {"unsent", "new"}
    BY <1>1, <2>1, <2>2, Delivered
  <2>4. reader' \in ReaderState /\ reader'.held = 0
    BY <1>3, <2>1
  <2> QED  BY <1>5, <2>1, <2>3, <2>4
<1>8. CASE ReaderReturns
  <2>1. /\ ReleaseSlots(reader.held) /\ reader' = [pc |-> "join", held |-> 0, t |-> 0]
        /\ UNCHANGED <<cursor, message, reading, reclaiming, cancelled, budget>>
    BY <1>8 DEF ReaderReturns, ReaderGoes, NoFault
  <2>2. reader' \in ReaderState /\ reader'.held = 0
    BY <1>3, <2>1
  <2> QED  BY <1>1, <1>5, <2>1, <2>2
<1> QED  BY <1>2, <1>4, <1>6, <1>7, <1>8

(* The end of a message, in a goroutine of either loop.                    *)
LEMMA FinishSteps ==
    ASSUME Inv, NEW m \in Messages, Finish(m)
    PROVE  Inv'
<1> USE SlotAssumption
<1>1. /\ message \in MessageStates /\ reading \in SUBSET Messages /\ reclaiming \in SUBSET Messages
      /\ \A o \in reading \cup reclaiming : message[o] \notin {"unsent", "new"}
      /\ budget \in Nat /\ reader.held \in Nat /\ reclaim.held \in Nat
      /\ Cardinality(reading) \in Nat /\ Cardinality(reclaiming) \in Nat
      /\ IsFiniteSet(reading) /\ IsFiniteSet(reclaiming)
  BY Counts DEF Inv, TypeOK, Reserved, MessageStates
<1>2. ASSUME Handled(m)
      PROVE  /\ message' \in MessageStates
             /\ \A o \in reading \cup reclaiming : message'[o] \notin {"unsent", "new"}
  BY <1>1, <1>2 DEF Handled, MessageStates
<1>3. CASE FinishRead(m)
  <2>1. /\ m \in reading /\ Handled(m) /\ reading' = reading \ {m} /\ ReleaseSlots(1)
        /\ UNCHANGED <<reader, cursor, reclaiming, cancelled, budget>>
    BY <1>3 DEF FinishRead, NoFault
  <2>2. Cardinality(reading') = Cardinality(reading) - 1
    BY <1>1, <2>1, FS_RemoveElement
  <2>3. /\ reader' \in ReaderState /\ (reader'.pc # "read" => reader'.held = 0)
        /\ reading' \in SUBSET Messages
        /\ \A o \in reading' \cup reclaiming : message'[o] \notin {"unsent", "new"}
    BY <1>1, <1>2, <2>1 DEF Inv, TypeOK, Reserved, ReaderState
  <2>4. reader'.held + Cardinality(reading') + 1 = reader.held + Cardinality(reading)
    BY <1>1, <2>1, <2>2
  <2> QED  BY <1>1, <1>2, <2>1, <2>3, <2>4, ReaderSettles
<1>4. CASE FinishReclaim(m)
  <2>1. /\ m \in reclaiming /\ Handled(m) /\ reclaiming' = reclaiming \ {m} /\ ReclaimReleases(1)
        /\ UNCHANGED <<reader, reclaim, cursor, reading, cancelled, budget>>
    BY <1>4 DEF FinishReclaim, NoFault
  <2>2. Cardinality(reclaiming') = Cardinality(reclaiming) - 1
    BY <1>1, <2>1, FS_RemoveElement
  <2>3. /\ reclaim.pc = "join" /\ reclaim' \in ReclaimState /\ cursor' \in 0..NumMessages
        /\ reclaim.held = 0
    BY <2>1 DEF Inv, TypeOK, Reserved, ReclaimState
  <2>4. Cardinality(reclaiming') + 1 = reclaim.held + Cardinality(reclaiming)
    BY <1>1, <2>2, <2>3
  <2>5. /\ reclaiming' \in SUBSET Messages
        /\ \A o \in reading \cup reclaiming' : message'[o] \notin {"unsent", "new"}
    BY <1>1, <1>2, <2>1
  <2>6. reclaim'.pc = "join" /\ reclaim'.held = 0
    BY <2>1, <2>3
  <2> QED  BY <1>1, <1>2, <2>1, <2>3, <2>4, <2>5, <2>6, ReclaimSettles
<1> QED  BY <1>3, <1>4 DEF Finish

(* The steps of the reclaim loop that move slots.                          *)
LEMMA ReclaimSteps ==
    ASSUME Inv,
           ReclaimReserve \/ ReclaimTopUp \/ ReclaimError \/ ReclaimNothing \/ ReclaimMessages
    PROVE  Inv'
<1> USE SlotAssumption
<1>1. /\ reclaim.held \in Nat /\ message \in MessageStates /\ reclaim \in ReclaimState
      /\ reading \in SUBSET Messages /\ reclaiming \in SUBSET Messages
      /\ \A m \in reading \cup reclaiming : m \in Messages /\ message[m] \notin {"unsent", "new"}
      /\ budget \in Nat /\ cursor \in 0..NumMessages
  BY Counts DEF Inv, TypeOK, Reserved, MessageStates, ReclaimState
<1>2. ASSUME NEW more \in 0..free, free' = free - more,
             reclaim' \in ReclaimState, reclaim'.held = reclaim.held + more,
             reclaim'.held <= ReclaimCount, reclaim'.pc # "join", reclaiming = {},
             reclaim'.pc \notin {"topup", "claim"} => reclaim'.held = 0,
             UNCHANGED <<reader, cursor, message, reading, reclaiming, cancelled, budget>>
      PROVE  Inv'
  <2>1. free' \in 0..PoolSize
    BY <1>2, Counts
  <2>2. TypeOK'
    BY <1>2, <2>1 DEF Inv, TypeOK, ReclaimState
  <2>3. SlotsConserved'
    BY <1>2, Counts DEF SlotsConserved
  <2>4. Reserved'
    BY <1>2 DEF Inv, Reserved
  <2> QED  BY <2>2, <2>3, <2>4 DEF Inv
<1>3. CASE ReclaimReserve
  <2> DEFINE taken == Reservable(ReclaimCount)
  <2>1. taken \in 0..free /\ taken <= ReclaimCount /\ taken \in 0..PoolSize /\ (free = 0 => taken = 0)
    BY Counts DEF Reservable, Least
  <2>2. /\ reclaim.pc = "reserve" /\ free' = free - taken
        /\ reclaim' = IF free > 0 THEN [reclaim EXCEPT !.pc = "topup", !.held = taken]
                      ELSE [reclaim EXCEPT !.pc = "wait", !.t = ReclaimReserveWait]
        /\ UNCHANGED <<reader, cursor, message, reading, reclaiming, cancelled, budget>>
    BY <1>3 DEF ReclaimReserve, NoFault
  <2> HIDE DEF taken
  <2>3. reclaim.held = 0 /\ reclaiming = {}
    BY <2>2 DEF Inv, Reserved
  <2>4. ReclaimReserveWait \in 0..MaxWait
    BY DEF ReclaimReserveWait, Least
  <2>5. CASE free > 0
    <3>1. reclaim' = [pc |-> "topup", held |-> taken, t |-> reclaim.t, reply |-> reclaim.reply]
      BY <1>1, <2>2, <2>5 DEF ReclaimState
    <3>2. reclaim' \in ReclaimState /\ reclaim'.held = reclaim.held + taken /\ reclaim'.pc = "topup"
      BY <1>1, <2>1, <2>3, <3>1 DEF ReclaimState
    <3> QED  BY <1>2, <2>1, <2>2, <2>3, <3>2
  <2>6. CASE ~(free > 0)
    <3>1. reclaim' = [pc |-> "wait", held |-> reclaim.held, t |-> ReclaimReserveWait, reply |-> reclaim.reply]
      BY <1>1, <2>2, <2>6 DEF ReclaimState
    <3>2. taken = 0
      BY <2>1, <2>6, Counts
    <3>3. reclaim' \in ReclaimState /\ reclaim'.held = reclaim.held + taken /\ reclaim'.pc = "wait"
      BY <1>1, <2>3, <2>4, <3>1, <3>2 DEF ReclaimState
    <3> QED  BY <1>2, <2>1, <2>2, <2>3, <3>2, <3>3
  <2> QED  BY <2>5, <2>6
<1>4. CASE ReclaimTopUp
  <2> DEFINE more == Reservable(ReclaimCount - reclaim.held)
  <2>1. more \in 0..free /\ reclaim.held + more <= ReclaimCount /\ reclaim.held + more \in 0..PoolSize
    BY Counts DEF Reservable, Least, Inv, Reserved
  <2>2. /\ reclaim.pc = "topup" /\ free' = free - more
        /\ reclaim' = [reclaim EXCEPT !.pc = "claim", !.held = reclaim.held + more]
        /\ UNCHANGED <<reader, cursor, message, reading, reclaiming, cancelled, budget>>
    BY <1>4 DEF ReclaimTopUp, ReclaimGoes, NoFault
  <2> HIDE DEF more
  <2>3. reclaim' = [pc |-> "claim", held |-> reclaim.held + more, t |-> reclaim.t, reply |-> reclaim.reply]
    BY <1>1, <2>2 DEF ReclaimState
  <2>4. reclaim' \in ReclaimState /\ reclaim'.held = reclaim.held + more /\ reclaim'.pc = "claim"
    BY <1>1, <2>1, <2>3 DEF ReclaimState
  <2>5. reclaiming = {}
    BY <2>2 DEF Inv, Reserved
  <2> QED  BY <1>2, <2>1, <2>2, <2>4, <2>5
<1>5. ASSUME reclaim.pc = "claim", ReclaimGoes("ticker", 0), ReclaimReleases(reclaim.held),
             message' \in {message, Deliver(AutoClaim(reclaim.reply.start, reclaim.held))},
             cursor' \in 0..NumMessages, UNCHANGED <<reader, reading, reclaiming, cancelled>>,
             budget' \in Nat
      PROVE  Inv'
  <2>1. reclaiming = {} /\ reclaiming' = {}
    BY <1>5 DEF Inv, Reserved
  <2>2. reclaim' = [pc |-> "ticker", held |-> 0, t |-> reclaim.t, reply |-> reclaim.reply]
    BY <1>1, <1>5 DEF ReclaimGoes, ReclaimState
  <2>3. reclaim' \in ReclaimState /\ reclaim'.held = 0 /\ reclaim'.pc = "ticker"
    BY <1>1, <2>2 DEF ReclaimState
  <2>4. reclaim.reply.start \in 0..NumMessages
    BY <1>1 DEF ReclaimState
  <2>5. AutoClaim(reclaim.reply.start, reclaim.held) \in SUBSET Messages
    BY <1>1, <2>4, ClaimFits
  <2>6. /\ message' \in MessageStates
        /\ \A m \in reading \cup reclaiming' : message'[m] \notin {"unsent", "new"}
    BY <1>1, <1>5, <2>1, <2>5, Delivered
  <2>7. Cardinality(reclaiming') + reclaim.held = reclaim.held + Cardinality(reclaiming)
    BY <1>1, <2>1, FS_EmptySet
  <2> QED  BY <1>1, <1>5, <2>1, <2>3, <2>6, <2>7, ReclaimSettles
<1>6. CASE ReclaimError
  <2>1. budget' \in Nat /\ message' \in {message, Deliver(AutoClaim(reclaim.reply.start, reclaim.held))}
    BY <1>1, <1>6 DEF ReclaimError, Fault, NoFault
  <2> QED  BY <1>1, <1>5, <1>6, <2>1 DEF ReclaimError
<1>7. CASE ReclaimNothing
  <2>1. reclaim.reply.start \in 0..NumMessages
    BY <1>1 DEF ReclaimState
  <2>2. cursor' \in 0..NumMessages
    BY <1>1, <1>7, <2>1, NextStartType DEF ReclaimNothing
  <2> QED  BY <1>1, <1>5, <1>7, <2>2 DEF ReclaimNothing, NoFault
<1>8. CASE ReclaimMessages
  <2> DEFINE start == reclaim.reply.start
             batch == AutoClaim(start, reclaim.held)
             next == NextStart(start, reclaim.held)
             full == Cardinality(batch) = reclaim.held
  <2>1. start \in 0..NumMessages
    BY <1>1 DEF ReclaimState
  <2>2. batch \in SUBSET Messages /\ Cardinality(batch) \in 0..reclaim.held
    BY <1>1, <2>1, ClaimFits
  <2>3. next \in 0..NumMessages
    BY <1>1, <2>1, NextStartType
  <2>4. /\ reclaim.pc = "claim" /\ message' = Deliver(batch) /\ reclaiming' = batch
        /\ ReclaimReleases(reclaim.held - Cardinality(batch))
        /\ reclaim' = [reclaim EXCEPT !.pc = "join", !.held = 0,
                          !.reply = [start |-> start, next |-> next, full |-> full]]
        /\ UNCHANGED <<reader, cursor, reading, cancelled, budget>>
    BY <1>8 DEF ReclaimMessages, NoFault
  <2>5. full \in BOOLEAN
    OBVIOUS
  <2> HIDE DEF start, batch, next, full
  <2>6. reclaim' = [pc |-> "join", held |-> 0, t |-> reclaim.t,
                    reply |-> [start |-> start, next |-> next, full |-> full]]
    BY <1>1, <2>4 DEF ReclaimState
  <2>7. [start |-> start, next |-> next, full |-> full]
          \in [start : 0..NumMessages, next : 0..NumMessages, full : BOOLEAN]
    BY <2>1, <2>3, <2>5, Zenon
  <2>8. reclaim' \in ReclaimState /\ reclaim'.held = 0 /\ reclaim'.pc = "join"
    BY <1>1, <2>6, <2>7 DEF ReclaimState
  <2>9. reclaiming = {} /\ Cardinality(reclaiming) = 0
    BY <2>4, FS_EmptySet DEF Inv, Reserved
  <2>10. /\ message' \in MessageStates /\ reclaiming' \in SUBSET Messages
         /\ \A m \in reading \cup reclaiming' : message'[m] \notin {"unsent", "new"}
    BY <1>1, <2>2, <2>4, Delivered
  <2>11. /\ reclaim.held - Cardinality(batch) \in Nat
         /\ Cardinality(reclaiming') + (reclaim.held - Cardinality(batch))
              = reclaim.held + Cardinality(reclaiming)
    BY <1>1, <2>2, <2>4, <2>9
  <2> QED  BY <1>1, <2>4, <2>8, <2>10, <2>11, ReclaimSettles
<1> QED  BY <1>3, <1>4, <1>6, <1>7, <1>8

---------------------------------------------------------------------------
(* The invariant holds at the start and no step breaks it. *)
LEMMA Inductive ==
    Spec => []Inv
<1>1. Init => Inv
  <2> SUFFICES ASSUME Init PROVE Inv
    OBVIOUS
  <2> USE SlotAssumption, MaxFaultsAssumption
  <2>1. /\ free = PoolSize /\ reading = {} /\ reclaiming = {}
        /\ reader.held = 0 /\ reclaim.held = 0 /\ reader.pc = "reserve" /\ reclaim.pc = "ticker"
    BY DEF Init
  <2>2. TypeOK
    <3>1. reader \in ReaderState
      BY DEF Init, ReaderState
    <3>2. NoReply \in [start : 0..NumMessages, next : 0..NumMessages, full : BOOLEAN]
      BY DEF NoReply
    <3>3. reclaim \in ReclaimState
      BY <3>2 DEF Init, ReclaimState
    <3>4. message \in MessageStates
      BY DEF Init, MessageStates
    <3>5. free = PoolSize /\ cursor = 0 /\ budget = MaxFaults
      BY Zenon DEF Init, FaultsInit
    <3>6. cancelled \in BOOLEAN
      BY Zenon DEF Init
    <3>7. free \in 0..PoolSize /\ cursor \in 0..NumMessages /\ budget \in Nat
      BY <3>5
    <3> QED  BY <2>1, <3>1, <3>3, <3>4, <3>6, <3>7 DEF TypeOK, MessageStates, ReaderState, ReclaimState
  <2>3. SlotsConserved
    BY <2>1, FS_EmptySet DEF SlotsConserved
  <2>4. Reserved
    BY <2>1 DEF Reserved
  <2> QED  BY <2>2, <2>3, <2>4 DEF Inv
<1>2. Inv /\ [Next]_vars => Inv'
  <2> SUFFICES ASSUME Inv, [Next]_vars PROVE Inv'
    OBVIOUS
  <2> QED  BY IdleSteps, ReaderSteps, ReclaimSteps, FinishSteps DEF Next, Reader, Reclaimer
<1> QED  BY <1>1, <1>2, PTL DEF Spec

(* The state of the worker is always of its type.                          *)
THEOREM SlotTypes ==
    Spec => []TypeOK
<1>1. Inv => TypeOK
  BY DEF Inv
<1> QED  BY <1>1, Inductive, PTL

(* No slot is lost or given back twice on any path through Run,            *)
(* reclaimOnce and the goroutines of the messages, and no more messages    *)
(* run than the worker has slots, for any pool, batch size and failures.   *)
THEOREM SlotsAreConserved ==
    Spec => []SlotsConserved
<1>1. Inv => SlotsConserved
  BY DEF Inv
<1> QED  BY <1>1, Inductive, PTL

---------------------------------------------------------------------------
(* While the reclaim loop waits the channel is empty, so Run starts no new *)
(* read, and the read that already runs ends before the wait does.         *)
Outwaits ==
    reclaim.pc = "wait" => /\ free = 0
                           /\ reader.pc = "read" => reader.t < reclaim.t

(* Run leaves the wait of the reclaim loop as it is.                       *)
LEMMA ReaderOutwaited ==
    ASSUME Inv, Outwaits, NEW count \in Nat, ReleaseSlots(count),
           reader'.pc = "read" => reader.pc = "read" /\ reader'.t = reader.t
    PROVE  Outwaits'
<1> SUFFICES ASSUME reclaim'.pc = "wait"
             PROVE  free' = 0 /\ (reader'.pc = "read" => reader'.t < reclaim'.t)
  BY DEF Outwaits
<1>1. ~(reclaim.pc = "wait" /\ count > 0)
  BY DEF ReleaseSlots, Inv, TypeOK
<1>2. reclaim' = reclaim /\ free' = Least(free + count, PoolSize)
  BY <1>1 DEF ReleaseSlots
<1>3. free = 0 /\ count = 0
  BY <1>1, <1>2 DEF Outwaits
<1>4. free' = 0
  BY <1>2, <1>3, SlotAssumption DEF Least
<1> QED  BY <1>2, <1>4 DEF Outwaits

(* No step ends the advantage of the reclaim loop.                         *)
LEMMA OutwaitsStep ==
    ASSUME Inv, Outwaits, [Next]_vars, Sleep + Block <= MaxWait
    PROVE  Outwaits'
<1> USE SlotAssumption
<1>1. CASE UNCHANGED <<free, reader, reclaim>>
  BY <1>1 DEF Outwaits
<1>2. CASE ReserveSlots
  <2>1. reclaim' = reclaim /\ free > 0
    BY <1>2 DEF ReserveSlots
  <2> QED  BY <2>1, Counts DEF Outwaits
<1>3. CASE ReadMessages
  <2>1. Cardinality(ReadNew(reader.held)) \in 0..reader.held /\ reader.held \in Nat
    BY ReadFits, Counts
  <2>2. reader.held - Cardinality(ReadNew(reader.held)) \in Nat
    BY <2>1
  <2>3. reader'.pc = "reserve"
    BY <1>3 DEF ReadMessages, ReaderGoes
  <2>4. ReleaseSlots(reader.held - Cardinality(ReadNew(reader.held)))
    BY <1>3 DEF ReadMessages
  <2> QED  BY <2>2, <2>3, <2>4, ReaderOutwaited
<1>4. CASE ReadNothing \/ ReadError \/ ReaderReturns
  <2>1. reader.held \in Nat
    BY Counts
  <2>2. ReleaseSlots(reader.held) /\ reader'.pc # "read"
    BY <1>4 DEF ReadNothing, ReadError, ReaderReturns, ReaderGoes
  <2> QED  BY <2>1, <2>2, ReaderOutwaited
<1>5. CASE RunReturns
  BY <1>5 DEF RunReturns, ReaderGoes, Outwaits
<1>6. CASE ReclaimReserve
  <2>1. /\ free' = free - Reservable(ReclaimCount) /\ reader' = reader
        /\ reclaim' = IF free > 0 THEN [reclaim EXCEPT !.pc = "topup", !.held = Reservable(ReclaimCount)]
                      ELSE [reclaim EXCEPT !.pc = "wait", !.t = ReclaimReserveWait]
    BY <1>6 DEF ReclaimReserve
  <2>2. reclaim \in ReclaimState /\ reader \in ReaderState
    BY DEF Inv, TypeOK, ReclaimState, ReaderState
  <2>3. CASE free > 0
    <3>1. reclaim'.pc = "topup"
      BY <2>1, <2>2, <2>3 DEF ReclaimState
    <3> QED  BY <3>1 DEF Outwaits
  <2>4. CASE ~(free > 0)
    <3>1. free' = 0
      BY <2>1, <2>4, Counts DEF Reservable, Least
    <3>2. reclaim'.t = ReclaimReserveWait
      BY <2>1, <2>2, <2>4 DEF ReclaimState
    <3>3. ReclaimReserveWait = Sleep + Block
      BY DEF ReclaimReserveWait, Least
    <3>4. reader.t <= Block /\ reader.t \in Nat
      BY <2>2 DEF ReaderState
    <3> QED  BY <2>1, <3>1, <3>2, <3>3, <3>4 DEF Outwaits
  <2> QED  BY <2>3, <2>4
<1>7. CASE ReclaimOnce \/ ReclaimSkipped \/ ReclaimTopUp \/ ReclaimError \/ ReclaimNothing
           \/ ReclaimMessages
  <2>1. reclaim \in ReclaimState
    BY DEF Inv, TypeOK, ReclaimState
  <2>2. reclaim'.pc # "wait"
    BY <1>7, <2>1 DEF ReclaimOnce, ReclaimSkipped, ReclaimTopUp, ReclaimError, ReclaimNothing,
                      ReclaimMessages, ReclaimGoes, ReclaimState
  <2> QED  BY <2>2 DEF Outwaits
<1>8. CASE ReclaimJoined
  <2>1. reclaim \in ReclaimState
    BY DEF Inv, TypeOK, ReclaimState
  <2>2. reclaim'.pc # "wait"
    BY <1>8, <2>1 DEF ReclaimJoined, ReclaimState
  <2> QED  BY <2>2 DEF Outwaits
<1>9. CASE Tick
  <2>1. /\ free' = free
        /\ reader' = IF reader.pc = "read" THEN [reader EXCEPT !.t = @ - 1] ELSE reader
        /\ reclaim' = IF reclaim.pc = "wait" THEN [reclaim EXCEPT !.t = @ - 1] ELSE reclaim
        /\ reader.pc = "read" => reader.t > 0
    BY <1>9 DEF Tick
  <2>2. reclaim \in ReclaimState /\ reader \in ReaderState
    BY DEF Inv, TypeOK, ReclaimState, ReaderState
  <2>3. reclaim'.pc = reclaim.pc /\ reader'.pc = reader.pc
    BY <2>1, <2>2 DEF ReclaimState, ReaderState
  <2>4. ASSUME reclaim.pc = "wait", reader.pc = "read"
        PROVE  reader'.t < reclaim'.t
    <3>1. reader'.t = reader.t - 1 /\ reclaim'.t = reclaim.t - 1
      BY <2>1, <2>2, <2>4 DEF ReclaimState, ReaderState
    <3>2. reader.t \in Nat /\ reclaim.t \in Nat /\ reader.t < reclaim.t
      BY <2>2, <2>4 DEF ReclaimState, ReaderState, Outwaits
    <3> QED  BY <3>1, <3>2
  <2> QED  BY <2>1, <2>3, <2>4 DEF Outwaits
<1>10. ASSUME NEW m \in Messages, FinishRead(m)
       PROVE  Outwaits'
  <2>1. ReleaseSlots(1) /\ reader' = reader
    BY <1>10 DEF FinishRead
  <2> QED  BY <2>1, ReaderOutwaited
<1>11. ASSUME NEW m \in Messages, FinishReclaim(m)
       PROVE  Outwaits'
  <2>1. reclaim' = reclaim /\ reclaiming # {}
    BY <1>11 DEF FinishReclaim
  <2> QED  BY <2>1 DEF Outwaits, Inv, Reserved
<1>12. ASSUME Cancel \/ (\E m \in Messages : Send(m) \/ Age(m)) \/ UNCHANGED vars
       PROVE  UNCHANGED <<free, reader, reclaim>>
  BY <1>12 DEF Cancel, Send, Age, vars
<1> QED  BY <1>1, <1>2, <1>3, <1>4, <1>5, <1>6, <1>7, <1>8, <1>9, <1>10, <1>11, <1>12
         DEF Next, Reader, Reclaimer, Finish

(* Where the cap of reclaimReserveWait does not cut the sum of the pause   *)
(* and the blocking read, a takeover is skipped only when messages hold    *)
(* every slot: the loop of Run cannot starve the reclaim loop.             *)
THEOREM SkipsOnlyWhenBusy ==
    ASSUME Sleep + Block <= MaxWait
    PROVE  Spec => SkippedOnlyWhenBusy
<1>1. Init => Outwaits
  BY DEF Init, Outwaits
<1>2. Inv /\ Outwaits /\ [Next]_vars => Outwaits'
  BY OutwaitsStep
<1>3. Inv /\ Outwaits /\ [Next]_vars =>
        [ReclaimSkipped /\ ~cancelled =>
            Cardinality(reading) + Cardinality(reclaiming) = PoolSize]_vars
  <2> SUFFICES ASSUME Inv, Outwaits, ReclaimSkipped, ~cancelled
               PROVE  Cardinality(reading) + Cardinality(reclaiming) = PoolSize
    OBVIOUS
  <2>1. reclaim.pc = "wait" /\ reclaim.t = 0
    BY DEF ReclaimSkipped
  <2>2. reclaim.held = 0
    BY <2>1 DEF Inv, Reserved
  <2>3. reader.held = 0
    <3>1. reader.t \in Nat
      BY SlotAssumption DEF Inv, TypeOK
    <3>2. reader.pc # "read"
      BY <2>1, <3>1 DEF Outwaits
    <3> QED  BY <3>2 DEF Inv, Reserved
  <2>4. free = 0
    BY <2>1 DEF Outwaits
  <2> QED  BY <2>2, <2>3, <2>4, Counts
<1> QED  BY <1>1, <1>2, <1>3, Inductive, PTL DEF Spec, SkippedOnlyWhenBusy
=============================================================================
