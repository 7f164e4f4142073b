---- MODULE SeededTransport ----
(***************************************************************************)
(* The class SeededTransport (src/transport/seeded_transport.cpp), the     *)
(* network of the in-process scenarios, as operators on a record with the  *)
(* fields of the class.                                                    *)
(*                                                                         *)
(* Data abstractions:                                                      *)
(*  - the queue is a set: deliver sorts it by a total order before it      *)
(*    looks at it, and the overflow policy goes by ordinals;               *)
(*  - what the generator would draw is an argument, a record of Draws;     *)
(*  - a packet is its payload and its size in bytes.                       *)
(***************************************************************************)
EXTENDS Integers, Sequences, FiniteSetsExt

CONSTANTS
  Latency,           \* config.base_latency_ticks
  Jitter,            \* config.jitter_ticks
  LossPercent,       \* config.loss_percent
  ReorderPercent,    \* config.reorder_percent
  DuplicatePercent,  \* config.duplicate_percent
  BurstPercent,      \* config.burst_loss_percent
  MaxQueuePackets,   \* config.max_queue_packets
  MaxQueueBytes,     \* config.max_queue_bytes
  Bandwidth,         \* config.bandwidth_bytes_per_tick
  MaxPacketAge,      \* config.max_packet_age_ticks
  DropsOldest,       \* config.overflow_policy = drop_oldest
  MaxPacketBytes,    \* kMaxPacketBytes, 1200
  LastTick           \* the largest LogicalTick, 2^32 - 1

ASSUME TransportAssumption ==
  /\ {Latency, Jitter, LossPercent, ReorderPercent, DuplicatePercent, BurstPercent,
      MaxQueuePackets, MaxQueueBytes, Bandwidth, MaxPacketAge, MaxPacketBytes,
      LastTick} \subseteq Nat
  /\ DropsOldest \in BOOLEAN

NewTransport ==
  [queue |-> {}, bytes |-> 0, ordinal |-> 0, burst |-> 0,
   metrics |-> [sent |-> 0, delivered |-> 0, loss |-> 0, overflow |-> 0, age |-> 0,
                duplicated |-> 0, reordered |-> 0]]

BytesOf(packets) == MapThenSumSet(LAMBDA packet : packet.size, packets)

SendResult(t, error) == [transport |-> t, error |-> error]

-----------------------------------------------------------------------------
(* What the generator may draw *)

(* chance: the answers for a percentage. *)
Chance(percent) ==
  IF percent = 0 THEN {FALSE} ELSE {draw < percent : draw \in 0 .. 99}

(* How long a burst of losses the packet starts, 0 for none. *)
BurstDraws == UNION {IF starts THEN 1 .. 3 ELSE {0} : starts \in Chance(BurstPercent)}

(* The reorder rank of a copy, 0 for none. *)
RankDraws ==
  UNION {IF reordered THEN 1 .. Max({2, Jitter + 2}) ELSE {0} :
           reordered \in Chance(ReorderPercent)}

CopyDraws == [jitter : 0 .. 2 * Jitter, rank : RankDraws]

Draws ==
  [burst : BurstDraws, loss : Chance(LossPercent), duplicate : Chance(DuplicatePercent),
   copies : [1 .. 2 -> CopyDraws]]

-----------------------------------------------------------------------------
(* send *)

Exceeds(t, count, bytes) ==
  \/ Cardinality(t.queue) + count > MaxQueuePackets
  \/ t.bytes + bytes > MaxQueueBytes

(* The queue without its k oldest packets. *)
WithoutOldest(t, k) ==
  LET oldest == {p \in t.queue : Cardinality({q \in t.queue : q.ordinal < p.ordinal}) < k}
  IN  [t EXCEPT !.queue = @ \ oldest, !.bytes = @ - BytesOf(oldest),
                !.metrics.overflow = @ + k]

(* Mutant: the bytes of what is dropped stay counted. *)
EnsureCapacityKeepingBytes(t, count, bytes) ==
  IF ~ Exceeds(t, count, bytes) THEN SendResult(t, "ok")
  ELSE SendResult([WithoutOldest(t, Cardinality(t.queue)) EXCEPT !.bytes = t.bytes],
                  IF bytes <= MaxQueueBytes THEN "ok" ELSE "queue_overflow")

(* Mutant: one packet is dropped for one that comes, whatever their sizes. *)
EnsureCapacityOneForOne(t, count, bytes) ==
  IF ~ Exceeds(t, count, bytes) THEN SendResult(t, "ok")
  ELSE LET room == WithoutOldest(t, Min({1, Cardinality(t.queue)}))
       IN  SendResult(room, IF Exceeds(room, count, bytes) THEN "queue_overflow" ELSE "ok")

(* ensure_capacity: as few of the oldest packets as it takes are dropped,  *)
(* all of them where that is still not enough.                             *)
EnsureCapacity(t, count, bytes) ==
  LET queued  == Cardinality(t.queue)
      Enough(k) == ~ Exceeds(WithoutOldest(t, k), count, bytes)
      dropped == Min({queued} \union {k \in 0 .. queued : Enough(k)})
  IN  IF Enough(0) THEN SendResult(t, "ok")
      ELSE IF ~ DropsOldest THEN SendResult(t, "queue_overflow")
      ELSE SendResult(WithoutOldest(t, dropped),
                      IF Enough(dropped) THEN "ok" ELSE "queue_overflow")

Delay(draw) == Max({0, Latency + draw.jitter - Jitter}) + draw.rank

(* Mutant: the tick wraps instead of stopping at the largest one. *)
ScheduledForWrapping(now, draw) == (now + Delay(draw)) % (LastTick + 1)

(* The tick a copy is scheduled for. *)
ScheduledFor(now, draw) == Min({now + Delay(draw), LastTick})

(* A copy in the queue. *)
Scheduled(packet, now, draw, ordinal, duplicate) ==
  [packet |-> packet, size |-> packet.size, enqueued |-> now,
   scheduled |-> ScheduledFor(now, draw), rank |-> draw.rank,
   ordinal |-> ordinal, duplicate |-> duplicate]

Enqueue(t, packet, now, draw) ==
  LET copies == IF draw.duplicate THEN 1 .. 2 ELSE {1}
      added  == {Scheduled(packet, now, draw.copies[i], t.ordinal + i - 1, i = 2) :
                   i \in copies}
  IN  [t EXCEPT !.queue = @ \union added,
                !.bytes = @ + BytesOf(added),
                !.ordinal = @ + Cardinality(copies),
                !.metrics.reordered =
                   @ + Cardinality({i \in copies : draw.copies[i].rank > 0}),
                !.metrics.duplicated = IF draw.duplicate THEN @ + 1 ELSE @]

(* The packet is lost in a burst, in the first packet of one, or alone. *)
Lost(t, draw) == t.burst > 0 \/ draw.burst > 0 \/ draw.loss

Burst(t, draw) == IF t.burst > 0 THEN t.burst - 1 ELSE draw.burst

InvalidPercent == Max({LossPercent, ReorderPercent, DuplicatePercent, BurstPercent}) > 100

Send(t, packet, now, draw) ==
  LET counted  == [t EXCEPT !.metrics.sent = @ + 1]
      drawn    == [counted EXCEPT !.burst = Burst(t, draw)]
      copies   == IF draw.duplicate THEN 2 ELSE 1
      room     == EnsureCapacity(drawn, copies, packet.size * copies)
  IN  IF packet.size > MaxPacketBytes THEN SendResult(counted, "invalid_length")
      ELSE IF InvalidPercent THEN SendResult(counted, "invalid_argument")
      ELSE IF Lost(t, draw)
      THEN SendResult([drawn EXCEPT !.metrics.loss = @ + 1], "ok")
      ELSE IF room.error # "ok" THEN room
      ELSE SendResult(Enqueue(room.transport, packet, now, draw), "ok")

-----------------------------------------------------------------------------
(* deliver *)

(* Mutant: packets go in the order they were sent in. *)
BeforeByOrdinal(p, q) == p.ordinal < q.ordinal

Before(p, q) ==
  \/ p.scheduled < q.scheduled
  \/ p.scheduled = q.scheduled /\ p.rank < q.rank
  \/ p.scheduled = q.scheduled /\ p.rank = q.rank /\ p.ordinal < q.ordinal

Expired(t, now) ==
  {p \in t.queue : (now - p.enqueued) % (LastTick + 1) > MaxPacketAge}

(* What deliver takes: of the packets that are due, in their order, those  *)
(* that fit what the ones taken before leave of the tick's budget.         *)
TakenFrom(t, now) ==
  LET due == {p \in t.queue \ Expired(t, now) : p.scheduled <= now}
      taken[p \in due] ==
        p.size + BytesOf({q \in due : Before(q, p) /\ taken[q]}) <= Bandwidth
  IN  {p \in due : taken[p]}

(* The deliveries, in the order in which they are handed over. *)
Deliverable(t, now) ==
  LET taken == TakenFrom(t, now)
  IN  CHOOSE s \in [1 .. Cardinality(taken) -> taken] :
        \A i, j \in DOMAIN s : i < j => Before(s[i], s[j])

Deliver(t, now) ==
  LET expired   == Expired(t, now)
      delivered == TakenFrom(t, now)
  IN  [t EXCEPT !.queue = @ \ (expired \union delivered),
                !.bytes = @ - BytesOf(expired \union delivered),
                !.metrics.age = @ + Cardinality(expired),
                !.metrics.delivered = @ + Cardinality(delivered)]
====
