---- MODULE TransportCalls ----
(***************************************************************************)
(* One SeededTransport under any order of send and deliver as time passes. *)
(***************************************************************************)
EXTENDS SeededTransport

CONSTANTS
  Sizes,        \* the sizes of the packets sent
  SendLimit     \* bound: sends

ASSUME CallsAssumption == Sizes \subseteq Nat

VARIABLES
  transport,
  now,          \* the tick the caller passes
  refused,      \* the sends that reported an error
  received      \* the deliveries so far

vars == <<transport, now, refused, received>>

Init ==
  /\ transport = NewTransport
  /\ now = 0
  /\ refused = <<>>
  /\ received = {}

CallSend(size, draw) ==
  LET sent == Send(transport, [size |-> size], now, draw)
  IN  /\ transport.metrics.sent < SendLimit
      /\ transport' = sent.transport
      /\ refused' = IF sent.error = "ok" THEN refused
                     ELSE Append(refused, [size |-> size,
                                           copies |-> IF draw.duplicate THEN 2 ELSE 1])
      /\ UNCHANGED <<now, received>>

CallDeliver ==
  /\ transport' = Deliver(transport, now)
  /\ received' = received \union
       {[copy |-> p, at |-> now] : p \in TakenFrom(transport, now)}
  /\ UNCHANGED <<now, refused>>

Tick ==
  /\ now < LastTick
  /\ now' = now + 1
  /\ UNCHANGED <<transport, refused, received>>

Next ==
  \/ \E size \in Sizes, draw \in Draws : CallSend(size, draw)
  \/ CallDeliver
  \/ Tick

Spec == Init /\ [][Next]_vars

-----------------------------------------------------------------------------
(* Properties *)

(* No packet vanishes and none appears: what was sent, and every copy that *)
(* duplication added, was delivered, lost, dropped or refused, or is in    *)
(* the queue, and queued_bytes_ is what the queue holds (send, deliver and *)
(* ensure_capacity each update a part of the counters).  The queue keeps   *)
(* to both its limits.                                                     *)
PacketsAreConserved ==
  LET m == transport.metrics
  IN  /\ m.sent + m.duplicated =
           m.delivered + m.loss + m.overflow + m.age + Len(refused) + Cardinality(transport.queue)
      /\ transport.bytes = BytesOf(transport.queue)
      /\ transport.bytes <= MaxQueueBytes /\ Cardinality(transport.queue) <= MaxQueuePackets

(* With drop_oldest and percentages that are percentages a send is refused *)
(* only if the packet is too large for a packet, or it and its copy would  *)
(* not fit an empty queue (ensure_capacity has then emptied the queue for  *)
(* nothing).                                                               *)
RefusedOnlyWhatNeverFits ==
  [][DropsOldest /\ ~ InvalidPercent =>
       \A i \in (DOMAIN refused') \ (DOMAIN refused) :
         LET bytes == refused'[i].size * refused'[i].copies
         IN  \/ refused'[i].size > MaxPacketBytes
             \/ transport'.queue = {} /\ bytes > MaxQueueBytes
             \/ transport'.queue = {} /\ refused'[i].copies > MaxQueuePackets]_vars

(* The byte budget lets a packet overtake one that is due before it only   *)
(* if it is smaller: of two packets of one size the later one never gets   *)
(* the budget that the earlier one was refused.                            *)
OnlySmallerOvertakes ==
  [][\A r \in received' \ received, p \in transport'.queue :
       p.scheduled <= now /\ p.scheduled < r.copy.scheduled => r.copy.size < p.size]_vars

(* A copy arrives once, not before the least latency has passed (or the    *)
(* last tick has come) and not after its age.                              *)
DeliveredInTime ==
  /\ \A r \in received :
       /\ r.at >= Min({r.copy.enqueued + Latency - Jitter, LastTick})
       /\ r.at <= r.copy.enqueued + MaxPacketAge
  /\ \A r, s \in received : r.copy.ordinal = s.copy.ordinal => r = s
====
