---- MODULE FrameRing ----
(***************************************************************************)
(* The bounded history: include/rollback_lab/netcode/frame_ring.hpp.       *)
(* A ring has Capacity slots (kHistoryCapacity, 256).  A frame lives in    *)
(* slot frame % Capacity, and whatever frame was there before is lost.     *)
(***************************************************************************)
EXTENDS FrameNumber

CONSTANT Capacity

(* 256 divides 2^32: two frames that share a slot are at least Capacity    *)
(* apart even across the wrap.                                             *)
ASSUME CapacityAssumption ==
  /\ Capacity \in Nat \ {0}
  /\ Capacity < Modulus
  /\ Modulus % Capacity = 0

(* No frame: the slot's valid flag is unset, or an optional is empty. *)
NoFrame == -1

EmptySlot == [frame |-> NoFrame]

Slots == 0 .. Capacity - 1

RingOf(Values) ==
  [Slots -> {EmptySlot} \union [frame : FrameNumbers, value : Values]]

EmptyRing == [slot \in Slots |-> EmptySlot]

RingIndex(frame) == frame % Capacity

Put(ring, frame, value) ==
  [ring EXCEPT ![RingIndex(frame)] = [frame |-> frame, value |-> value]]

(* Put every frame of a table in which no two frames share a slot. *)
PutAll(ring, table) ==
  [slot \in Slots |->
    IF \E frame \in DOMAIN table : RingIndex(frame) = slot
    THEN LET frame == CHOOSE f \in DOMAIN table : RingIndex(f) = slot
         IN  [frame |-> frame, value |-> table[frame]]
    ELSE ring[slot]]

Contains(ring, frame) == ring[RingIndex(frame)].frame = frame

(* The value of a frame that the ring contains. *)
Get(ring, frame) == ring[RingIndex(frame)].value
====
