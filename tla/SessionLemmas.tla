---- MODULE SessionLemmas ----
(***************************************************************************)
(* What each method of RollbackSession does to a sound session, for every  *)
(* value of the constants and whoever calls it.                            *)
(*                                                                         *)
(* Sound(s) is what a session s keeps between calls.  Each method has a    *)
(* lemma of its own: a sound session stays sound under UpdateConfirmation, *)
(* SimulateNext, FlushCorrections, Advance and IngestRemote.  The lemmas   *)
(* leave to the callers how many frames they play and how far ahead remote *)
(* inputs come: less than half the number space, and so that a correction  *)
(* within the window is still in the rings.                                *)
(***************************************************************************)
EXTENDS RollbackSession, WellFoundedInduction, TLAPS

-----------------------------------------------------------------------------
(* Frame numbers and rings.  Frames are located by their distance from an  *)
(* origin o; as long as the distances in play stay below half of Modulus,  *)
(* the modular order is the order of the distances.                        *)

(* The least-number principle, for a set. *)
LEMMA LeastElement ==
  ASSUME NEW S \in SUBSET Nat, S # {}
  PROVE  \E m \in S : \A k \in S : m <= k
<1> DEFINE R == {ss \in Nat \X Nat : ss[1] < ss[2]}
<1>1. IsWellFoundedOn(R, Nat)
  BY NatLessThanWellFounded DEF OpToRel
<1>2. PICK m \in S : \A k \in S : ~ (<<k, m>> \in R)
  BY <1>1, WFMin
<1>3. ASSUME NEW k \in S PROVE m <= k
  <2>1. <<k, m>> \in Nat \X Nat
    OBVIOUS
  <2>2. k < m => <<k, m>> \in R
    BY <2>1
  <2>3. QED
    BY <2>1, <2>2, <1>2
<1>4. QED
  BY <1>3

-----------------------------------------------------------------------------
(* Modular arithmetic *)

(* A difference of two frame numbers wraps at most once. *)
LEMMA ModOfDifference ==
  ASSUME NEW x \in Int, -Modulus < x, x < Modulus
  PROVE  x % Modulus = IF x < 0 THEN x + Modulus ELSE x
BY ModulusAssumption

(* So does a sum. *)
LEMMA ModOfSum ==
  ASSUME NEW x \in Int, 0 <= x, x < 2 * Modulus
  PROVE  x % Modulus = IF x < Modulus THEN x ELSE x - Modulus
BY ModulusAssumption

(* frame_distance without the remainder. *)
LEMMA DistanceValue ==
  ASSUME NEW f \in FrameNumbers, NEW g \in FrameNumbers
  PROVE  /\ FrameDistance(f, g) = IF f <= g THEN g - f ELSE g - f + Modulus
         /\ FrameDistance(f, g) \in FrameNumbers
<1>1. /\ g - f \in Int
      /\ -Modulus < g - f
      /\ g - f < Modulus
  BY ModulusAssumption DEF FrameNumbers
<1>2. (g - f) % Modulus = IF g - f < 0 THEN g - f + Modulus ELSE g - f
  BY <1>1, ModOfDifference
<1>3. QED
  BY <1>2, ModulusAssumption DEF FrameDistance, FrameNumbers

(* Stepping forward less than Modulus frames wraps at most once. *)
LEMMA OffsetValue ==
  ASSUME NEW f \in FrameNumbers, NEW k \in FrameNumbers
  PROVE  /\ FrameOffset(f, k) = IF f + k < Modulus THEN f + k ELSE f + k - Modulus
         /\ FrameOffset(f, k) \in FrameNumbers
<1> DEFINE x == f + k
<1>1. x \in Int /\ 0 <= x /\ x < 2 * Modulus
  BY ModulusAssumption DEF FrameNumbers
<1> HIDE DEF x
<1>2. x % Modulus = IF x < Modulus THEN x ELSE x - Modulus
  BY <1>1, ModOfSum
<1> USE DEF x
<1>3. QED
  BY <1>2, ModulusAssumption DEF FrameOffset, FrameNumbers

(* Stepping back wraps at most once too. *)
LEMMA OffsetBack ==
  ASSUME NEW f \in FrameNumbers, NEW k \in FrameNumbers
  PROVE  /\ FrameOffset(f, -k) \in FrameNumbers
         /\ FrameOffset(f, -k) = IF k <= f THEN f - k ELSE f - k + Modulus
<1>1. f - k \in Int /\ -Modulus < f - k /\ f - k < Modulus
  BY ModulusAssumption DEF FrameNumbers
<1>2. (f - k) % Modulus = IF f - k < 0 THEN f - k + Modulus ELSE f - k
  BY <1>1, ModOfDifference
<1>3. f + -k = f - k
  BY DEF FrameNumbers
<1>4. QED
  BY <1>2, <1>3, ModulusAssumption DEF FrameOffset, FrameNumbers

(* The distance between two frames from their distances to the origin. *)
LEMMA DistanceFromOrigin ==
  ASSUME NEW o \in FrameNumbers, NEW f \in FrameNumbers, NEW g \in FrameNumbers
  PROVE  /\ FrameDistance(f, g) =
              IF FrameDistance(o, f) <= FrameDistance(o, g)
              THEN FrameDistance(o, g) - FrameDistance(o, f)
              ELSE FrameDistance(o, g) - FrameDistance(o, f) + Modulus
         /\ FrameDistance(o, f) = FrameDistance(o, g) => f = g
<1>1. FrameDistance(o, f) = IF o <= f THEN f - o ELSE f - o + Modulus
  BY DistanceValue
<1>2. FrameDistance(o, g) = IF o <= g THEN g - o ELSE g - o + Modulus
  BY DistanceValue
<1>3. FrameDistance(f, g) = IF f <= g THEN g - f ELSE g - f + Modulus
  BY DistanceValue
<1>4. QED
  BY <1>1, <1>2, <1>3, ModulusAssumption DEF FrameNumbers

(* Stepping forward adds to the distance, until it reaches the origin. *)
LEMMA OffsetFromOrigin ==
  ASSUME NEW o \in FrameNumbers, NEW f \in FrameNumbers, NEW k \in FrameNumbers,
         FrameDistance(o, f) + k < Modulus
  PROVE  FrameDistance(o, FrameOffset(f, k)) = FrameDistance(o, f) + k
<1> DEFINE h == FrameOffset(f, k)
<1>1. /\ h \in FrameNumbers
      /\ h = IF f + k < Modulus THEN f + k ELSE f + k - Modulus
  BY OffsetValue
<1>2. FrameDistance(o, f) = IF o <= f THEN f - o ELSE f - o + Modulus
  BY DistanceValue
<1>3. FrameDistance(o, h) = IF o <= h THEN h - o ELSE h - o + Modulus
  BY <1>1, DistanceValue
<1> HIDE DEF h
<1>4. FrameDistance(o, h) = FrameDistance(o, f) + k
  BY <1>1, <1>2, <1>3, ModulusAssumption DEF FrameNumbers
<1>5. QED
  BY <1>4 DEF h

(* Stepping by a distance arrives. *)
LEMMA OffsetByDistance ==
  ASSUME NEW f \in FrameNumbers, NEW g \in FrameNumbers
  PROVE  FrameOffset(f, FrameDistance(f, g)) = g
<1> DEFINE d == FrameDistance(f, g)
<1>1. /\ d \in FrameNumbers
      /\ d = IF f <= g THEN g - f ELSE g - f + Modulus
  BY DistanceValue
<1> HIDE DEF d
<1>2. FrameOffset(f, d) = IF f + d < Modulus THEN f + d ELSE f + d - Modulus
  BY <1>1, OffsetValue
<1>3. FrameOffset(f, d) = g
  BY <1>1, <1>2, ModulusAssumption DEF FrameNumbers
<1>4. QED
  BY <1>3 DEF d

(* Within half of the number space frame_before compares distances. *)
LEMMA BeforeFromOrigin ==
  ASSUME NEW o \in FrameNumbers, NEW f \in FrameNumbers, NEW g \in FrameNumbers,
         2 * FrameDistance(o, f) < Modulus, 2 * FrameDistance(o, g) < Modulus
  PROVE  FrameBefore(f, g) <=> FrameDistance(o, f) < FrameDistance(o, g)
<1>1. FrameDistance(o, f) \in FrameNumbers /\ FrameDistance(o, g) \in FrameNumbers
  BY DistanceValue
<1>2. FrameDistance(f, g) =
        IF FrameDistance(o, f) <= FrameDistance(o, g)
        THEN FrameDistance(o, g) - FrameDistance(o, f)
        ELSE FrameDistance(o, g) - FrameDistance(o, f) + Modulus
  BY DistanceFromOrigin
<1>3. QED
  BY <1>1, <1>2, ModulusAssumption DEF FrameBefore, FrameNumbers

-----------------------------------------------------------------------------
(* Slots *)

(* A nonzero multiple of Capacity is at least Capacity away from zero. *)
LEMMA MultipleOfCapacity ==
  ASSUME NEW x \in Int, x # 0, Capacity * x < Capacity
  PROVE  Capacity * x <= -Capacity
<1>1. x >= 1 => Capacity * x >= Capacity
  BY CapacityAssumption
<1>2. x <= -1 => Capacity * x <= -Capacity
  BY CapacityAssumption
<1>3. QED
  BY <1>1, <1>2, CapacityAssumption

(* Multiplication by Capacity distributes over a difference and a sum. *)
LEMMA CapacityDistributes ==
  ASSUME NEW x \in Int, NEW y \in Int
  PROVE  /\ Capacity * x - Capacity * y = Capacity * (x - y)
         /\ Capacity * x + Capacity * y = Capacity * (x + y)
BY CapacityAssumption

(* Two frames that share a slot are at least Capacity apart. *)
LEMMA SharedSlot ==
  ASSUME NEW o \in FrameNumbers, NEW f \in FrameNumbers, NEW g \in FrameNumbers,
         f # g, RingIndex(f) = RingIndex(g),
         FrameDistance(o, f) <= FrameDistance(o, g)
  PROVE  FrameDistance(o, g) - FrameDistance(o, f) >= Capacity
<1> DEFINE d == FrameDistance(o, g) - FrameDistance(o, f)
           m == Modulus \div Capacity
           e == (g \div Capacity) - (f \div Capacity)
<1>1. f \in Nat /\ g \in Nat /\ Modulus \in Nat
  BY ModulusAssumption DEF FrameNumbers
<1>2. /\ f = Capacity * (f \div Capacity) + (f % Capacity)
      /\ g = Capacity * (g \div Capacity) + (g % Capacity)
      /\ f \div Capacity \in Int /\ g \div Capacity \in Int
  BY <1>1, CapacityAssumption
<1>3. Modulus = Capacity * m /\ m \in Int
  BY <1>1, CapacityAssumption
<1>4. g - f = Capacity * e /\ e \in Int
  <2>1. g % Capacity = f % Capacity
    BY DEF RingIndex
  <2>2. Capacity * (g \div Capacity) - Capacity * (f \div Capacity) = Capacity * e
    BY <1>2, CapacityDistributes
  <2> DEFINE a == Capacity * (f \div Capacity)
             b == Capacity * (g \div Capacity)
             r == f % Capacity
  <2>3. a \in Int /\ b \in Int /\ r \in Int
    BY <1>1, <1>2, CapacityAssumption
  <2>4. f = a + r /\ g = b + r
    BY <1>2, <2>1
  <2> HIDE DEF a, b, r
  <2>5. g - f = b - a
    BY <2>3, <2>4
  <2>6. QED
    BY <1>2, <2>2, <2>5 DEF a, b
<1>5. d # 0 /\ d >= 0
  BY DistanceFromOrigin, DistanceValue, ModulusAssumption DEF FrameNumbers
<1>6. d = FrameDistance(f, g)
  BY DistanceFromOrigin
<1>7. d = g - f \/ d = g - f + Modulus
  BY <1>6, DistanceValue
<1>8. PICK x \in {e, e + m} : d = Capacity * x
  BY <1>3, <1>4, <1>7, CapacityDistributes
<1>9. x \in Int /\ x # 0
  BY <1>3, <1>4, <1>5, <1>8, CapacityAssumption
<1>10. QED
  BY <1>5, <1>8, <1>9, MultipleOfCapacity, CapacityAssumption

(* Adding a multiple of Capacity does not change the slot. *)
LEMMA SameRemainder ==
  ASSUME NEW x \in Int, NEW y \in Int, NEW n \in Int, y = x + Capacity * n
  PROVE  y % Capacity = x % Capacity
<1> DEFINE p == x \div Capacity
           q == y \div Capacity
           r == x % Capacity
           t == y % Capacity
<1>1. /\ x = Capacity * p + r /\ y = Capacity * q + t
      /\ p \in Int /\ q \in Int
      /\ r \in 0 .. Capacity - 1 /\ t \in 0 .. Capacity - 1
  BY CapacityAssumption
<1> HIDE DEF p, q, r, t
<1>2. Capacity * q - Capacity * p = Capacity * (q - p)
  BY <1>1, CapacityDistributes
<1>3. Capacity * (q - p) - Capacity * n = Capacity * (q - p - n)
  BY <1>1, CapacityDistributes
<1> DEFINE a == Capacity * p
           b == Capacity * q
           c == Capacity * n
           z == q - p - n
           d == Capacity * z
<1>4. a \in Int /\ b \in Int /\ c \in Int /\ d \in Int /\ z \in Int
  BY <1>1, CapacityAssumption
<1>5. /\ x = a + r /\ y = b + t /\ y = x + c
      /\ b - a - c = d
  BY <1>1, <1>2, <1>3
<1>6. z # 0 /\ d < Capacity => d <= -Capacity
  BY <1>4, MultipleOfCapacity
<1>7. z = 0 => d = 0
  BY CapacityAssumption
<1> HIDE DEF a, b, c, d, z
<1>8. d = r - t
  BY <1>1, <1>4, <1>5
<1>9. d < Capacity /\ d > -Capacity
  BY <1>1, <1>8, CapacityAssumption
<1>10. d = 0
  BY <1>4, <1>6, <1>7, <1>9, CapacityAssumption
<1>11. r = t
  BY <1>1, <1>8, <1>10
<1>12. QED
  BY <1>11 DEF r, t

(* Capacity is a proper divisor of Modulus: at most half of it. *)
LEMMA CapacityIsHalf == 2 * Capacity <= Modulus
<1> DEFINE m == Modulus \div Capacity
           d == Capacity * (m - 1)
<1>1. Modulus = Capacity * m /\ m \in Int
  BY CapacityAssumption, ModulusAssumption
<1>2. Capacity * m - Capacity * 1 = Capacity * (m - 1)
  BY <1>1, CapacityDistributes
<1>3. d = Modulus - Capacity
  BY <1>1, <1>2, CapacityAssumption
<1>4. m - 1 # 0 /\ d < Capacity => d <= -Capacity
  BY <1>1, MultipleOfCapacity
<1>5. m - 1 = 0 => d = 0
  BY CapacityAssumption
<1> HIDE DEF d, m
<1>6. QED
  BY <1>1, <1>3, <1>4, <1>5, CapacityAssumption, ModulusAssumption

(* Capacity frames on, a frame's slot comes round again. *)
LEMMA SlotComesRound ==
  ASSUME NEW f \in FrameNumbers
  PROVE  RingIndex(FrameOffset(f, Capacity)) = RingIndex(f)
<1> DEFINE g == FrameOffset(f, Capacity)
           m == Modulus \div Capacity
<1>1. Modulus = Capacity * m /\ m \in Int /\ f \in Int
  BY CapacityAssumption, ModulusAssumption DEF FrameNumbers
<1>2. g = IF f + Capacity < Modulus THEN f + Capacity ELSE f + Capacity - Modulus
  <2>1. Capacity \in FrameNumbers
    BY CapacityAssumption, ModulusAssumption DEF FrameNumbers
  <2>2. QED
    BY <2>1, OffsetValue
<1>3. Capacity * 1 - Capacity * m = Capacity * (1 - m)
  BY <1>1, CapacityDistributes
<1> HIDE DEF g, m
<1>4. g = f + Capacity * 1 \/ g = f + Capacity * (1 - m)
  BY <1>1, <1>2, <1>3, CapacityAssumption
<1>5. g \in Int /\ 1 - m \in Int
  BY <1>1, <1>2, CapacityAssumption, ModulusAssumption
<1>6. g % Capacity = f % Capacity
  BY <1>1, <1>4, <1>5, SameRemainder
<1>7. QED
  BY <1>6 DEF RingIndex, g

-----------------------------------------------------------------------------
(* Rings *)

(* A frame's slot exists. *)
LEMMA IndexInSlots ==
  ASSUME NEW f \in FrameNumbers
  PROVE  RingIndex(f) \in Slots
BY CapacityAssumption, ModulusAssumption DEF RingIndex, Slots, FrameNumbers

(* What a ring returns is a value that was put there. *)
LEMMA GetType ==
  ASSUME NEW V, NEW ring \in RingOf(V), NEW f \in FrameNumbers, Contains(ring, f)
  PROVE  Get(ring, f) \in V
<1>1. ring[RingIndex(f)] \in {EmptySlot} \union [frame : FrameNumbers, value : V]
  BY IndexInSlots DEF RingOf
<1>2. ring[RingIndex(f)] # EmptySlot
  BY DEF Contains, EmptySlot, NoFrame, FrameNumbers
<1>3. QED
  BY <1>1, <1>2 DEF Get

(* The empty ring contains nothing. *)
LEMMA EmptyContainsNothing ==
  ASSUME NEW V
  PROVE  /\ EmptyRing \in RingOf(V)
         /\ \A f \in FrameNumbers : ~ Contains(EmptyRing, f)
<1>1. EmptyRing \in RingOf(V)
  BY DEF EmptyRing, RingOf
<1>2. ASSUME NEW f \in FrameNumbers PROVE ~ Contains(EmptyRing, f)
  <2>1. EmptyRing[RingIndex(f)].frame = NoFrame
    BY IndexInSlots DEF EmptyRing, EmptySlot
  <2>2. QED
    BY <2>1 DEF Contains, NoFrame, FrameNumbers
<1>3. QED
  BY <1>1, <1>2

(* put replaces its slot and leaves the others alone. *)
LEMMA PutFacts ==
  ASSUME NEW V, NEW ring \in RingOf(V), NEW f \in FrameNumbers, NEW v \in V
  PROVE  /\ Put(ring, f, v) \in RingOf(V)
         /\ Contains(Put(ring, f, v), f)
         /\ Get(Put(ring, f, v), f) = v
         /\ \A g \in FrameNumbers \ {f} :
              /\ Contains(Put(ring, f, v), g) <=>
                   Contains(ring, g) /\ RingIndex(g) # RingIndex(f)
              /\ Contains(Put(ring, f, v), g) =>
                   Get(Put(ring, f, v), g) = Get(ring, g)
<1> DEFINE new == Put(ring, f, v)
<1>1. RingIndex(f) \in Slots
  BY IndexInSlots
<1>2. new \in RingOf(V)
  BY <1>1 DEF Put, RingOf
<1>3. new[RingIndex(f)] = [frame |-> f, value |-> v]
  BY <1>1 DEF Put, RingOf
<1>4. ASSUME NEW g \in FrameNumbers \ {f}
      PROVE  /\ Contains(new, g) <=> Contains(ring, g) /\ RingIndex(g) # RingIndex(f)
             /\ Contains(new, g) => Get(new, g) = Get(ring, g)
  <2>1. CASE RingIndex(g) = RingIndex(f)
    <3>1. new[RingIndex(g)].frame = f
      BY <1>3, <2>1
    <3>2. QED
      BY <2>1, <3>1 DEF Contains
  <2>2. CASE RingIndex(g) # RingIndex(f)
    <3>1. new[RingIndex(g)] = ring[RingIndex(g)]
      BY <2>2, IndexInSlots DEF Put, RingOf
    <3>2. QED
      BY <2>2, <3>1 DEF Contains, Get
  <2>3. QED
    BY <2>1, <2>2
<1>5. QED
  BY <1>2, <1>3, <1>4 DEF Contains, Get

(* So does putting a table whose frames have slots of their own. *)
LEMMA PutAllFacts ==
  ASSUME NEW V, NEW ring \in RingOf(V),
         NEW D \in SUBSET FrameNumbers, NEW table \in [D -> V],
         \A f, g \in D : RingIndex(f) = RingIndex(g) => f = g
  PROVE  /\ PutAll(ring, table) \in RingOf(V)
         /\ \A f \in D : /\ Contains(PutAll(ring, table), f)
                         /\ Get(PutAll(ring, table), f) = table[f]
         /\ \A g \in FrameNumbers \ D :
              /\ Contains(PutAll(ring, table), g) <=>
                   Contains(ring, g) /\ \A f \in D : RingIndex(f) # RingIndex(g)
              /\ Contains(PutAll(ring, table), g) =>
                   Get(PutAll(ring, table), g) = Get(ring, g)
<1> DEFINE new == PutAll(ring, table)
           At(slot) == CHOOSE f \in D : RingIndex(f) = slot
<1>1. DOMAIN table = D
  OBVIOUS
<1>2. ASSUME NEW slot \in Slots
      PROVE  new[slot] = IF \E f \in D : RingIndex(f) = slot
                         THEN [frame |-> At(slot), value |-> table[At(slot)]]
                         ELSE ring[slot]
  BY <1>1 DEF PutAll
<1>3. ASSUME NEW f \in D PROVE At(RingIndex(f)) = f
  OBVIOUS
<1>4. ASSUME NEW f \in D
      PROVE  new[RingIndex(f)] = [frame |-> f, value |-> table[f]]
  <2>1. RingIndex(f) \in Slots
    BY IndexInSlots
  <2> HIDE DEF At, new
  <2>2. QED
    BY <1>2, <1>3, <2>1
<1>5. new \in RingOf(V)
  <2>1. ASSUME NEW slot \in Slots
        PROVE  new[slot] \in {EmptySlot} \union [frame : FrameNumbers, value : V]
    <3>1. CASE \E f \in D : RingIndex(f) = slot
      <4>1. PICK f \in D : RingIndex(f) = slot
        BY <3>1
      <4>2. new[slot] = [frame |-> f, value |-> table[f]]
        BY <1>4, <4>1
      <4> HIDE DEF new
      <4>3. QED
        BY <4>2
    <3>2. CASE ~ \E f \in D : RingIndex(f) = slot
      <4>1. new[slot] = ring[slot]
        BY <1>2, <3>2
      <4> HIDE DEF new
      <4>2. QED
        BY <4>1 DEF RingOf
    <3>3. QED
      BY <3>1, <3>2
  <2>2. new = [slot \in Slots |-> new[slot]]
    BY DEF PutAll
  <2> HIDE DEF new
  <2>3. QED
    BY <2>1, <2>2 DEF RingOf
<1>6. ASSUME NEW g \in FrameNumbers \ D
      PROVE  /\ Contains(new, g) <=>
                  Contains(ring, g) /\ \A f \in D : RingIndex(f) # RingIndex(g)
             /\ Contains(new, g) => Get(new, g) = Get(ring, g)
  <2>1. RingIndex(g) \in Slots
    BY IndexInSlots
  <2>2. CASE \E f \in D : RingIndex(f) = RingIndex(g)
    <3>1. PICK f \in D : RingIndex(f) = RingIndex(g)
      BY <2>2
    <3>2. new[RingIndex(g)] = [frame |-> f, value |-> table[f]]
      BY <1>4, <3>1
    <3> HIDE DEF new
    <3>3. QED
      BY <2>2, <3>2 DEF Contains
  <2>3. CASE ~ \E f \in D : RingIndex(f) = RingIndex(g)
    <3>1. new[RingIndex(g)] = ring[RingIndex(g)]
      BY <1>2, <2>1, <2>3
    <3> HIDE DEF new
    <3>2. QED
      BY <2>3, <3>1 DEF Contains, Get
  <2>4. QED
    BY <2>2, <2>3
<1> HIDE DEF new
<1>7. ASSUME NEW f \in D PROVE Contains(new, f) /\ Get(new, f) = table[f]
  <2>1. new[RingIndex(f)] = [frame |-> f, value |-> table[f]]
    BY <1>4
  <2>2. QED
    BY <2>1 DEF Contains, Get
<1>8. /\ new \in RingOf(V)
      /\ \A f \in D : Contains(new, f) /\ Get(new, f) = table[f]
      /\ \A g \in FrameNumbers \ D :
           /\ Contains(new, g) <=>
                Contains(ring, g) /\ \A f \in D : RingIndex(f) # RingIndex(g)
           /\ Contains(new, g) => Get(new, g) = Get(ring, g)
  BY <1>5, <1>6, <1>7, Zenon
<1>9. QED
  BY <1>8, Zenon DEF new

-----------------------------------------------------------------------------
(* No frame overflows: what holds of the worlds the drivers start from. *)
SimulationIsTotal == \A world, pair : ~ SimulateFails(world, pair)

-----------------------------------------------------------------------------
(* The inductive invariant *)

(* Frames a session has simulated. *)
Elapsed(s) == Position(s.world.frame)

(* The first frames of a world's history. *)
Prefix(world, boundary) ==
  [frame  |-> boundary,
   inputs |-> [f \in FrameNumbers |->
                IF Position(f) < Position(boundary)
                THEN world.inputs[f] ELSE NoPair]]

(* Simulated frames have inputs, frames to come have none, and the number  *)
(* of frames keeps the order of frame numbers unambiguous.                 *)
WorldFits(s) ==
  /\ 2 * Elapsed(s) < Modulus
  /\ \A f \in FrameNumbers : Elapsed(s) <= Position(f) => s.world.inputs[f] = NoPair

(* The rings hold the last Capacity frames, on the timeline of the world. *)
HistoryFits(s) ==
  \A f \in FrameNumbers :
    Position(f) < Elapsed(s) /\ Elapsed(s) - Position(f) <= Capacity =>
      /\ Contains(s.snapshots, f)
      /\ Get(s.snapshots, f) = Prefix(s.world, f)
      /\ Contains(s.local, f)
      /\ Contains(s.used, f)
      /\ s.world.inputs[f] = MakePair(s, Get(s.local, f), Get(s.used, f))

HashesFit(s) ==
  \A b \in FrameNumbers :
    Contains(s.hashes, b) => /\ Position(b) <= Elapsed(s)
                             /\ Get(s.hashes, b) = Prefix(s.world, b)

SnapshotsFit(s) ==
  \A f \in FrameNumbers :
    Contains(s.snapshots, f) => /\ Position(f) < Elapsed(s)
                                /\ Get(s.snapshots, f) = Prefix(s.world, f)

(* Local and used inputs are of simulated frames only. *)
NothingAhead(s) ==
  \A f \in FrameNumbers :
    Contains(s.local, f) \/ Contains(s.used, f) => Position(f) < Elapsed(s)

(* The order of remote inputs is unambiguous too. *)
LeadFits(s) ==
  \A f \in FrameNumbers :
    Contains(s.remote, f) => 2 * Position(f) < Modulus

(* A misprediction that is known is not before the pending correction. *)
MistakesPending(s) ==
  \A f \in FrameNumbers :
    /\ Contains(s.used, f)
    /\ Contains(s.remote, f)
    /\ Get(s.used, f) # Get(s.remote, f)
    => s.dirty # NoFrame /\ Position(s.dirty) <= Position(f)

(* The pending correction is within reach and nothing after it confirmed. *)
DirtyFits(s) ==
  s.dirty # NoFrame =>
    /\ Position(s.dirty) < Elapsed(s)
    /\ Elapsed(s) - Position(s.dirty) <= MaxRollback
    /\ Elapsed(s) - Position(s.dirty) <= Capacity
    /\ Position(s.confirmed) <= Position(s.dirty)

(* A ring holds the frame, or a later one that has taken its slot. *)
Kept(ring, f) ==
  \E g \in FrameNumbers : /\ Contains(ring, g)
                          /\ RingIndex(g) = RingIndex(f)
                          /\ Position(f) <= Position(g)

(* Confirmed frames had their remote inputs, and these are still there     *)
(* unless a later one has displaced them.                                  *)
ConfirmedFits(s) ==
  /\ Position(s.confirmed) <= Elapsed(s)
  /\ \A f \in FrameNumbers :
       Position(f) < Position(s.confirmed) => Kept(s.remote, f)

Sound(s) ==
  /\ s \in Sessions
  /\ WorldFits(s)
  /\ HistoryFits(s)
  /\ HashesFit(s)
  /\ SnapshotsFit(s)
  /\ NothingAhead(s)
  /\ LeadFits(s)
  /\ MistakesPending(s)
  /\ DirtyFits(s)
  /\ ConfirmedFits(s)

(* Before the pending correction every frame was simulated with what the   *)
(* remote inputs known now say of it.  Kept while nothing is displaced.    *)
Fresh(s) ==
  \A f \in FrameNumbers :
    /\ Position(f) < Elapsed(s)
    /\ s.dirty = NoFrame \/ Position(f) < Position(s.dirty)
    => Get(s.used, f) = RemoteFor(s, f)

-----------------------------------------------------------------------------
(* Positions *)

(* Positions are frame numbers' distances from StartFrame, and name them. *)
LEMMA PositionFacts ==
  ASSUME NEW f \in FrameNumbers, NEW g \in FrameNumbers
  PROVE  /\ Position(f) \in Nat /\ Position(f) < Modulus
         /\ Position(f) = Position(g) => f = g
         /\ FrameDistance(f, g) = IF Position(f) <= Position(g)
                                  THEN Position(g) - Position(f)
                                  ELSE Position(g) - Position(f) + Modulus
<1>1. Position(f) \in FrameNumbers
  BY SessionAssumption, DistanceValue DEF Position
<1>2. QED
  BY <1>1, SessionAssumption, DistanceFromOrigin, ModulusAssumption
     DEF Position, FrameNumbers

(* Stepping forward moves the position as far, short of a full turn. *)
LEMMA PositionOffset ==
  ASSUME NEW f \in FrameNumbers, NEW k \in Nat, Position(f) + k < Modulus
  PROVE  /\ FrameOffset(f, k) \in FrameNumbers
         /\ Position(FrameOffset(f, k)) = Position(f) + k
<1>1. k \in FrameNumbers
  BY PositionFacts, ModulusAssumption DEF FrameNumbers
<1>2. QED
  BY <1>1, SessionAssumption, OffsetValue, OffsetFromOrigin DEF Position

(* Stepping back moves the position back, or round. *)
LEMMA PositionBack ==
  ASSUME NEW f \in FrameNumbers, NEW k \in FrameNumbers
  PROVE  /\ FrameOffset(f, -k) \in FrameNumbers
         /\ Position(FrameOffset(f, -k)) =
              IF k <= Position(f) THEN Position(f) - k ELSE Position(f) - k + Modulus
<1> DEFINE g == FrameOffset(f, -k)
<1>1. /\ g \in FrameNumbers
      /\ g = IF k <= f THEN f - k ELSE f - k + Modulus
  BY OffsetBack
<1> HIDE DEF g
<1>2. /\ Position(f) = IF StartFrame <= f THEN f - StartFrame ELSE f - StartFrame + Modulus
      /\ Position(g) = IF StartFrame <= g THEN g - StartFrame ELSE g - StartFrame + Modulus
  BY <1>1, SessionAssumption, DistanceValue DEF Position
<1>3. Position(g) = IF k <= Position(f) THEN Position(f) - k ELSE Position(f) - k + Modulus
  BY <1>1, <1>2, SessionAssumption, ModulusAssumption DEF FrameNumbers
<1>4. QED
  BY <1>1, <1>3 DEF g

(* In half the number space, frame_before is the order of positions. *)
LEMMA PositionOrder ==
  ASSUME NEW f \in FrameNumbers, NEW g \in FrameNumbers,
         2 * Position(f) < Modulus, 2 * Position(g) < Modulus
  PROVE  FrameBefore(f, g) <=> Position(f) < Position(g)
BY SessionAssumption, BeforeFromOrigin DEF Position

(* Two frames in one slot are Capacity apart. *)
LEMMA PositionsInSlot ==
  ASSUME NEW f \in FrameNumbers, NEW g \in FrameNumbers, f # g,
         RingIndex(f) = RingIndex(g)
  PROVE  \/ Position(g) - Position(f) >= Capacity
         \/ Position(f) - Position(g) >= Capacity
<1>1. Position(f) <= Position(g) \/ Position(g) <= Position(f)
  BY PositionFacts
<1>2. QED
  BY <1>1, SessionAssumption, SharedSlot DEF Position

-----------------------------------------------------------------------------
(* predicted_remote *)

(* A prediction, like an actual input, is a button mask. *)
LEMMA RemoteForType ==
  ASSUME NEW s \in Sessions, NEW f \in FrameNumbers
  PROVE  RemoteFor(s, f) \in Buttons
<1>1. s.remote \in RingOf(Buttons)
  BY DEF Sessions
<1>2. Contains(s.remote, f) => Get(s.remote, f) \in Buttons
  BY <1>1, GetType
<1>3. PredictedRemote(s, f) \in Buttons
  <2> DEFINE known == {k \in 1 .. Capacity :
                         Contains(s.remote, FrameOffset(f, -k))}
  <2>1. CASE known = {}
    BY <2>1, SessionAssumption DEF PredictedRemote
  <2>2. CASE known # {}
    <3>1. known \in SUBSET Nat
      OBVIOUS
    <3>2. \E m \in known : \A k \in known : m <= k
      BY <2>2, <3>1, LeastElement
    <3>3. Min(known) \in known
      BY <3>2 DEF Min
    <3>4. FrameOffset(f, -Min(known)) \in FrameNumbers
      <4>1. Min(known) \in FrameNumbers
        BY <3>3, CapacityAssumption, ModulusAssumption DEF FrameNumbers
      <4> HIDE DEF known
      <4>2. QED
        BY <4>1, OffsetBack
    <3>5. Contains(s.remote, FrameOffset(f, -Min(known)))
      BY <3>3
    <3>6. Get(s.remote, FrameOffset(f, -Min(known))) \in Buttons
      BY <1>1, <3>4, <3>5, GetType
    <3>7. QED
      BY <2>2, <3>6 DEF PredictedRemote
  <2>3. QED
    BY <2>1, <2>2
<1>4. QED
  BY <1>2, <1>3 DEF RemoteFor

-----------------------------------------------------------------------------
(* update_confirmation *)

(* The loop of update_confirmation stops, after steps that were allowed. *)
LEMMA ConfirmationStops ==
  ASSUME NEW s \in Sessions, NothingAhead(s), WorldFits(s), ConfirmedFits(s)
  PROVE  \E stop \in 0 .. Capacity :
           /\ UpdateConfirmation(s) = [s EXCEPT !.confirmed = FrameOffset(@, stop)]
           /\ \A k \in 0 .. stop - 1 : Confirmable(s, FrameOffset(s.confirmed, k))
           /\ Position(FrameOffset(s.confirmed, stop)) = Position(s.confirmed) + stop
           /\ FrameOffset(s.confirmed, stop) \in FrameNumbers
           /\ stop > 0 => Position(s.confirmed) + stop <= Elapsed(s)
<1> DEFINE At(k) == FrameOffset(s.confirmed, k)
           Blocked == {k \in 0 .. Capacity : ~ Confirmable(s, At(k))}
<1>1. /\ s.confirmed \in FrameNumbers /\ s.world.frame \in FrameNumbers
      /\ Position(s.confirmed) \in Nat /\ Elapsed(s) \in Nat
  BY PositionFacts DEF Sessions, Worlds, Elapsed
<1>2. Position(s.confirmed) + Capacity < Modulus
  BY <1>1, CapacityIsHalf, CapacityAssumption, ModulusAssumption
     DEF WorldFits, ConfirmedFits
<1>3. ASSUME NEW k \in 0 .. Capacity
      PROVE  At(k) \in FrameNumbers /\ Position(At(k)) = Position(s.confirmed) + k
  <2>1. k \in Nat /\ Position(s.confirmed) + k < Modulus
    BY <1>1, <1>2, CapacityAssumption, ModulusAssumption
  <2>2. QED
    BY <1>1, <2>1, PositionOffset
<1>4. ASSUME NEW k \in 0 .. Capacity, Confirmable(s, At(k))
      PROVE  Position(s.confirmed) + k < Elapsed(s)
  BY <1>3, <1>4 DEF Confirmable, NothingAhead
<1>5. Blocked # {}
  <2>1. SUFFICES ASSUME Blocked = {} PROVE FALSE
    OBVIOUS
  <2>2. Capacity \in 0 .. Capacity /\ 0 \in 0 .. Capacity
    BY CapacityAssumption
  <2>3. Contains(s.local, At(0)) /\ Contains(s.local, At(Capacity))
    BY <2>1, <2>2 DEF Confirmable
  <2>4. s.confirmed = At(0)
    BY <1>1, ModulusAssumption DEF FrameNumbers, FrameOffset
  <2>5. /\ RingIndex(At(Capacity)) = RingIndex(At(0))
        /\ At(0) # At(Capacity)
    BY <1>1, <1>3, <2>2, <2>4, SlotComesRound, CapacityAssumption
  <2>6. QED
    BY <2>3, <2>5 DEF Contains
<1>6. PICK stop \in Blocked : \A k \in Blocked : stop <= k
  <2>1. Blocked \in SUBSET Nat
    BY CapacityAssumption
  <2>2. QED
    BY <1>5, <2>1, LeastElement
<1>7. Min(Blocked) = stop
  BY <1>6 DEF Min
<1>8. UpdateConfirmation(s) = [s EXCEPT !.confirmed = FrameOffset(@, stop)]
  BY <1>7, Zenon DEF UpdateConfirmation
<1>9. ASSUME NEW k \in 0 .. stop - 1 PROVE Confirmable(s, At(k))
  <2>1. stop \in 0 .. Capacity
    BY <1>6
  <2>2. k \in 0 .. Capacity /\ ~ stop <= k
    BY <2>1, CapacityAssumption
  <2>3. k \notin Blocked
    BY <1>6, <2>2
  <2>4. QED
    BY <2>2, <2>3
<1>10. stop > 0 => Position(s.confirmed) + stop <= Elapsed(s)
  <2>1. ASSUME stop > 0
        PROVE  /\ stop - 1 \in 0 .. Capacity
               /\ Position(s.confirmed) + (stop - 1) < Elapsed(s)
    <3>1. stop - 1 \in 0 .. Capacity /\ stop - 1 \in 0 .. stop - 1
      BY <1>6, <2>1, CapacityAssumption
    <3>2. Confirmable(s, At(stop - 1))
      BY <1>9, <3>1
    <3>3. QED
      BY <1>4, <3>1, <3>2
  <2>2. QED
    BY <1>1, <1>6, <2>1
<1>11. QED
  BY <1>3, <1>6, <1>8, <1>9, <1>10

(* Both inputs of the frames that are confirmed from s to t are at hand.   *)
Confirms(s, t) ==
  \A f \in FrameNumbers :
    Position(s.confirmed) <= Position(f) /\ Position(f) < Position(t.confirmed) =>
      Contains(t.local, f) /\ Contains(t.remote, f)

(* update_confirmation keeps a session sound and only moves its confirmed  *)
(* boundary, forward.                                                      *)
LEMMA ConfirmationSound ==
  ASSUME NEW s, Sound(s)
  PROVE  /\ Sound(UpdateConfirmation(s))
         /\ UpdateConfirmation(s) =
              [s EXCEPT !.confirmed = UpdateConfirmation(s).confirmed]
         /\ Position(s.confirmed) <= Position(UpdateConfirmation(s).confirmed)
         /\ Confirms(s, UpdateConfirmation(s))
<1> DEFINE t == UpdateConfirmation(s)
<1>1. s \in Sessions
  BY DEF Sound
<1>2. PICK stop \in 0 .. Capacity :
        /\ t = [s EXCEPT !.confirmed = FrameOffset(@, stop)]
        /\ \A k \in 0 .. stop - 1 : Confirmable(s, FrameOffset(s.confirmed, k))
        /\ Position(FrameOffset(s.confirmed, stop)) = Position(s.confirmed) + stop
        /\ FrameOffset(s.confirmed, stop) \in FrameNumbers
        /\ stop > 0 => Position(s.confirmed) + stop <= Elapsed(s)
  BY <1>1, ConfirmationStops DEF Sound
<1> HIDE DEF t
<1>3. /\ t.peer = s.peer /\ t.world = s.world /\ t.local = s.local
      /\ t.remote = s.remote /\ t.used = s.used /\ t.snapshots = s.snapshots
      /\ t.hashes = s.hashes /\ t.dirty = s.dirty /\ t.metrics = s.metrics
      /\ t.confirmed = FrameOffset(s.confirmed, stop)
      /\ t \in Sessions
  BY <1>1, <1>2 DEF Sessions
<1>4. /\ Position(s.confirmed) \in Nat /\ Elapsed(s) \in Nat /\ stop \in Nat
      /\ Position(s.confirmed) <= Elapsed(s)
      /\ s.world.frame \in FrameNumbers
      /\ s.confirmed \in FrameNumbers
      /\ s.dirty # NoFrame => s.dirty \in FrameNumbers
  BY <1>1, PositionFacts, CapacityAssumption
     DEF Sound, Sessions, Worlds, Elapsed, WorldFits, ConfirmedFits
<1>5. /\ Position(t.confirmed) = Position(s.confirmed) + stop
      /\ Position(t.confirmed) <= Elapsed(s)
      /\ t.confirmed \in FrameNumbers
  BY <1>2, <1>3, <1>4
<1>6. Elapsed(t) = Elapsed(s)
  BY <1>3 DEF Elapsed
<1>7. ASSUME NEW f \in FrameNumbers, Position(s.confirmed) <= Position(f),
             Position(f) < Position(t.confirmed)
      PROVE  Confirmable(s, f)
  <2> DEFINE k == Position(f) - Position(s.confirmed)
  <2>1. k \in 0 .. stop - 1 /\ k \in FrameNumbers /\ Position(f) \in Nat
    BY <1>4, <1>5, <1>7, PositionFacts, ModulusAssumption DEF FrameNumbers
  <2>2. k = FrameDistance(s.confirmed, f)
    BY <1>4, <1>7, PositionFacts
  <2>3. FrameOffset(s.confirmed, k) = f
    BY <1>4, <2>2, OffsetByDistance
  <2> HIDE DEF k
  <2>4. QED
    BY <1>2, <2>1, <2>3
<1>8. DirtyFits(t)
  <2>1. SUFFICES ASSUME t.dirty # NoFrame
                 PROVE  Position(t.confirmed) <= Position(t.dirty)
    BY <1>3, <1>6 DEF Sound, DirtyFits
  <2>2. /\ s.dirty \in FrameNumbers /\ Position(s.dirty) \in Nat
        /\ Position(s.dirty) < Elapsed(s)
        /\ Position(s.confirmed) <= Position(s.dirty)
    BY <1>3, <1>4, <2>1, PositionFacts DEF Sound, DirtyFits
  <2>3. CASE Position(s.dirty) < Position(t.confirmed)
    <3>1. Confirmable(s, s.dirty)
      BY <1>7, <2>2, <2>3
    <3>2. QED
      BY <1>3, <2>1, <3>1 DEF Confirmable
  <2>4. QED
    BY <1>3, <1>4, <1>5, <2>2, <2>3
<1>9. ConfirmedFits(t)
  <2>1. ASSUME NEW f \in FrameNumbers, Position(f) < Position(t.confirmed)
        PROVE  Kept(s.remote, f)
    <3>1. CASE Position(f) < Position(s.confirmed)
      BY <2>1, <3>1 DEF Sound, ConfirmedFits
    <3>2. CASE Position(s.confirmed) <= Position(f)
      BY <1>7, <2>1, <3>2, PositionFacts DEF Confirmable, Kept
    <3>3. QED
      BY <1>4, <3>1, <3>2, PositionFacts
  <2>2. QED
    BY <1>3, <1>5, <1>6, <2>1 DEF ConfirmedFits
<1>10. WorldFits(t) /\ HashesFit(t) /\ SnapshotsFit(t) /\ NothingAhead(t)
       /\ LeadFits(t) /\ MistakesPending(t)
  BY <1>3, <1>6
     DEF Sound, WorldFits, HashesFit, SnapshotsFit, NothingAhead, LeadFits,
         MistakesPending
<1>11. HistoryFits(t)
  BY <1>3, <1>6 DEF Sound, HistoryFits, MakePair
<1>12. t = [s EXCEPT !.confirmed = t.confirmed]
  BY <1>1, <1>2, <1>3 DEF Sessions
<1>14. Confirms(s, t)
  BY <1>3, <1>7 DEF Confirms, Confirmable
<1>13. QED
  BY <1>3, <1>4, <1>5, <1>8, <1>9, <1>10, <1>11, <1>12, <1>14 DEF Sound, t

-----------------------------------------------------------------------------
(* Worlds *)

(* Worlds that agree on the inputs before a boundary have the same prefix. *)
LEMMA PrefixAgrees ==
  ASSUME NEW v, NEW w, NEW b \in FrameNumbers,
         \A f \in FrameNumbers : Position(f) < Position(b) => v.inputs[f] = w.inputs[f]
  PROVE  Prefix(v, b) = Prefix(w, b)
BY DEF Prefix

(* A prefix of a world is a world. *)
LEMMA PrefixType ==
  ASSUME NEW w \in Worlds, NEW b \in FrameNumbers
  PROVE  Prefix(w, b) \in Worlds
BY DEF Prefix, Worlds

(* A world whose history ends at its frame is its own longest prefix. *)
LEMMA PrefixWhole ==
  ASSUME NEW w \in Worlds, NEW v,
         \A f \in FrameNumbers :
           IF Position(f) < Position(w.frame) THEN v.inputs[f] = w.inputs[f]
                                              ELSE w.inputs[f] = NoPair
  PROVE  Prefix(v, w.frame) = w
<1>1. w = [frame |-> w.frame, inputs |-> w.inputs]
  BY DEF Worlds
<1>2. w.inputs = [f \in FrameNumbers |-> w.inputs[f]]
  BY DEF Worlds
<1>3. [f \in FrameNumbers |-> IF Position(f) < Position(w.frame)
                              THEN v.inputs[f] ELSE NoPair]
        = [f \in FrameNumbers |-> w.inputs[f]]
  OBVIOUS
<1>4. QED
  BY <1>1, <1>2, <1>3 DEF Prefix

-----------------------------------------------------------------------------
(* advance *)

(* The new frame of advance, on a sound session with no correction pending,*)
(* succeeds, keeps it sound, adds one frame and rewrites none.             *)
LEMMA SimulateNextSound ==
  ASSUME NEW s, Sound(s), s.dirty = NoFrame, 2 * (Elapsed(s) + 1) < Modulus,
         NEW local \in Buttons, SimulationIsTotal
  PROVE  LET r == SimulateNext(s, local)
         IN  /\ r.error = "ok"
             /\ Sound(r.session)
             /\ Elapsed(r.session) = Elapsed(s) + 1
             /\ r.session.peer = s.peer
             /\ r.session.remote = s.remote
             /\ r.session.local = Put(s.local, s.world.frame, local)
             /\ r.session.dirty = NoFrame
             /\ \A f \in FrameNumbers :
                  Position(f) <= Elapsed(s) /\ Elapsed(s) - Position(f) < Capacity =>
                    Get(r.session.used, f) =
                      IF f = s.world.frame THEN RemoteFor(s, f) ELSE Get(s.used, f)
             /\ Position(s.confirmed) <= Position(r.session.confirmed)
             /\ \A f \in FrameNumbers :
                  Position(f) < Elapsed(s) =>
                    r.session.world.inputs[f] = s.world.inputs[f]
             /\ Confirms(s, r.session)
<1> DEFINE frame  == s.world.frame
           remote == RemoteFor(s, frame)
           pair   == MakePair(s, local, remote)
           next   == SimulateFrame(s.world, pair)
           stored == [s EXCEPT
                       !.snapshots = Put(@, frame, s.world),
                       !.local = Put(@, frame, local),
                       !.used = Put(@, frame, remote),
                       !.metrics.predicted =
                          IF Contains(s.remote, frame) THEN @ ELSE @ + 1]
           u == [stored EXCEPT !.world = next, !.hashes = Put(@, next.frame, next)]
<1>1. SimulateNext(s, local) = Result(UpdateConfirmation(u), "ok")
  BY DEF SimulateNext, SimulationIsTotal
<1>2. /\ s \in Sessions /\ s.world \in Worlds /\ s.metrics \in Metrics
      /\ frame \in FrameNumbers
      /\ Elapsed(s) = Position(frame) /\ Elapsed(s) \in Nat
      /\ Position(s.confirmed) \in Nat
  BY PositionFacts DEF Sound, Sessions, Worlds, Elapsed
<1>3. remote \in Buttons
  BY <1>2, RemoteForType
<1>4. /\ next.frame \in FrameNumbers
      /\ Position(next.frame) = Elapsed(s) + 1
  <2>1. next.frame = FrameOffset(frame, 1)
    BY DEF SimulateFrame, NextFrame
  <2>2. Position(frame) + 1 < Modulus
    BY <1>2, ModulusAssumption
  <2>3. QED
    BY <1>2, <2>1, <2>2, PositionOffset
<1>5. pair \in Pairs
  BY <1>3 DEF MakePair, Pairs
<1>6. /\ next \in Worlds
      /\ next.inputs[frame] = pair
      /\ \A f \in FrameNumbers \ {frame} : next.inputs[f] = s.world.inputs[f]
  BY <1>2, <1>4, <1>5 DEF SimulateFrame, Worlds
<1> HIDE DEF next, pair, remote
<1>7. /\ u.peer = s.peer /\ u.world = next /\ u.remote = s.remote
      /\ u.local = Put(s.local, frame, local)
      /\ u.used = Put(s.used, frame, remote)
      /\ u.snapshots = Put(s.snapshots, frame, s.world)
      /\ u.hashes = Put(s.hashes, next.frame, next)
      /\ u.dirty = NoFrame /\ u.confirmed = s.confirmed
      /\ u.metrics \in Metrics
  BY <1>2 DEF Sessions, Metrics
<1>8. u = [peer |-> u.peer, world |-> u.world, local |-> u.local,
           remote |-> u.remote, used |-> u.used, snapshots |-> u.snapshots,
           hashes |-> u.hashes, dirty |-> u.dirty, confirmed |-> u.confirmed,
           metrics |-> u.metrics]
  <2>1. s = [peer |-> s.peer, world |-> s.world, local |-> s.local,
             remote |-> s.remote, used |-> s.used, snapshots |-> s.snapshots,
             hashes |-> s.hashes, dirty |-> s.dirty, confirmed |-> s.confirmed,
             metrics |-> s.metrics]
    BY <1>2 DEF Sessions
  <2>2. stored = [s EXCEPT !.snapshots = stored.snapshots, !.local = stored.local,
                           !.used = stored.used, !.metrics = stored.metrics]
    BY <1>2 DEF Sessions
  <2> HIDE DEF stored
  <2>3. u = [s EXCEPT !.snapshots = stored.snapshots, !.local = stored.local,
                      !.used = stored.used, !.metrics = stored.metrics,
                      !.world = u.world, !.hashes = u.hashes]
    BY <2>1, <2>2
  <2> HIDE DEF u
  <2>4. QED
    BY <2>1, <2>3
<1> HIDE DEF u, stored
<1>9. /\ s.local \in RingOf(Buttons) /\ s.used \in RingOf(Buttons)
      /\ s.snapshots \in RingOf(Worlds) /\ s.hashes \in RingOf(Worlds)
  BY <1>2 DEF Sessions
<1>10. /\ u.local \in RingOf(Buttons)
       /\ Contains(u.local, frame) /\ Get(u.local, frame) = local
       /\ \A g \in FrameNumbers \ {frame} :
            /\ Contains(u.local, g) <=>
                 Contains(s.local, g) /\ RingIndex(g) # RingIndex(frame)
            /\ Contains(u.local, g) => Get(u.local, g) = Get(s.local, g)
  BY <1>2, <1>7, <1>9, PutFacts
<1>11. /\ u.used \in RingOf(Buttons)
       /\ Contains(u.used, frame) /\ Get(u.used, frame) = remote
       /\ \A g \in FrameNumbers \ {frame} :
            /\ Contains(u.used, g) <=>
                 Contains(s.used, g) /\ RingIndex(g) # RingIndex(frame)
            /\ Contains(u.used, g) => Get(u.used, g) = Get(s.used, g)
  BY <1>2, <1>3, <1>7, <1>9, PutFacts
<1>12. /\ u.snapshots \in RingOf(Worlds)
       /\ Contains(u.snapshots, frame) /\ Get(u.snapshots, frame) = s.world
       /\ \A g \in FrameNumbers \ {frame} :
            /\ Contains(u.snapshots, g) <=>
                 Contains(s.snapshots, g) /\ RingIndex(g) # RingIndex(frame)
            /\ Contains(u.snapshots, g) => Get(u.snapshots, g) = Get(s.snapshots, g)
  BY <1>2, <1>7, <1>9, PutFacts
<1>13. /\ u.hashes \in RingOf(Worlds)
       /\ Contains(u.hashes, next.frame) /\ Get(u.hashes, next.frame) = next
       /\ \A g \in FrameNumbers \ {next.frame} :
            /\ Contains(u.hashes, g) <=>
                 Contains(s.hashes, g) /\ RingIndex(g) # RingIndex(next.frame)
            /\ Contains(u.hashes, g) => Get(u.hashes, g) = Get(s.hashes, g)
  BY <1>4, <1>6, <1>7, <1>9, PutFacts
<1>14. Elapsed(u) = Elapsed(s) + 1
  BY <1>4, <1>7 DEF Elapsed
<1>15. \A f \in FrameNumbers : f # frame => Position(f) # Elapsed(s)
  BY <1>2, PositionFacts
<1>16. ASSUME NEW b \in FrameNumbers, Position(b) <= Elapsed(s)
       PROVE  Prefix(u.world, b) = Prefix(s.world, b)
  <2>1. ASSUME NEW f \in FrameNumbers, Position(f) < Position(b)
        PROVE  u.world.inputs[f] = s.world.inputs[f]
    <3>1. Position(f) < Position(frame)
      BY <1>2, <1>16, <2>1, PositionFacts
    <3>2. QED
      BY <1>2, <1>6, <1>7, <3>1, PositionFacts
  <2>2. QED
    BY <2>1, PrefixAgrees
<1>17. Prefix(u.world, frame) = s.world
  <2>1. ASSUME NEW f \in FrameNumbers
        PROVE  IF Position(f) < Position(frame)
               THEN u.world.inputs[f] = s.world.inputs[f]
               ELSE s.world.inputs[f] = NoPair
    <3>1. Position(f) \in Nat
      BY PositionFacts
    <3>2. CASE Position(f) < Position(frame)
      BY <1>2, <1>6, <1>7, <3>2
    <3>3. CASE ~ Position(f) < Position(frame)
      BY <1>2, <3>1, <3>3 DEF Sound, WorldFits
    <3>4. QED
      BY <3>2, <3>3
  <2>2. QED
    BY <1>2, <2>1, PrefixWhole
<1>18. WorldFits(u)
  BY <1>2, <1>6, <1>7, <1>14, PositionFacts, ModulusAssumption DEF Sound, WorldFits
<1>19. u \in Sessions
  BY <1>2, <1>6, <1>7, <1>8, <1>10, <1>11, <1>12, <1>13 DEF Sessions
<1>20. HistoryFits(u)
  <2>1. SUFFICES ASSUME NEW f \in FrameNumbers, Position(f) < Elapsed(u),
                        Elapsed(u) - Position(f) <= Capacity
                 PROVE  /\ Contains(u.snapshots, f)
                        /\ Get(u.snapshots, f) = Prefix(u.world, f)
                        /\ Contains(u.local, f)
                        /\ Contains(u.used, f)
                        /\ u.world.inputs[f] =
                             MakePair(u, Get(u.local, f), Get(u.used, f))
    BY DEF HistoryFits
  <2>2. CASE f = frame
    BY <1>6, <1>7, <1>10, <1>11, <1>12, <1>17, <2>2 DEF MakePair, pair
  <2>3. CASE f # frame
    <3>1. Position(f) \in Nat /\ Position(f) < Elapsed(s)
      BY <1>2, <1>14, <1>15, <2>1, <2>3, PositionFacts
    <3>2. RingIndex(f) # RingIndex(frame)
      BY <1>2, <1>14, <2>1, <2>3, <3>1, PositionsInSlot, CapacityAssumption
    <3>3. /\ Contains(s.snapshots, f) /\ Get(s.snapshots, f) = Prefix(s.world, f)
          /\ Contains(s.local, f) /\ Contains(s.used, f)
          /\ s.world.inputs[f] = MakePair(s, Get(s.local, f), Get(s.used, f))
      BY <1>2, <1>14, <2>1, <3>1, CapacityAssumption DEF Sound, HistoryFits
    <3>4. Prefix(u.world, f) = Prefix(s.world, f)
      BY <1>2, <1>16, <3>1
    <3>5. QED
      BY <1>6, <1>7, <1>10, <1>11, <1>12, <2>3, <3>2, <3>3, <3>4 DEF MakePair
  <2>4. QED
    BY <2>2, <2>3
<1>21. HashesFit(u)
  <2>1. SUFFICES ASSUME NEW b \in FrameNumbers, Contains(u.hashes, b)
                 PROVE  /\ Position(b) <= Elapsed(u)
                        /\ Get(u.hashes, b) = Prefix(u.world, b)
    BY DEF HashesFit
  <2>2. CASE b = next.frame
    <3>1. ASSUME NEW f \in FrameNumbers, ~ Position(f) < Position(next.frame)
          PROVE  next.inputs[f] = NoPair
      <4>1. Elapsed(u) <= Position(f)
        BY <1>2, <1>4, <1>14, <3>1, PositionFacts
      <4>2. QED
        BY <1>7, <1>18, <4>1 DEF WorldFits
    <3>2. Prefix(next, next.frame) = next
      BY <1>6, <3>1, PrefixWhole
    <3>3. QED
      BY <1>2, <1>4, <1>7, <1>13, <1>14, <2>2, <3>2
  <2>3. CASE b # next.frame
    <3>1. Contains(s.hashes, b) /\ Get(u.hashes, b) = Get(s.hashes, b)
      BY <1>13, <2>1, <2>3
    <3>2. Position(b) <= Elapsed(s) /\ Get(s.hashes, b) = Prefix(s.world, b)
      BY <3>1 DEF Sound, HashesFit
    <3>3. QED
      BY <1>2, <1>14, <1>16, <3>1, <3>2, PositionFacts
  <2>4. QED
    BY <2>2, <2>3
<1>35. SnapshotsFit(u)
  <2>1. SUFFICES ASSUME NEW f \in FrameNumbers, Contains(u.snapshots, f)
                 PROVE  /\ Position(f) < Elapsed(u)
                        /\ Get(u.snapshots, f) = Prefix(u.world, f)
    BY DEF SnapshotsFit
  <2>2. CASE f = frame
    BY <1>2, <1>12, <1>14, <1>17, <2>2
  <2>3. CASE f # frame
    <3>1. Contains(s.snapshots, f) /\ Get(u.snapshots, f) = Get(s.snapshots, f)
      BY <1>12, <2>1, <2>3
    <3>2. Position(f) < Elapsed(s) /\ Get(s.snapshots, f) = Prefix(s.world, f)
      BY <3>1 DEF Sound, SnapshotsFit
    <3>3. QED
      BY <1>2, <1>14, <1>16, <3>1, <3>2, PositionFacts
  <2>4. QED
    BY <2>2, <2>3
<1>22. NothingAhead(u)
  BY <1>2, <1>10, <1>11, <1>14, PositionFacts DEF Sound, NothingAhead
<1>23. LeadFits(u)
  BY <1>7 DEF Sound, LeadFits
<1>24. MistakesPending(u)
  <2>1. SUFFICES ASSUME NEW f \in FrameNumbers, Contains(u.used, f),
                        Contains(s.remote, f), Get(u.used, f) # Get(s.remote, f)
                 PROVE  FALSE
    BY <1>7 DEF MistakesPending
  <2>2. CASE f = frame
    BY <1>11, <2>1, <2>2 DEF remote, RemoteFor
  <2>3. CASE f # frame
    BY <1>11, <2>1, <2>3 DEF Sound, MistakesPending
  <2>4. QED
    BY <2>2, <2>3
<1>25. DirtyFits(u)
  BY <1>7 DEF DirtyFits
<1>26. ConfirmedFits(u)
  BY <1>2, <1>7, <1>14 DEF Sound, ConfirmedFits
<1>27. Sound(u)
  BY <1>18, <1>19, <1>20, <1>21, <1>35, <1>22, <1>23, <1>24, <1>25, <1>26 DEF Sound
<1> DEFINE t == UpdateConfirmation(u)
<1>28. /\ Sound(t) /\ t = [u EXCEPT !.confirmed = t.confirmed]
       /\ Position(u.confirmed) <= Position(t.confirmed) /\ Confirms(u, t)
  BY <1>27, ConfirmationSound
<1> HIDE DEF t
<1>29. /\ t.world = u.world /\ t.remote = u.remote
       /\ t.peer = u.peer /\ t.local = u.local
       /\ t.used = u.used /\ t.dirty = NoFrame
  BY <1>7, <1>8, <1>28
<1>30. Elapsed(t) = Elapsed(s) + 1
  BY <1>14, <1>29 DEF Elapsed
<1>31. \A f \in FrameNumbers :
         Position(f) < Elapsed(s) => t.world.inputs[f] = s.world.inputs[f]
  BY <1>2, <1>6, <1>7, <1>29
<1>32. SimulateNext(s, local) = [session |-> t, error |-> "ok"]
  BY <1>1 DEF Result, t
<1>33. ASSUME NEW f \in FrameNumbers, Position(f) <= Elapsed(s),
              Elapsed(s) - Position(f) < Capacity
       PROVE  Get(t.used, f) = IF f = frame THEN remote ELSE Get(s.used, f)
  <2>1. CASE f = frame
    BY <1>11, <1>29, <2>1
  <2>2. CASE f # frame
    <3>1. Position(f) \in Nat /\ Position(f) < Elapsed(s)
      BY <1>2, <1>15, <1>33, <2>2, PositionFacts
    <3>2. RingIndex(f) # RingIndex(frame)
      BY <1>2, <1>33, <2>2, <3>1, PositionsInSlot, CapacityAssumption
    <3>3. Contains(s.used, f)
      BY <1>2, <1>33, <3>1, CapacityAssumption DEF Sound, HistoryFits
    <3>4. QED
      BY <1>11, <1>29, <2>2, <3>2, <3>3
  <2>3. QED
    BY <2>1, <2>2
<1>36. Confirms(s, t)
  BY <1>7, <1>28 DEF Confirms
<1>34. QED
  BY <1>7, <1>28, <1>29, <1>30, <1>31, <1>32, <1>33, <1>36 DEF remote

-----------------------------------------------------------------------------
(* flush_corrections *)

(* The frames a correction resimulates: from the dirty one to the present. *)
Redone(s) ==
  {f \in FrameNumbers : Position(s.dirty) <= Position(f) /\ Position(f) < Elapsed(s)}

(* The boundaries it reaches. *)
Reached(s) ==
  {f \in FrameNumbers : Position(s.dirty) < Position(f) /\ Position(f) <= Elapsed(s)}

(* A pending correction of a sound session, in terms of positions. *)
LEMMA CorrectionRange ==
  ASSUME NEW s, Sound(s), s.dirty # NoFrame
  PROVE  /\ s.dirty \in FrameNumbers /\ Position(s.dirty) \in Nat
         /\ Elapsed(s) \in Nat /\ 2 * Elapsed(s) < Modulus
         /\ Depth(s) = Elapsed(s) - Position(s.dirty)
         /\ Depth(s) \in Nat /\ 0 < Depth(s) /\ Depth(s) <= MaxRollback
         /\ Depth(s) <= Capacity
         /\ \A f \in FrameNumbers, k \in 0 .. Depth(s) :
              FrameDistance(s.dirty, f) < k <=>
                Position(s.dirty) <= Position(f) /\ Position(f) < Position(s.dirty) + k
         /\ \A k \in 0 .. Depth(s) :
              /\ FrameOffset(s.dirty, k) \in FrameNumbers
              /\ Position(FrameOffset(s.dirty, k)) = Position(s.dirty) + k
         /\ {FrameOffset(s.dirty, k) : k \in 0 .. Depth(s) - 1} = Redone(s)
         /\ {FrameOffset(s.dirty, k) : k \in 1 .. Depth(s)} = Reached(s)
         /\ FrameOffset(s.dirty, Depth(s)) = s.world.frame
<1> DEFINE d == s.dirty
           n == Elapsed(s)
<1>1. /\ d \in FrameNumbers /\ Position(d) \in Nat
      /\ s.world.frame \in FrameNumbers
      /\ n \in Nat /\ 2 * n < Modulus
      /\ Position(d) < n /\ n - Position(d) <= MaxRollback
      /\ n - Position(d) <= Capacity
  BY PositionFacts DEF Sound, Sessions, Worlds, WorldFits, DirtyFits, Elapsed
<1>2. Depth(s) = n - Position(d)
  BY <1>1, PositionFacts DEF Depth, Elapsed
<1>3. /\ Depth(s) \in Nat /\ 0 < Depth(s) /\ Depth(s) <= MaxRollback
      /\ Depth(s) <= Capacity
  BY <1>1, <1>2, SessionAssumption, CapacityAssumption
<1>4. n + n < Modulus
  BY <1>1, ModulusAssumption
<1>5. ASSUME NEW f \in FrameNumbers, NEW k \in 0 .. Depth(s)
      PROVE  FrameDistance(d, f) < k <=>
               Position(d) <= Position(f) /\ Position(f) < Position(d) + k
  <2>1. /\ Position(f) \in Nat
        /\ FrameDistance(d, f) = IF Position(d) <= Position(f)
                                 THEN Position(f) - Position(d)
                                 ELSE Position(f) - Position(d) + Modulus
    BY <1>1, PositionFacts
  <2>2. k \in Nat /\ k <= n
    BY <1>1, <1>2, <1>3
  <2>3. QED
    BY <1>1, <1>4, <2>1, <2>2, ModulusAssumption
<1>6. ASSUME NEW k \in 0 .. Depth(s)
      PROVE  /\ FrameOffset(d, k) \in FrameNumbers
             /\ Position(FrameOffset(d, k)) = Position(d) + k
  <2>1. k \in Nat /\ Position(d) + k < Modulus
    BY <1>1, <1>2, <1>3, <1>4, ModulusAssumption
  <2>2. QED
    BY <1>1, <2>1, PositionOffset
<1>7. ASSUME NEW f \in FrameNumbers, Position(d) <= Position(f), Position(f) <= n
      PROVE  FrameOffset(d, Position(f) - Position(d)) = f
  <2>1. FrameDistance(d, f) = Position(f) - Position(d)
    BY <1>1, <1>7, PositionFacts
  <2>2. FrameOffset(d, FrameDistance(d, f)) = f
    BY <1>1, OffsetByDistance
  <2>3. QED
    BY <2>1, <2>2
<1>8. {FrameOffset(d, k) : k \in 0 .. Depth(s) - 1} = Redone(s)
  <2>1. ASSUME NEW k \in 0 .. Depth(s) - 1 PROVE FrameOffset(d, k) \in Redone(s)
    BY <1>1, <1>2, <1>3, <1>6 DEF Redone
  <2>2. ASSUME NEW f \in Redone(s)
        PROVE  \E k \in 0 .. Depth(s) - 1 : f = FrameOffset(d, k)
    <3>1. /\ f \in FrameNumbers /\ Position(f) \in Nat
          /\ Position(d) <= Position(f) /\ Position(f) < n
      BY PositionFacts DEF Redone
    <3>2. Position(f) - Position(d) \in 0 .. Depth(s) - 1
      BY <1>1, <1>2, <3>1
    <3>3. QED
      BY <1>1, <1>7, <3>1, <3>2
  <2>3. QED
    BY <2>1, <2>2
<1>9. {FrameOffset(d, k) : k \in 1 .. Depth(s)} = Reached(s)
  <2>1. ASSUME NEW k \in 1 .. Depth(s) PROVE FrameOffset(d, k) \in Reached(s)
    BY <1>1, <1>2, <1>3, <1>6 DEF Reached
  <2>2. ASSUME NEW f \in Reached(s)
        PROVE  \E k \in 1 .. Depth(s) : f = FrameOffset(d, k)
    <3>1. /\ f \in FrameNumbers /\ Position(f) \in Nat
          /\ Position(d) < Position(f) /\ Position(f) <= n
      BY PositionFacts DEF Reached
    <3>2. Position(f) - Position(d) \in 1 .. Depth(s)
      BY <1>1, <1>2, <3>1
    <3>3. QED
      BY <1>1, <1>7, <3>1, <3>2
  <2>3. QED
    BY <2>1, <2>2
<1>10. FrameOffset(d, Depth(s)) = s.world.frame
  BY <1>1, <1>2, <1>7 DEF Elapsed
<1>11. QED
  BY <1>1, <1>2, <1>3, <1>5, <1>6, <1>8, <1>9, <1>10

(* The world a correction ends with has the old inputs before the dirty    *)
(* frame and the new ones from there; its prefixes are what it passed.     *)
LEMMA ResimulatedWorldFacts ==
  ASSUME NEW s, Sound(s), s.dirty # NoFrame
  PROVE  LET w == ResimulatedWorld(s, Depth(s))
         IN  /\ w \in Worlds
             /\ w.frame = s.world.frame
             /\ \A f \in FrameNumbers :
                  /\ Position(f) < Position(s.dirty) => w.inputs[f] = s.world.inputs[f]
                  /\ f \in Redone(s) => w.inputs[f] = ResimulatedPair(s, f)
                  /\ Elapsed(s) <= Position(f) => w.inputs[f] = NoPair
             /\ \A f \in Redone(s) \union Reached(s) :
                  ResimulatedWorld(s, FrameDistance(s.dirty, f)) = Prefix(w, f)
<1> DEFINE d == s.dirty
           w == ResimulatedWorld(s, Depth(s))
<1>1. /\ d \in FrameNumbers /\ Position(d) \in Nat /\ Elapsed(s) \in Nat
      /\ Depth(s) = Elapsed(s) - Position(d) /\ Depth(s) \in Nat
      /\ Depth(s) <= MaxRollback /\ Depth(s) <= Capacity
      /\ Position(d) < Elapsed(s)
      /\ FrameOffset(d, Depth(s)) = s.world.frame
      /\ \A f \in FrameNumbers, k \in 0 .. Depth(s) :
           FrameDistance(d, f) < k <=>
             Position(d) <= Position(f) /\ Position(f) < Position(d) + k
  BY CorrectionRange
<1>2. s \in Sessions /\ s.world \in Worlds
  BY DEF Sound, Sessions
<1>3. /\ Contains(s.snapshots, d)
      /\ Get(s.snapshots, d) = Prefix(s.world, d)
  BY <1>1, CapacityAssumption DEF Sound, HistoryFits
<1>4. ASSUME NEW f \in FrameNumbers
      PROVE  Get(s.snapshots, d).inputs[f] =
               IF Position(f) < Position(d) THEN s.world.inputs[f] ELSE NoPair
  BY <1>3 DEF Prefix
<1>5. ASSUME NEW f \in FrameNumbers, NEW k \in 0 .. Depth(s)
      PROVE  ResimulatedWorld(s, k).inputs[f] =
               IF Position(d) <= Position(f) /\ Position(f) < Position(d) + k
               THEN ResimulatedPair(s, f)
               ELSE IF Position(f) < Position(d) THEN s.world.inputs[f] ELSE NoPair
  <2>1. FrameDistance(d, f) < k <=>
          Position(d) <= Position(f) /\ Position(f) < Position(d) + k
    BY <1>1
  <2>2. ResimulatedWorld(s, k).inputs[f] =
          IF FrameDistance(d, f) < k THEN ResimulatedPair(s, f)
                                     ELSE Get(s.snapshots, d).inputs[f]
    BY DEF ResimulatedWorld
  <2>3. QED
    BY <1>4, <2>1, <2>2
<1>6. Depth(s) \in 0 .. Depth(s)
  BY <1>1
<1>7. ASSUME NEW f \in FrameNumbers
      PROVE  /\ Position(f) < Position(d) => w.inputs[f] = s.world.inputs[f]
             /\ f \in Redone(s) => w.inputs[f] = ResimulatedPair(s, f)
             /\ Elapsed(s) <= Position(f) => w.inputs[f] = NoPair
  <2>1. Position(f) \in Nat
    BY PositionFacts
  <2> HIDE DEF w
  <2>2. w.inputs[f] =
          IF Position(d) <= Position(f) /\ Position(f) < Position(d) + Depth(s)
          THEN ResimulatedPair(s, f)
          ELSE IF Position(f) < Position(d) THEN s.world.inputs[f] ELSE NoPair
    BY <1>5, <1>6 DEF w
  <2>3. QED
    BY <1>1, <2>1, <2>2 DEF Redone
<1>8. ASSUME NEW f \in FrameNumbers, f \in Redone(s)
      PROVE  ResimulatedPair(s, f) \in Pairs
  <2>1. Position(f) \in Nat /\ Position(d) <= Position(f) /\ Position(f) < Elapsed(s)
    BY <1>8, PositionFacts DEF Redone
  <2>2. Contains(s.local, f)
    BY <1>1, <2>1, CapacityAssumption DEF Sound, HistoryFits
  <2>3. Get(s.local, f) \in Buttons
    BY <1>2, <2>2, GetType DEF Sessions
  <2>4. RemoteFor(s, f) \in Buttons
    BY <1>2, RemoteForType
  <2>5. QED
    BY <2>3, <2>4 DEF ResimulatedPair, MakePair, Pairs
<1>9. w.frame = s.world.frame /\ w.frame \in FrameNumbers
  BY <1>1, <1>2 DEF ResimulatedWorld, Worlds
<1>10. w \in Worlds
  <2>1. ASSUME NEW f \in FrameNumbers
        PROVE  w.inputs[f] \in Pairs \union {NoPair}
    <3>1. Position(f) \in Nat /\ s.world.inputs[f] \in Pairs \union {NoPair}
      BY <1>2, PositionFacts DEF Worlds
    <3>2. \/ Position(f) < Position(d) \/ f \in Redone(s)
          \/ Elapsed(s) <= Position(f)
      BY <1>1, <3>1 DEF Redone
    <3> HIDE DEF w
    <3>3. QED
      BY <1>7, <1>8, <3>1, <3>2
  <2>2. /\ w = [frame |-> w.frame, inputs |-> w.inputs]
        /\ w.inputs = [f \in FrameNumbers |-> w.inputs[f]]
    BY DEF ResimulatedWorld
  <2> HIDE DEF w
  <2>3. QED
    BY <1>9, <2>1, <2>2 DEF Worlds
<1>11. ASSUME NEW f \in Redone(s) \union Reached(s)
       PROVE  ResimulatedWorld(s, FrameDistance(d, f)) = Prefix(w, f)
  <2> DEFINE k == FrameDistance(d, f)
             v == ResimulatedWorld(s, k)
  <2>1. /\ f \in FrameNumbers /\ Position(f) \in Nat
        /\ Position(d) <= Position(f) /\ Position(f) <= Elapsed(s)
    BY <1>1, PositionFacts DEF Redone, Reached
  <2>2. k = Position(f) - Position(d) /\ k \in 0 .. Depth(s)
    BY <1>1, <2>1, PositionFacts
  <2>3. v.frame = f
    BY <1>1, <2>1, OffsetByDistance DEF ResimulatedWorld
  <2>4. ASSUME NEW g \in FrameNumbers
        PROVE  v.inputs[g] = IF Position(g) < Position(f) THEN w.inputs[g] ELSE NoPair
    <3>1. Position(g) \in Nat
      BY PositionFacts
    <3> HIDE DEF k, w
    <3>2. v.inputs[g] =
            IF Position(d) <= Position(g) /\ Position(g) < Position(d) + k
            THEN ResimulatedPair(s, g)
            ELSE IF Position(g) < Position(d) THEN s.world.inputs[g] ELSE NoPair
      BY <1>5, <2>2
    <3>3. /\ Position(g) < Position(d) => w.inputs[g] = s.world.inputs[g]
          /\ g \in Redone(s) => w.inputs[g] = ResimulatedPair(s, g)
      BY <1>7
    <3> HIDE DEF v
    <3>4. QED
      BY <1>1, <2>1, <2>2, <3>1, <3>2, <3>3 DEF Redone
  <2>5. /\ v = [frame |-> v.frame, inputs |-> v.inputs]
        /\ v.inputs = [g \in FrameNumbers |-> v.inputs[g]]
    BY DEF ResimulatedWorld
  <2> HIDE DEF v, w
  <2>6. v = Prefix(w, f)
    BY <2>3, <2>4, <2>5 DEF Prefix
  <2>7. QED
    BY <2>6 DEF v
<1>12. QED
  BY <1>7, <1>9, <1>10, <1>11

(* The metrics stay natural numbers. *)
LEMMA CountRollbackType ==
  ASSUME NEW m \in Metrics, NEW depth \in Nat
  PROVE  CountRollback(m, depth) \in Metrics
<1>1. /\ m.rollbacks + 1 \in Nat /\ m.resimulated + depth \in Nat
      /\ (IF depth > m.deepest THEN depth ELSE m.deepest) \in Nat
  BY DEF Metrics
<1>2. QED
  BY <1>1 DEF Metrics, CountRollback

(* flush_corrections on a sound session always succeeds.  It keeps the     *)
(* session sound, its frame and its remote inputs, clears the correction   *)
(* and rewrites no confirmed frame.                                        *)
LEMMA FlushSound ==
  ASSUME NEW s, Sound(s), SimulationIsTotal
  PROVE  LET r == FlushCorrections(s)
         IN  /\ r.error = "ok"
             /\ Sound(r.session)
             /\ r.session.dirty = NoFrame
             /\ r.session.world.frame = s.world.frame
             /\ r.session.peer = s.peer
             /\ r.session.remote = s.remote
             /\ r.session.local = s.local
             /\ \A f \in FrameNumbers :
                  Position(f) < Elapsed(s) /\ Elapsed(s) - Position(f) <= Capacity =>
                    Get(r.session.used, f) =
                      IF s.dirty # NoFrame /\ Position(s.dirty) <= Position(f)
                      THEN RemoteFor(s, f) ELSE Get(s.used, f)
             /\ Position(s.confirmed) <= Position(r.session.confirmed)
             /\ \A f \in FrameNumbers :
                  Position(f) < Position(s.confirmed) =>
                    r.session.world.inputs[f] = s.world.inputs[f]
             /\ Confirms(s, r.session)
<1>1. CASE s.dirty = NoFrame
  <2> DEFINE t == UpdateConfirmation(s)
  <2>1. /\ Sound(t) /\ t = [s EXCEPT !.confirmed = t.confirmed]
        /\ Position(s.confirmed) <= Position(t.confirmed) /\ Confirms(s, t)
    BY ConfirmationSound
  <2>2. FlushCorrections(s) = [session |-> t, error |-> "ok"]
    BY <1>1 DEF FlushCorrections, Result
  <2> HIDE DEF t
  <2>3. /\ t.world = s.world /\ t.remote = s.remote /\ t.dirty = NoFrame
        /\ t.peer = s.peer /\ t.local = s.local /\ t.used = s.used
    BY <1>1, <2>1 DEF Sound, Sessions
  <2>4. QED
    BY <1>1, <2>1, <2>2, <2>3
<1>2. CASE s.dirty # NoFrame
  <2> DEFINE d == s.dirty
             n == Elapsed(s)
             w == ResimulatedWorld(s, Depth(s))
             redo == Resimulated(s, Depth(s), "ok")
             u == [redo EXCEPT !.dirty = NoFrame,
                               !.metrics = CountRollback(@, Depth(s))]
             t == UpdateConfirmation(u)
  <2>1. /\ d \in FrameNumbers /\ Position(d) \in Nat
        /\ n \in Nat /\ 2 * n < Modulus
        /\ Depth(s) = n - Position(d)
        /\ Depth(s) \in Nat /\ 0 < Depth(s) /\ Depth(s) <= MaxRollback
        /\ Depth(s) <= Capacity
        /\ \A k \in 0 .. Depth(s) :
             /\ FrameOffset(d, k) \in FrameNumbers
             /\ Position(FrameOffset(d, k)) = Position(d) + k
        /\ {FrameOffset(d, k) : k \in 0 .. Depth(s) - 1} = Redone(s)
        /\ {FrameOffset(d, k) : k \in 1 .. Depth(s)} = Reached(s)
    BY <1>2, CorrectionRange
  <2>2. /\ w \in Worlds /\ w.frame = s.world.frame
        /\ \A f \in FrameNumbers :
             /\ Position(f) < Position(d) => w.inputs[f] = s.world.inputs[f]
             /\ f \in Redone(s) => w.inputs[f] = ResimulatedPair(s, f)
             /\ n <= Position(f) => w.inputs[f] = NoPair
        /\ \A f \in Redone(s) \union Reached(s) :
             ResimulatedWorld(s, FrameDistance(d, f)) = Prefix(w, f)
    BY <1>2, ResimulatedWorldFacts
  <2>3. /\ s \in Sessions /\ s.world.frame \in FrameNumbers
        /\ Position(s.confirmed) \in Nat /\ Position(s.confirmed) <= Position(d)
        /\ s.local \in RingOf(Buttons) /\ s.used \in RingOf(Buttons)
        /\ s.snapshots \in RingOf(Worlds) /\ s.hashes \in RingOf(Worlds)
        /\ s.metrics \in Metrics
    BY <1>2, PositionFacts DEF Sound, DirtyFits, Sessions, Worlds
  <2>4. FlushCorrections(s) = [session |-> t, error |-> "ok"]
    <3>1. ASSUME NEW k \in 0 .. Depth(s) - 1
          PROVE  ResimulationFailure(s, k) = "ok"
      <4>1. /\ FrameOffset(d, k) \in FrameNumbers
            /\ Position(FrameOffset(d, k)) < n
            /\ n - Position(FrameOffset(d, k)) <= Capacity
        <5>1. k \in 0 .. Depth(s) /\ k \in Nat /\ k < Depth(s)
          BY <2>1
        <5>2. /\ FrameOffset(d, k) \in FrameNumbers
              /\ Position(FrameOffset(d, k)) = Position(d) + k
          BY <2>1, <5>1
        <5>3. QED
          BY <2>1, <5>1, <5>2, CapacityAssumption
      <4>2. Contains(s.local, FrameOffset(d, k))
        BY <4>1 DEF Sound, HistoryFits
      <4>3. QED
        BY <4>2, Zenon DEF ResimulationFailure, SimulationIsTotal
    <3>2. {k \in 0 .. Depth(s) - 1 : ResimulationFailure(s, k) # "ok"} = {}
      BY <3>1
    <3>3. Contains(s.snapshots, d)
      <4>1. Position(d) < n /\ n - Position(d) <= Capacity
        BY <2>1, CapacityAssumption
      <4>2. QED
        BY <2>1, <4>1 DEF Sound, HistoryFits
    <3>4. ~ (Depth(s) > MaxRollback)
      BY <2>1, SessionAssumption
    <3>5. t = Corrected(redo, Depth(s))
      BY DEF Corrected
    <3> HIDE DEF t, redo
    <3>6. FlushCorrections(s) = Result(Corrected(redo, Depth(s)), "ok")
      BY <1>2, <3>2, <3>3, <3>4 DEF FlushCorrections, redo
    <3>7. QED
      BY <3>5, <3>6 DEF Result
  <2> DEFINE snapshots == [f \in Redone(s) |-> ResimulatedWorld(s, FrameDistance(d, f))]
             used      == [f \in Redone(s) |-> RemoteFor(s, f)]
             hashes    == [f \in Reached(s) |-> ResimulatedWorld(s, FrameDistance(d, f))]
  <2>5. redo = [s EXCEPT !.world = w,
                         !.snapshots = PutAll(s.snapshots, snapshots),
                         !.used = PutAll(s.used, used),
                         !.hashes = PutAll(s.hashes, hashes)]
    BY <2>1, <2>3 DEF Resimulated, Sessions
  <2> HIDE DEF redo, w
  <2>6. /\ redo.peer = s.peer /\ redo.world = w /\ redo.local = s.local
        /\ redo.remote = s.remote
        /\ redo.snapshots = PutAll(s.snapshots, snapshots)
        /\ redo.used = PutAll(s.used, used)
        /\ redo.hashes = PutAll(s.hashes, hashes)
        /\ redo.confirmed = s.confirmed
        /\ redo.metrics \in Metrics
        /\ redo = [peer |-> redo.peer, world |-> redo.world, local |-> redo.local,
                   remote |-> redo.remote, used |-> redo.used,
                   snapshots |-> redo.snapshots, hashes |-> redo.hashes,
                   dirty |-> redo.dirty, confirmed |-> redo.confirmed,
                   metrics |-> redo.metrics]
    BY <2>3, <2>5 DEF Sessions
  <2>7. /\ u.peer = s.peer /\ u.world = w /\ u.local = s.local
        /\ u.remote = s.remote
        /\ u.snapshots = PutAll(s.snapshots, snapshots)
        /\ u.used = PutAll(s.used, used)
        /\ u.hashes = PutAll(s.hashes, hashes)
        /\ u.dirty = NoFrame /\ u.confirmed = s.confirmed
        /\ u.metrics \in Metrics
        /\ u = [peer |-> u.peer, world |-> u.world, local |-> u.local,
                remote |-> u.remote, used |-> u.used,
                snapshots |-> u.snapshots, hashes |-> u.hashes,
                dirty |-> u.dirty, confirmed |-> u.confirmed,
                metrics |-> u.metrics]
    <3> DEFINE m == CountRollback(redo.metrics, Depth(s))
    <3>1. m \in Metrics
      BY <2>1, <2>6, CountRollbackType
    <3>2. u = [redo EXCEPT !.dirty = NoFrame, !.metrics = m]
      OBVIOUS
    <3> HIDE DEF m, u
    <3>3. QED
      BY <2>6, <3>1, <3>2
  <2> HIDE DEF u, snapshots, used, hashes
  <2>8. /\ Redone(s) \in SUBSET FrameNumbers /\ Reached(s) \in SUBSET FrameNumbers
        /\ \A f, g \in Redone(s) : RingIndex(f) = RingIndex(g) => f = g
        /\ \A f, g \in Reached(s) : RingIndex(f) = RingIndex(g) => f = g
    <3>1. ASSUME NEW f \in FrameNumbers, NEW g \in FrameNumbers,
                 Position(f) - Position(g) < Capacity,
                 Position(g) - Position(f) < Capacity,
                 RingIndex(f) = RingIndex(g)
          PROVE  f = g
      BY <3>1, PositionFacts, PositionsInSlot, CapacityAssumption
    <3>2. \A f, g \in Redone(s) : /\ f \in FrameNumbers /\ g \in FrameNumbers
                                  /\ Position(f) - Position(g) < Capacity
      BY <2>1, PositionFacts, CapacityAssumption DEF Redone
    <3>3. \A f, g \in Reached(s) : /\ f \in FrameNumbers /\ g \in FrameNumbers
                                   /\ Position(f) - Position(g) < Capacity
      BY <2>1, PositionFacts, CapacityAssumption DEF Reached
    <3>4. QED
      BY <3>1, <3>2, <3>3
  <2>9. /\ snapshots \in [Redone(s) -> Worlds]
        /\ hashes \in [Reached(s) -> Worlds]
        /\ used \in [Redone(s) -> Buttons]
        /\ \A f \in Redone(s) : snapshots[f] = Prefix(w, f) /\ used[f] = RemoteFor(s, f)
        /\ \A f \in Reached(s) : hashes[f] = Prefix(w, f)
    <3>1. \A f \in Redone(s) \union Reached(s) : Prefix(w, f) \in Worlds
      BY <2>2, <2>8, PrefixType
    <3>2. \A f \in Redone(s) : RemoteFor(s, f) \in Buttons
      BY <2>3, <2>8, RemoteForType
    <3>3. QED
      BY <2>2, <3>1, <3>2 DEF snapshots, hashes, used
  <2>10. /\ u.snapshots \in RingOf(Worlds)
         /\ \A f \in Redone(s) : Contains(u.snapshots, f)
                                 /\ Get(u.snapshots, f) = Prefix(w, f)
         /\ \A g \in FrameNumbers \ Redone(s) :
              /\ Contains(u.snapshots, g) <=>
                   Contains(s.snapshots, g)
                   /\ \A f \in Redone(s) : RingIndex(f) # RingIndex(g)
              /\ Contains(u.snapshots, g) => Get(u.snapshots, g) = Get(s.snapshots, g)
    <3>0. /\ s.snapshots \in RingOf(Worlds) /\ Redone(s) \in SUBSET FrameNumbers
          /\ snapshots \in [Redone(s) -> Worlds]
          /\ \A f, g \in Redone(s) : RingIndex(f) = RingIndex(g) => f = g
      BY <2>3, <2>8, <2>9
    <3>1. /\ PutAll(s.snapshots, snapshots) \in RingOf(Worlds)
          /\ \A f \in Redone(s) : Contains(PutAll(s.snapshots, snapshots), f)
               /\ Get(PutAll(s.snapshots, snapshots), f) = snapshots[f]
          /\ \A g \in FrameNumbers \ Redone(s) :
              /\ Contains(PutAll(s.snapshots, snapshots), g) <=>
                   Contains(s.snapshots, g)
                   /\ \A f \in Redone(s) : RingIndex(f) # RingIndex(g)
              /\ Contains(PutAll(s.snapshots, snapshots), g) =>
                   Get(PutAll(s.snapshots, snapshots), g) = Get(s.snapshots, g)
      BY <3>0, PutAllFacts
    <3>2. QED
      BY <2>7, <2>9, <3>1
  <2>11. /\ u.used \in RingOf(Buttons)
         /\ \A f \in Redone(s) : Contains(u.used, f)
                                 /\ Get(u.used, f) = RemoteFor(s, f)
         /\ \A g \in FrameNumbers \ Redone(s) :
              /\ Contains(u.used, g) <=>
                   Contains(s.used, g)
                   /\ \A f \in Redone(s) : RingIndex(f) # RingIndex(g)
              /\ Contains(u.used, g) => Get(u.used, g) = Get(s.used, g)
    <3>0. /\ s.used \in RingOf(Buttons) /\ Redone(s) \in SUBSET FrameNumbers
          /\ used \in [Redone(s) -> Buttons]
          /\ \A f, g \in Redone(s) : RingIndex(f) = RingIndex(g) => f = g
      BY <2>3, <2>8, <2>9
    <3>1. /\ PutAll(s.used, used) \in RingOf(Buttons)
          /\ \A f \in Redone(s) : Contains(PutAll(s.used, used), f)
               /\ Get(PutAll(s.used, used), f) = used[f]
          /\ \A g \in FrameNumbers \ Redone(s) :
              /\ Contains(PutAll(s.used, used), g) <=>
                   Contains(s.used, g)
                   /\ \A f \in Redone(s) : RingIndex(f) # RingIndex(g)
              /\ Contains(PutAll(s.used, used), g) =>
                   Get(PutAll(s.used, used), g) = Get(s.used, g)
      BY <3>0, PutAllFacts
    <3>2. QED
      BY <2>7, <2>9, <3>1
  <2>12. /\ u.hashes \in RingOf(Worlds)
         /\ \A f \in Reached(s) : Contains(u.hashes, f)
                                  /\ Get(u.hashes, f) = Prefix(w, f)
         /\ \A g \in FrameNumbers \ Reached(s) :
              /\ Contains(u.hashes, g) <=>
                   Contains(s.hashes, g)
                   /\ \A f \in Reached(s) : RingIndex(f) # RingIndex(g)
              /\ Contains(u.hashes, g) => Get(u.hashes, g) = Get(s.hashes, g)
    <3>0. /\ s.hashes \in RingOf(Worlds) /\ Reached(s) \in SUBSET FrameNumbers
          /\ hashes \in [Reached(s) -> Worlds]
          /\ \A f, g \in Reached(s) : RingIndex(f) = RingIndex(g) => f = g
      BY <2>3, <2>8, <2>9
    <3>1. /\ PutAll(s.hashes, hashes) \in RingOf(Worlds)
          /\ \A f \in Reached(s) : Contains(PutAll(s.hashes, hashes), f)
               /\ Get(PutAll(s.hashes, hashes), f) = hashes[f]
          /\ \A g \in FrameNumbers \ Reached(s) :
              /\ Contains(PutAll(s.hashes, hashes), g) <=>
                   Contains(s.hashes, g)
                   /\ \A f \in Reached(s) : RingIndex(f) # RingIndex(g)
              /\ Contains(PutAll(s.hashes, hashes), g) =>
                   Get(PutAll(s.hashes, hashes), g) = Get(s.hashes, g)
      BY <3>0, PutAllFacts
    <3>2. QED
      BY <2>7, <2>9, <3>1
  <2>13. Elapsed(u) = n
    BY <2>2, <2>7 DEF Elapsed
  <2>14. ASSUME NEW b \in FrameNumbers, Position(b) <= Position(d)
         PROVE  Prefix(w, b) = Prefix(s.world, b)
    <3>1. ASSUME NEW f \in FrameNumbers, Position(f) < Position(b)
          PROVE  w.inputs[f] = s.world.inputs[f]
      <4>1. Position(f) < Position(d)
        BY <2>1, <2>14, <3>1, PositionFacts
      <4>2. QED
        BY <2>2, <4>1
    <3>2. QED
      BY <3>1, PrefixAgrees
  <2>15. u \in Sessions
    BY <2>2, <2>3, <2>7, <2>10, <2>11, <2>12 DEF Sessions
  <2>16. WorldFits(u)
    BY <2>1, <2>2, <2>7, <2>13 DEF WorldFits
  <2>17. HistoryFits(u)
    <3>1. SUFFICES ASSUME NEW f \in FrameNumbers, Position(f) < n,
                          n - Position(f) <= Capacity
                   PROVE  /\ Contains(u.snapshots, f)
                          /\ Get(u.snapshots, f) = Prefix(w, f)
                          /\ Contains(s.local, f)
                          /\ Contains(u.used, f)
                          /\ w.inputs[f] =
                               MakePair(u, Get(s.local, f), Get(u.used, f))
      BY <2>7, <2>13 DEF HistoryFits
    <3>2. /\ Contains(s.snapshots, f) /\ Get(s.snapshots, f) = Prefix(s.world, f)
          /\ Contains(s.local, f) /\ Contains(s.used, f)
          /\ s.world.inputs[f] = MakePair(s, Get(s.local, f), Get(s.used, f))
      BY <3>1 DEF Sound, HistoryFits
    <3>3. CASE f \in Redone(s)
      BY <2>2, <2>7, <2>10, <2>11, <3>2, <3>3 DEF ResimulatedPair, MakePair
    <3>4. CASE f \notin Redone(s)
      <4>1. Position(f) \in Nat /\ Position(f) < Position(d)
        BY <2>1, <3>1, <3>4, PositionFacts DEF Redone
      <4>2. ASSUME NEW g \in Redone(s) PROVE RingIndex(g) # RingIndex(f)
        <5>1. /\ g \in FrameNumbers /\ Position(g) \in Nat
              /\ Position(d) <= Position(g) /\ Position(g) < n
          BY PositionFacts DEF Redone
        <5>2. QED
          BY <2>1, <3>1, <4>1, <5>1, PositionsInSlot, CapacityAssumption
      <4>3. Prefix(w, f) = Prefix(s.world, f) /\ w.inputs[f] = s.world.inputs[f]
        BY <2>1, <2>2, <2>14, <4>1
      <4>4. QED
        BY <2>7, <2>10, <2>11, <3>2, <3>4, <4>2, <4>3 DEF MakePair
    <3>5. QED
      BY <3>3, <3>4
  <2>18. HashesFit(u)
    <3>1. SUFFICES ASSUME NEW b \in FrameNumbers, Contains(u.hashes, b)
                   PROVE  Position(b) <= n /\ Get(u.hashes, b) = Prefix(w, b)
      BY <2>7, <2>13 DEF HashesFit
    <3>2. CASE b \in Reached(s)
      BY <2>12, <3>2 DEF Reached
    <3>3. CASE b \notin Reached(s)
      <4>1. Contains(s.hashes, b) /\ Get(u.hashes, b) = Get(s.hashes, b)
        BY <2>12, <3>1, <3>3
      <4>2. Position(b) <= n /\ Get(s.hashes, b) = Prefix(s.world, b)
        BY <4>1 DEF Sound, HashesFit
      <4>3. Position(b) <= Position(d)
        BY <2>1, <3>3, <4>2, PositionFacts DEF Reached
      <4>4. QED
        BY <2>14, <4>1, <4>2, <4>3
    <3>4. QED
      BY <3>2, <3>3
  <2>29. SnapshotsFit(u)
    <3>1. SUFFICES ASSUME NEW f \in FrameNumbers, Contains(u.snapshots, f)
                   PROVE  Position(f) < n /\ Get(u.snapshots, f) = Prefix(w, f)
      BY <2>7, <2>13 DEF SnapshotsFit
    <3>2. CASE f \in Redone(s)
      BY <2>10, <3>2 DEF Redone
    <3>3. CASE f \notin Redone(s)
      <4>1. Contains(s.snapshots, f) /\ Get(u.snapshots, f) = Get(s.snapshots, f)
        BY <2>10, <3>1, <3>3
      <4>2. Position(f) < n /\ Get(s.snapshots, f) = Prefix(s.world, f)
        BY <4>1 DEF Sound, SnapshotsFit
      <4>3. Position(f) <= Position(d)
        BY <2>1, <3>3, <4>2, PositionFacts DEF Redone
      <4>4. QED
        BY <2>14, <4>1, <4>2, <4>3
    <3>4. QED
      BY <3>2, <3>3
  <2>19. NothingAhead(u)
    <3>1. \A f \in Redone(s) : Position(f) < n
      BY DEF Redone
    <3>2. QED
      BY <2>7, <2>11, <2>13, <3>1 DEF Sound, NothingAhead
  <2>20. LeadFits(u)
    BY <2>7, <2>13 DEF Sound, LeadFits
  <2>21. MistakesPending(u)
    <3>1. SUFFICES ASSUME NEW f \in FrameNumbers, Contains(u.used, f),
                          Contains(s.remote, f), Get(u.used, f) # Get(s.remote, f)
                   PROVE  FALSE
      BY <2>7 DEF MistakesPending
    <3>2. CASE f \in Redone(s)
      BY <2>11, <3>1, <3>2 DEF RemoteFor
    <3>3. CASE f \notin Redone(s)
      <4>1. Contains(s.used, f) /\ Get(u.used, f) = Get(s.used, f)
        BY <2>11, <3>1, <3>3
      <4>2. Position(d) <= Position(f)
        BY <3>1, <4>1 DEF Sound, MistakesPending
      <4>3. Position(f) < n
        BY <4>1 DEF Sound, NothingAhead
      <4>4. QED
        BY <3>3, <4>2, <4>3 DEF Redone
    <3>4. QED
      BY <3>2, <3>3
  <2>22. DirtyFits(u)
    BY <2>7 DEF DirtyFits
  <2>23. ConfirmedFits(u)
    BY <2>7, <2>13 DEF Sound, ConfirmedFits
  <2>24. Sound(u)
    BY <2>15, <2>16, <2>17, <2>18, <2>29, <2>19, <2>20, <2>21, <2>22, <2>23 DEF Sound
  <2>25. /\ Sound(t) /\ t = [u EXCEPT !.confirmed = t.confirmed]
         /\ Position(u.confirmed) <= Position(t.confirmed) /\ Confirms(u, t)
    BY <2>24, ConfirmationSound
  <2> HIDE DEF t
  <2>26. /\ t.world = w /\ t.remote = s.remote /\ t.dirty = NoFrame
         /\ t.peer = s.peer /\ t.local = s.local /\ t.used = u.used
    BY <2>7, <2>25
  <2>27. ASSUME NEW f \in FrameNumbers, Position(f) < Position(s.confirmed)
         PROVE  w.inputs[f] = s.world.inputs[f]
    <3>1. Position(f) < Position(d)
      BY <2>1, <2>3, <2>27, PositionFacts
    <3>2. QED
      BY <2>2, <3>1
  <2>30. ASSUME NEW f \in FrameNumbers, Position(f) < n, n - Position(f) <= Capacity
         PROVE  Get(t.used, f) = IF Position(d) <= Position(f)
                                 THEN RemoteFor(s, f) ELSE Get(s.used, f)
    <3>1. CASE f \in Redone(s)
      BY <2>11, <2>26, <3>1 DEF Redone
    <3>2. CASE f \notin Redone(s)
      <4>1. ~ Position(d) <= Position(f)
        BY <2>30, <3>2 DEF Redone
      <4>2. Contains(u.used, f)
        BY <2>13, <2>17, <2>30 DEF HistoryFits
      <4>3. QED
        BY <2>11, <2>26, <3>2, <4>1, <4>2
    <3>3. QED
      BY <3>1, <3>2
  <2>31. Confirms(s, t)
    BY <2>7, <2>25 DEF Confirms
  <2>28. QED
    BY <1>2, <2>2, <2>4, <2>7, <2>25, <2>26, <2>27, <2>30, <2>31
<1>3. QED
  BY <1>1, <1>2

-----------------------------------------------------------------------------
(* The predictions that advance and flush_corrections make *)

(* What a frame is simulated with depends on the remote inputs alone. *)
LEMMA RemoteForSame ==
  ASSUME NEW s, NEW t, t.remote = s.remote, NEW f
  PROVE  RemoteFor(t, f) = RemoteFor(s, f)
BY DEF RemoteFor, PredictedRemote

(* A correction predicts afresh from the dirty frame on. *)
LEMMA FlushFresh ==
  ASSUME NEW s, Sound(s), Fresh(s), Elapsed(s) <= Capacity, SimulationIsTotal
  PROVE  Fresh(FlushCorrections(s).session)
<1> DEFINE t == FlushCorrections(s).session
<1>1. /\ t.dirty = NoFrame /\ t.world.frame = s.world.frame
      /\ t.remote = s.remote
      /\ \A f \in FrameNumbers :
           Position(f) < Elapsed(s) /\ Elapsed(s) - Position(f) <= Capacity =>
             Get(t.used, f) =
               IF s.dirty # NoFrame /\ Position(s.dirty) <= Position(f)
               THEN RemoteFor(s, f) ELSE Get(s.used, f)
  BY FlushSound
<1>2. Elapsed(s) \in Nat /\ (s.dirty # NoFrame => Position(s.dirty) \in Nat)
  BY PositionFacts DEF Sound, Sessions, Worlds, Elapsed
<1> HIDE DEF t
<1>3. ASSUME NEW f \in FrameNumbers, Position(f) < Elapsed(t)
      PROVE  Get(t.used, f) = RemoteFor(t, f)
  <2>1. /\ Position(f) < Elapsed(s) /\ Position(f) \in Nat
        /\ Elapsed(s) - Position(f) <= Capacity
    BY <1>1, <1>2, <1>3, PositionFacts, CapacityAssumption DEF Elapsed
  <2>2. RemoteFor(t, f) = RemoteFor(s, f)
    BY <1>1, RemoteForSame
  <2>3. CASE s.dirty # NoFrame /\ Position(s.dirty) <= Position(f)
    BY <1>1, <2>1, <2>2, <2>3
  <2>4. CASE ~ (s.dirty # NoFrame /\ Position(s.dirty) <= Position(f))
    BY <1>1, <1>2, <2>1, <2>2, <2>4 DEF Fresh
  <2>5. QED
    BY <2>3, <2>4
<1>4. QED
  BY <1>3 DEF Fresh, t

(* A new frame is simulated with a fresh prediction. *)
LEMMA SimulateNextFresh ==
  ASSUME NEW s, Sound(s), s.dirty = NoFrame, 2 * (Elapsed(s) + 1) < Modulus,
         NEW local \in Buttons, SimulationIsTotal, Fresh(s), Elapsed(s) < Capacity
  PROVE  Fresh(SimulateNext(s, local).session)
<1> DEFINE t == SimulateNext(s, local).session
<1>1. /\ t.dirty = NoFrame /\ Elapsed(t) = Elapsed(s) + 1
      /\ t.remote = s.remote
      /\ \A f \in FrameNumbers :
           Position(f) <= Elapsed(s) /\ Elapsed(s) - Position(f) < Capacity =>
             Get(t.used, f) =
               IF f = s.world.frame THEN RemoteFor(s, f) ELSE Get(s.used, f)
  BY SimulateNextSound
<1>2. /\ Elapsed(s) \in Nat /\ Elapsed(s) = Position(s.world.frame)
      /\ s.world.frame \in FrameNumbers
  BY PositionFacts DEF Sound, Sessions, Worlds, Elapsed
<1> HIDE DEF t
<1>3. ASSUME NEW f \in FrameNumbers, Position(f) < Elapsed(t)
      PROVE  Get(t.used, f) = RemoteFor(t, f)
  <2>1. /\ Position(f) <= Elapsed(s) /\ Position(f) \in Nat
        /\ Elapsed(s) - Position(f) < Capacity
    BY <1>1, <1>2, <1>3, PositionFacts, CapacityAssumption
  <2>2. RemoteFor(t, f) = RemoteFor(s, f)
    BY <1>1, RemoteForSame
  <2>3. CASE f = s.world.frame
    BY <1>1, <2>1, <2>2, <2>3
  <2>4. CASE f # s.world.frame
    <3>1. Position(f) < Elapsed(s)
      BY <1>2, <2>1, <2>4, PositionFacts
    <3>2. QED
      BY <1>1, <2>1, <2>2, <2>4, <3>1 DEF Fresh
  <2>5. QED
    BY <2>3, <2>4
<1>4. QED
  BY <1>3 DEF Fresh, t

-----------------------------------------------------------------------------
(* advance and ingest_remote *)

(* advance, accepted or refused, keeps a session sound, its remote inputs  *)
(* and its confirmed frames.  It accepts the local player's input for the  *)
(* present frame, and then one more frame is simulated.                    *)
LEMMA AdvanceSound ==
  ASSUME NEW s, Sound(s), 2 * (Elapsed(s) + 1) < Modulus, SimulationIsTotal,
         NEW player, NEW frame, NEW local \in Buttons
  PROVE  LET r == Advance(s, player, frame, local)
             t == r.session
         IN  /\ Sound(t)
             /\ t.peer = s.peer
             /\ t.remote = s.remote
             /\ IF player = s.peer /\ frame = s.world.frame
                THEN /\ r.error = "ok"
                     /\ Elapsed(t) = Elapsed(s) + 1
                     /\ t.local = Put(s.local, s.world.frame, local)
                ELSE /\ Elapsed(t) = Elapsed(s)
                     /\ t.local = s.local
             /\ Position(s.confirmed) <= Position(t.confirmed)
             /\ \A f \in FrameNumbers :
                  Position(f) < Position(s.confirmed) =>
                    t.world.inputs[f] = s.world.inputs[f]
             /\ Fresh(s) /\ Elapsed(s) < Capacity => Fresh(t)
<1> DEFINE flushed == IF s.dirty = NoFrame THEN Result(s, "ok") ELSE FlushCorrections(s)
           u == flushed.session
           r == Advance(s, player, frame, local)
           t == r.session
<1>1. /\ Position(s.confirmed) \in Nat /\ Position(s.confirmed) <= Elapsed(s)
      /\ Elapsed(s) \in Nat
  BY PositionFacts DEF Sound, Sessions, Worlds, ConfirmedFits, Elapsed
<1>2. /\ flushed.error = "ok" /\ Sound(u) /\ u.dirty = NoFrame
      /\ u.world.frame = s.world.frame /\ u.remote = s.remote
      /\ u.peer = s.peer /\ u.local = s.local
      /\ Position(s.confirmed) <= Position(u.confirmed)
      /\ \A f \in FrameNumbers :
           Position(f) < Position(s.confirmed) =>
             u.world.inputs[f] = s.world.inputs[f]
      /\ Fresh(s) /\ Elapsed(s) < Capacity => Fresh(u)
  <2>1. CASE s.dirty = NoFrame
    BY <1>1, <2>1 DEF Result
  <2>2. CASE s.dirty # NoFrame
    <3>1. Fresh(s) /\ Elapsed(s) < Capacity => Fresh(FlushCorrections(s).session)
      BY <1>1, FlushFresh, CapacityAssumption
    <3>2. flushed = FlushCorrections(s)
      BY <2>2
    <3> HIDE DEF flushed
    <3>3. QED
      BY <3>1, <3>2, FlushSound
  <2>3. QED
    BY <2>1, <2>2
<1>3. r = IF frame # u.world.frame \/ player # u.peer
          THEN Result(u, "frame_mismatch") ELSE SimulateNext(u, local)
  <2> HIDE DEF u
  <2>1. QED
    BY <1>2, Zenon DEF Advance, Result, u
<1> HIDE DEF flushed, u, r
<1>4. 2 * (Elapsed(u) + 1) < Modulus /\ Elapsed(u) = Elapsed(s)
  BY <1>2 DEF Elapsed
<1>5. LET n == SimulateNext(u, local)
      IN  /\ n.error = "ok"
          /\ Sound(n.session)
          /\ Elapsed(n.session) = Elapsed(u) + 1
          /\ n.session.peer = u.peer
          /\ n.session.remote = u.remote
          /\ n.session.local = Put(u.local, u.world.frame, local)
          /\ Position(u.confirmed) <= Position(n.session.confirmed)
          /\ \A f \in FrameNumbers :
               Position(f) < Elapsed(u) =>
                 n.session.world.inputs[f] = u.world.inputs[f]
          /\ Fresh(u) /\ Elapsed(u) < Capacity => Fresh(n.session)
  BY <1>2, <1>4, SimulateNextSound, SimulateNextFresh
<1>6. CASE frame # u.world.frame \/ player # u.peer
  <2>1. t = u
    BY <1>3, <1>6 DEF Result
  <2>2. ~ (player = s.peer /\ frame = s.world.frame)
    BY <1>2, <1>6
  <2>3. QED
    BY <1>2, <1>4, <2>1, <2>2 DEF r
<1>7. CASE ~ (frame # u.world.frame \/ player # u.peer)
  <2>1. r = SimulateNext(u, local)
    BY <1>3, <1>7
  <2>2. /\ Position(u.confirmed) \in Nat /\ Position(t.confirmed) \in Nat
    BY <1>2, <1>5, <2>1, PositionFacts DEF Sound, Sessions
  <2>3. ASSUME NEW f \in FrameNumbers, Position(f) < Position(s.confirmed)
        PROVE  t.world.inputs[f] = s.world.inputs[f]
    <3>1. Position(f) < Elapsed(u)
      BY <1>1, <1>4, <2>3, PositionFacts
    <3>2. QED
      BY <1>2, <1>5, <2>1, <2>3, <3>1
  <2>4. Position(s.confirmed) <= Position(t.confirmed)
    BY <1>1, <1>2, <1>5, <2>1, <2>2
  <2>5. player = s.peer /\ frame = s.world.frame
    BY <1>2, <1>7
  <2>6. /\ r.error = "ok" /\ Sound(t) /\ t.peer = s.peer /\ t.remote = s.remote
        /\ Elapsed(t) = Elapsed(s) + 1
        /\ t.local = Put(s.local, s.world.frame, local)
        /\ Fresh(s) /\ Elapsed(s) < Capacity => Fresh(t)
    BY <1>2, <1>4, <1>5, <2>1
  <2>7. QED
    BY <2>3, <2>4, <2>5, <2>6 DEF r
<1>8. QED
  BY <1>6, <1>7

(* An accepted input changes the remote ring, the counter of late inputs   *)
(* and, if the frame was simulated with another value, the pending         *)
(* correction and the confirmed boundary.                                  *)
LEMMA AcceptedFacts ==
  ASSUME NEW s, Sound(s), NEW frame \in FrameNumbers, NEW remote \in Buttons,
         2 * Position(frame) < Modulus
  PROVE  LET u == Accepted(s, frame, remote)
             wrong == /\ Position(frame) < Elapsed(s)
                      /\ Contains(s.used, frame)
                      /\ Get(s.used, frame) # remote
             first == wrong /\ (\/ s.dirty = NoFrame
                                \/ Position(frame) < Position(s.dirty))
             back  == wrong /\ Position(frame) < Position(s.confirmed)
         IN  /\ u \in Sessions
             /\ u.peer = s.peer /\ u.world = s.world /\ u.local = s.local
             /\ u.used = s.used /\ u.snapshots = s.snapshots /\ u.hashes = s.hashes
             /\ u.remote = Put(s.remote, frame, remote)
             /\ u.dirty = IF first THEN frame ELSE s.dirty
             /\ u.confirmed = IF back THEN frame ELSE s.confirmed
<1> DEFINE late   == FrameBefore(frame, s.world.frame)
           wrong  == late /\ Contains(s.used, frame) /\ Get(s.used, frame) # remote
           stored == [s EXCEPT
                       !.remote = Put(@, frame, remote),
                       !.metrics.late =
                          IF late /\ ~ Contains(s.remote, frame) THEN @ + 1 ELSE @]
           u == Accepted(s, frame, remote)
<1>1. /\ s \in Sessions /\ s.world.frame \in FrameNumbers
      /\ s.confirmed \in FrameNumbers
      /\ Elapsed(s) = Position(s.world.frame) /\ Elapsed(s) \in Nat
      /\ 2 * Elapsed(s) < Modulus /\ Position(s.confirmed) <= Elapsed(s)
      /\ s.remote \in RingOf(Buttons) /\ s.metrics \in Metrics
  BY PositionFacts
     DEF Sound, Sessions, Worlds, Elapsed, WorldFits, ConfirmedFits
<1>2. s.dirty # NoFrame =>
        /\ s.dirty \in FrameNumbers /\ Position(s.dirty) < Elapsed(s)
        /\ Position(s.dirty) \in Nat
  BY <1>1, PositionFacts DEF Sound, DirtyFits, Sessions
<1>3. /\ 2 * Position(s.world.frame) < Modulus
      /\ 2 * Position(s.confirmed) < Modulus
      /\ Position(frame) \in Nat /\ Position(s.confirmed) \in Nat
  BY <1>1, PositionFacts, ModulusAssumption
<1>4. late <=> Position(frame) < Elapsed(s)
  BY <1>1, <1>3, PositionOrder
<1>5. FrameBefore(frame, s.confirmed) <=> Position(frame) < Position(s.confirmed)
  BY <1>1, <1>3, PositionOrder
<1>6. s.dirty # NoFrame =>
        (FrameBefore(frame, s.dirty) <=> Position(frame) < Position(s.dirty))
  <2>1. SUFFICES ASSUME s.dirty # NoFrame
                 PROVE  FrameBefore(frame, s.dirty) <=> Position(frame) < Position(s.dirty)
    OBVIOUS
  <2>2. 2 * Position(s.dirty) < Modulus
    BY <1>1, <1>2, <2>1, ModulusAssumption
  <2>3. QED
    BY <1>2, <2>1, <2>2, PositionOrder
<1>7. Put(s.remote, frame, remote) \in RingOf(Buttons)
  BY <1>1, PutFacts
<1> HIDE DEF late
<1>8. /\ stored.peer = s.peer /\ stored.world = s.world /\ stored.local = s.local
      /\ stored.used = s.used /\ stored.snapshots = s.snapshots
      /\ stored.hashes = s.hashes /\ stored.dirty = s.dirty
      /\ stored.confirmed = s.confirmed
      /\ stored.remote = Put(s.remote, frame, remote)
      /\ stored \in Sessions
  <2> DEFINE counted == IF late /\ ~ Contains(s.remote, frame)
                        THEN s.metrics.late + 1 ELSE s.metrics.late
             metrics == [s.metrics EXCEPT !.late = counted]
             ring    == Put(s.remote, frame, remote)
  <2>1. metrics \in Metrics
    <3>1. counted \in Nat
      BY <1>1 DEF Metrics
    <3> HIDE DEF counted
    <3>2. QED
      BY <1>1, <3>1 DEF Metrics
  <2>2. stored = [s EXCEPT !.remote = ring, !.metrics = metrics]
    BY <1>1 DEF Sessions
  <2> HIDE DEF stored, metrics
  <2>3. ring \in RingOf(Buttons)
    BY <1>7
  <2> HIDE DEF ring
  <2>4. /\ stored.peer = s.peer /\ stored.world = s.world /\ stored.local = s.local
        /\ stored.used = s.used /\ stored.snapshots = s.snapshots
        /\ stored.hashes = s.hashes /\ stored.dirty = s.dirty
        /\ stored.confirmed = s.confirmed
        /\ stored.remote = ring
        /\ stored \in Sessions
    BY <1>1, <2>1, <2>2, <2>3 DEF Sessions
  <2>5. QED
    BY <2>4 DEF ring
<1>9. u = IF wrong THEN MarkDirty(stored, frame) ELSE stored
  BY DEF Accepted, late
<1> HIDE DEF stored, wrong, u
<1>10. /\ MarkDirty(stored, frame).peer = s.peer
       /\ MarkDirty(stored, frame).world = s.world
       /\ MarkDirty(stored, frame).local = s.local
       /\ MarkDirty(stored, frame).used = s.used
       /\ MarkDirty(stored, frame).snapshots = s.snapshots
       /\ MarkDirty(stored, frame).hashes = s.hashes
       /\ MarkDirty(stored, frame).remote = Put(s.remote, frame, remote)
       /\ MarkDirty(stored, frame).dirty =
            IF s.dirty = NoFrame \/ FrameBefore(frame, s.dirty)
            THEN frame ELSE s.dirty
       /\ MarkDirty(stored, frame).confirmed =
            IF FrameBefore(frame, s.confirmed) THEN frame ELSE s.confirmed
       /\ MarkDirty(stored, frame) \in Sessions
  BY <1>1, <1>8 DEF MarkDirty, Sessions
<1>11. wrong <=> /\ Position(frame) < Elapsed(s)
                 /\ Contains(s.used, frame)
                 /\ Get(s.used, frame) # remote
  BY <1>4 DEF wrong
<1>12. CASE wrong
  BY <1>5, <1>6, <1>9, <1>10, <1>11, <1>12, Zenon DEF u
<1>13. CASE ~ wrong
  BY <1>8, <1>9, <1>11, <1>13, Zenon DEF u
<1>14. QED
  BY <1>12, <1>13

(* A confirmed frame's input comes again as it was. *)
Same(s, frame, remote) ==
  Position(frame) < Position(s.confirmed) =>
    Contains(s.remote, frame) /\ Get(s.remote, frame) = remote

(* An accepted input leaves a sound session, whose confirmed boundary has  *)
(* moved back only if the remote changed an input it had sent.             *)
LEMMA AcceptedSound ==
  ASSUME NEW s, Sound(s), NEW frame \in FrameNumbers, NEW remote \in Buttons,
         2 * Position(frame) < Modulus,
         Elapsed(s) <= Position(frame) + MaxRollback,
         Elapsed(s) <= Position(frame) + Capacity
  PROVE  /\ Sound(Accepted(s, frame, remote))
         /\ Same(s, frame, remote) =>
               Accepted(s, frame, remote).confirmed = s.confirmed
<1> DEFINE u == Accepted(s, frame, remote)
           wrong == /\ Position(frame) < Elapsed(s)
                    /\ Contains(s.used, frame)
                    /\ Get(s.used, frame) # remote
           first == wrong /\ (\/ s.dirty = NoFrame
                              \/ Position(frame) < Position(s.dirty))
           back  == wrong /\ Position(frame) < Position(s.confirmed)
<1>1. /\ u \in Sessions
      /\ u.peer = s.peer /\ u.world = s.world /\ u.local = s.local
      /\ u.used = s.used /\ u.snapshots = s.snapshots /\ u.hashes = s.hashes
      /\ u.remote = Put(s.remote, frame, remote)
      /\ u.dirty = IF first THEN frame ELSE s.dirty
      /\ u.confirmed = IF back THEN frame ELSE s.confirmed
  BY AcceptedFacts
<1> HIDE DEF u
<1>2. /\ s \in Sessions /\ s.remote \in RingOf(Buttons)
      /\ Elapsed(s) \in Nat /\ Position(frame) \in Nat
      /\ s.confirmed \in FrameNumbers /\ Position(s.confirmed) \in Nat
      /\ Position(s.confirmed) <= Elapsed(s)
      /\ MaxRollback \in Nat /\ Capacity \in Nat
  BY PositionFacts, SessionAssumption, CapacityAssumption
     DEF Sound, Sessions, Worlds, Elapsed, ConfirmedFits
<1>3. s.dirty # NoFrame =>
        /\ s.dirty \in FrameNumbers /\ Position(s.dirty) \in Nat
        /\ Position(s.dirty) < Elapsed(s)
        /\ Elapsed(s) - Position(s.dirty) <= MaxRollback
        /\ Elapsed(s) - Position(s.dirty) <= Capacity
        /\ Position(s.confirmed) <= Position(s.dirty)
  BY <1>2, PositionFacts DEF Sound, DirtyFits, Sessions
<1>4. /\ Contains(u.remote, frame) /\ Get(u.remote, frame) = remote
      /\ \A g \in FrameNumbers \ {frame} :
           /\ Contains(u.remote, g) <=>
                Contains(s.remote, g) /\ RingIndex(g) # RingIndex(frame)
           /\ Contains(u.remote, g) => Get(u.remote, g) = Get(s.remote, g)
  BY <1>1, <1>2, PutFacts
<1>5. Elapsed(u) = Elapsed(s)
  BY <1>1 DEF Elapsed
<1>6. WorldFits(u) /\ HashesFit(u) /\ SnapshotsFit(u) /\ NothingAhead(u)
  BY <1>1, <1>5 DEF Sound, WorldFits, HashesFit, SnapshotsFit, NothingAhead
<1>7. HistoryFits(u)
  BY <1>1, <1>5 DEF Sound, HistoryFits, MakePair
<1>8. LeadFits(u)
  BY <1>2, <1>4, <1>5 DEF Sound, LeadFits
<1>9. MistakesPending(u)
  <2>1. SUFFICES ASSUME NEW f \in FrameNumbers, Contains(s.used, f),
                        Contains(u.remote, f), Get(s.used, f) # Get(u.remote, f)
                 PROVE  u.dirty # NoFrame /\ Position(u.dirty) <= Position(f)
    BY <1>1 DEF MistakesPending
  <2>2. Position(f) \in Nat /\ NoFrame \notin FrameNumbers
    BY PositionFacts DEF NoFrame, FrameNumbers
  <2>3. CASE f = frame
    <3>1. wrong
      BY <1>4, <2>1, <2>3 DEF Sound, NothingAhead
    <3>2. QED
      BY <1>1, <1>2, <1>3, <2>2, <2>3, <3>1
  <2>4. CASE f # frame
    <3>1. Contains(s.remote, f) /\ Get(u.remote, f) = Get(s.remote, f)
      BY <1>4, <2>1, <2>4
    <3>2. s.dirty # NoFrame /\ Position(s.dirty) <= Position(f)
      BY <2>1, <3>1 DEF Sound, MistakesPending
    <3>3. QED
      BY <1>1, <1>2, <1>3, <2>2, <3>2
  <2>5. QED
    BY <2>3, <2>4
<1>10. DirtyFits(u)
  <2>1. SUFFICES ASSUME u.dirty # NoFrame
                 PROVE  /\ Position(u.dirty) < Elapsed(s)
                        /\ Elapsed(s) - Position(u.dirty) <= MaxRollback
                        /\ Elapsed(s) - Position(u.dirty) <= Capacity
                        /\ Position(u.confirmed) <= Position(u.dirty)
    BY <1>5 DEF DirtyFits
  <2>2. CASE first
    BY <1>1, <1>2, <2>2
  <2>3. CASE ~ first
    BY <1>1, <1>2, <1>3, <2>1, <2>3
  <2>4. QED
    BY <2>2, <2>3
<1>11. ConfirmedFits(u)
  <2>1. /\ Position(u.confirmed) <= Position(s.confirmed)
        /\ Position(u.confirmed) \in Nat
    BY <1>1, <1>2
  <2>2. ASSUME NEW f \in FrameNumbers, Position(f) < Position(u.confirmed)
        PROVE  Kept(u.remote, f)
    <3>1. PICK g \in FrameNumbers : /\ Contains(s.remote, g)
                                    /\ RingIndex(g) = RingIndex(f)
                                    /\ Position(f) <= Position(g)
      BY <1>2, <2>1, <2>2, PositionFacts DEF Sound, ConfirmedFits, Kept
    <3>2. CASE RingIndex(frame) # RingIndex(f)
      BY <1>4, <3>1, <3>2 DEF Kept
    <3>3. CASE RingIndex(frame) = RingIndex(f)
      <4>1. Position(f) \in Nat /\ Position(f) < Elapsed(s)
        BY <1>2, <2>1, <2>2, PositionFacts
      <4>2. Position(f) <= Position(frame)
        <5>1. SUFFICES ASSUME f # frame PROVE Position(f) <= Position(frame)
          BY <1>2
        <5>2. \/ Position(frame) - Position(f) >= Capacity
              \/ Position(f) - Position(frame) >= Capacity
          BY <3>3, <5>1, PositionsInSlot
        <5>3. QED
          BY <1>2, <4>1, <5>2
      <4>3. QED
        BY <1>4, <3>3, <4>2 DEF Kept
    <3>4. QED
      BY <3>2, <3>3
  <2>3. QED
    BY <1>2, <1>5, <2>1, <2>2 DEF ConfirmedFits
<1>12. Sound(u)
  BY <1>1, <1>6, <1>7, <1>8, <1>9, <1>10, <1>11 DEF Sound
<1>13. ASSUME Same(s, frame, remote), back
       PROVE  FALSE
  <2>1. Contains(s.remote, frame) /\ Get(s.remote, frame) = remote
    BY <1>13 DEF Same
  <2>2. s.dirty # NoFrame /\ Position(s.dirty) <= Position(frame)
    BY <1>13, <2>1 DEF Sound, MistakesPending
  <2>3. QED
    BY <1>2, <1>3, <1>13, <2>2
<1>14. QED
  BY <1>1, <1>12, <1>13 DEF u

(* A misprediction and a correction that was pending are still to be       *)
(* corrected after the input.                                              *)
Remembers(s, t, frame, remote) ==
  /\ /\ Position(frame) < Elapsed(s)
     /\ Contains(s.used, frame)
     /\ Get(s.used, frame) # remote
     => t.dirty # NoFrame /\ Position(t.dirty) <= Position(frame)
  /\ s.dirty # NoFrame => t.dirty # NoFrame /\ Position(t.dirty) <= Position(s.dirty)

(* The rings reach as far back as inputs are let in. *)
InReach(s) == MaxRollback <= Capacity \/ Elapsed(s) <= Capacity

(* ingest_remote, accepted or refused, keeps a session sound, leaves its   *)
(* world alone, and moves the confirmed boundary back only if the remote   *)
(* changed an input it had sent.                                           *)
LEMMA IngestSound ==
  ASSUME NEW s, Sound(s), NEW player, NEW frame \in FrameNumbers,
         NEW remote \in Buttons, 2 * Position(frame) < Modulus, InReach(s)
  PROVE  LET t == IngestRemote(s, player, frame, remote).session
         IN  /\ Sound(t)
             /\ t.peer = s.peer /\ t.world = s.world /\ t.local = s.local
             /\ \/ t = s
                \/ /\ t.remote = Put(s.remote, frame, remote)
                   /\ Elapsed(s) <= Position(frame) + MaxRollback
                   /\ t.used = s.used
                   /\ Remembers(s, t, frame, remote)
             /\ Same(s, frame, remote) =>
                  Position(s.confirmed) <= Position(t.confirmed)
             /\ Confirms(s, t)
<1> DEFINE t == IngestRemote(s, player, frame, remote).session
           u == Accepted(s, frame, remote)
           late == FrameBefore(frame, s.world.frame)
           tooLate == late /\ FrameDistance(frame, s.world.frame) > MaxRollback
<1>1. /\ s.world.frame \in FrameNumbers /\ s.confirmed \in FrameNumbers
      /\ Elapsed(s) = Position(s.world.frame) /\ Elapsed(s) \in Nat
      /\ 2 * Elapsed(s) < Modulus /\ Position(s.confirmed) \in Nat
      /\ Position(frame) \in Nat
      /\ 2 * Position(s.world.frame) < Modulus
      /\ MaxRollback \in Nat /\ Capacity \in Nat
  BY PositionFacts, CapacityAssumption, SessionAssumption
     DEF Sound, Sessions, Worlds, Elapsed, WorldFits
<1>2. t = IF player # RemotePeer(s) \/ tooLate THEN s ELSE UpdateConfirmation(u)
  BY DEF IngestRemote, Result
<1> HIDE DEF t, u
<1>3. CASE player # RemotePeer(s) \/ tooLate
  <2>1. t = s
    BY <1>2, <1>3
  <2>2. Confirms(s, s)
    BY <1>1, PositionFacts DEF Confirms
  <2>3. QED
    BY <1>1, <2>1, <2>2 DEF t
<1>4. CASE ~ (player # RemotePeer(s) \/ tooLate)
  <2>1. Elapsed(s) <= Position(frame) + MaxRollback
    <3>1. CASE late
      <4>1. Position(frame) < Elapsed(s)
        BY <1>1, <3>1, PositionOrder
      <4>2. FrameDistance(frame, s.world.frame) = Elapsed(s) - Position(frame)
        BY <1>1, <4>1, PositionFacts
      <4>3. ~ FrameDistance(frame, s.world.frame) > MaxRollback
        BY <1>4, <3>1
      <4>4. QED
        BY <1>1, <4>2, <4>3
    <3>2. CASE ~ late
      <4>1. ~ Position(frame) < Elapsed(s)
        BY <1>1, <3>2, PositionOrder
      <4>2. QED
        BY <1>1, <4>1
    <3>3. QED
      BY <3>1, <3>2
  <2>9. Elapsed(s) <= Position(frame) + Capacity
    BY <1>1, <2>1 DEF InReach
  <2>2. /\ Sound(u)
        /\ Same(s, frame, remote) => u.confirmed = s.confirmed
    BY <2>1, <2>9, AcceptedSound DEF u
  <2>3. /\ u.peer = s.peer /\ u.world = s.world /\ u.local = s.local
        /\ u.remote = Put(s.remote, frame, remote) /\ u.used = s.used
        /\ Remembers(s, u, frame, remote)
    <3> DEFINE wrong == /\ Position(frame) < Elapsed(s)
                        /\ Contains(s.used, frame)
                        /\ Get(s.used, frame) # remote
               first == wrong /\ (\/ s.dirty = NoFrame
                                  \/ Position(frame) < Position(s.dirty))
    <3>1. /\ u.peer = s.peer /\ u.world = s.world /\ u.local = s.local
          /\ u.remote = Put(s.remote, frame, remote) /\ u.used = s.used
          /\ u.dirty = IF first THEN frame ELSE s.dirty
      BY AcceptedFacts DEF u
    <3>2. s.dirty # NoFrame => Position(s.dirty) \in Nat
      BY PositionFacts DEF Sound, Sessions
    <3>3. frame # NoFrame
      BY DEF NoFrame, FrameNumbers
    <3>4. QED
      BY <1>1, <3>1, <3>2, <3>3 DEF Remembers
  <2>4. /\ Sound(UpdateConfirmation(u))
        /\ UpdateConfirmation(u) =
             [u EXCEPT !.confirmed = UpdateConfirmation(u).confirmed]
        /\ Position(u.confirmed) <= Position(UpdateConfirmation(u).confirmed)
        /\ Confirms(u, UpdateConfirmation(u))
    BY <2>2, ConfirmationSound
  <2>5. t = UpdateConfirmation(u)
    BY <1>2, <1>4
  <2>6. /\ t.peer = s.peer /\ t.world = s.world /\ t.local = s.local
        /\ t.remote = Put(s.remote, frame, remote) /\ t.used = s.used
        /\ Remembers(s, t, frame, remote)
    <3>1. u \in Sessions
      BY <2>2 DEF Sound
    <3> DEFINE c == UpdateConfirmation(u).confirmed
    <3>2. UpdateConfirmation(u) = [u EXCEPT !.confirmed = c]
      BY <2>4
    <3> HIDE DEF c
    <3>3. /\ t.peer = s.peer /\ t.world = s.world /\ t.local = s.local
          /\ t.remote = Put(s.remote, frame, remote) /\ t.used = s.used
          /\ t.dirty = u.dirty
      BY <2>3, <2>5, <3>1, <3>2 DEF Sessions
    <3>4. QED
      BY <2>3, <3>3 DEF Remembers
  <2>7. Confirms(s, t)
    <3>1. u.confirmed \in FrameNumbers /\ UpdateConfirmation(u) \in Sessions
      BY <2>2, <2>4 DEF Sound, Sessions
    <3>2. UpdateConfirmation(u).confirmed \in FrameNumbers
      BY <3>1 DEF Sessions
    <3>3. Position(u.confirmed) <= Position(s.confirmed)
      BY <1>1, AcceptedFacts DEF u
    <3>4. UpdateConfirmation(u).local = u.local /\ UpdateConfirmation(u).remote = u.remote
      <4> DEFINE c == UpdateConfirmation(u).confirmed
      <4>1. UpdateConfirmation(u) = [u EXCEPT !.confirmed = c]
        BY <2>4
      <4> HIDE DEF c
      <4>2. QED
        BY <2>2, <4>1 DEF Sound, Sessions
    <3>5. QED
      BY <1>1, <2>4, <2>5, <3>1, <3>2, <3>3, <3>4, PositionFacts DEF Confirms
  <2>8. QED
    BY <2>1, <2>2, <2>4, <2>5, <2>6, <2>7 DEF t
<1>5. QED
  BY <1>3, <1>4

-----------------------------------------------------------------------------
(* The predictions that an input leaves as they are *)

(* No remote input has displaced another. *)
Undisplaced(s) ==
  \A f \in FrameNumbers : Contains(s.remote, f) => Position(f) < Capacity

(* The remote inputs that are known before a frame, and the last of them. *)
Earlier(s, f) ==
  {h \in FrameNumbers : Contains(s.remote, h) /\ Position(h) < Position(f)}

Latest(s, f, h) ==
  /\ h \in Earlier(s, f)
  /\ \A g \in Earlier(s, f) : Position(g) <= Position(h)

(* predicted_remote looks back from a frame: to the last input before it.  *)
LEMMA PredictedFacts ==
  ASSUME NEW s, Undisplaced(s), NEW f \in FrameNumbers, Position(f) <= Capacity
  PROVE  IF Earlier(s, f) = {} THEN PredictedRemote(s, f) = NeutralButtons
         ELSE \E h : Latest(s, f, h) /\ PredictedRemote(s, f) = Get(s.remote, h)
<1> DEFINE Back(k) == FrameOffset(f, -k)
           known == {k \in 1 .. Capacity : Contains(s.remote, Back(k))}
<1>1. Position(f) \in Nat /\ Capacity \in Nat
  BY PositionFacts, CapacityAssumption
<1>2. ASSUME NEW k \in 1 .. Capacity
      PROVE  /\ Back(k) \in FrameNumbers
             /\ Position(Back(k)) = IF k <= Position(f) THEN Position(f) - k
                                    ELSE Position(f) - k + Modulus
  <2>1. k \in FrameNumbers
    BY CapacityAssumption, ModulusAssumption DEF FrameNumbers
  <2>2. QED
    BY <2>1, PositionBack
<1> HIDE DEF Back
<1>3. ASSUME NEW k \in known
      PROVE  /\ k \in Nat /\ Back(k) \in Earlier(s, f)
             /\ Position(Back(k)) = Position(f) - k
  <2>1. /\ k \in 1 .. Capacity /\ Contains(s.remote, Back(k))
        /\ Back(k) \in FrameNumbers
        /\ Position(Back(k)) = IF k <= Position(f) THEN Position(f) - k
                               ELSE Position(f) - k + Modulus
    BY <1>2
  <2>2. Position(Back(k)) < Capacity
    BY <2>1 DEF Undisplaced
  <2>3. k <= Position(f)
    BY <1>1, <2>1, <2>2, CapacityIsHalf, ModulusAssumption
  <2>4. QED
    BY <1>1, <2>1, <2>3 DEF Earlier
<1>4. ASSUME NEW h \in Earlier(s, f)
      PROVE  \E k \in known : Back(k) = h
  <2> DEFINE k == Position(f) - Position(h)
  <2>1. /\ h \in FrameNumbers /\ Contains(s.remote, h) /\ Position(h) \in Nat
        /\ Position(h) < Position(f)
    BY PositionFacts DEF Earlier
  <2>2. k \in 1 .. Capacity /\ k <= Position(f)
    BY <1>1, <2>1
  <2>3. Back(k) \in FrameNumbers /\ Position(Back(k)) = Position(h)
    BY <1>1, <1>2, <2>1, <2>2
  <2>4. Back(k) = h
    BY <2>1, <2>3, PositionFacts
  <2>5. QED
    BY <2>1, <2>2, <2>4
<1>5. PredictedRemote(s, f) = IF known = {} THEN NeutralButtons
                              ELSE Get(s.remote, Back(Min(known)))
  BY DEF PredictedRemote, Back
<1>6. CASE known = {}
  BY <1>4, <1>5, <1>6
<1>7. CASE known # {}
  <2>1. known \in SUBSET Nat
    BY <1>3
  <2> HIDE DEF known
  <2>2. PICK m \in known : \A k \in known : m <= k
    BY <1>7, <2>1, LeastElement
  <2>3. Min(known) \in known /\ \A k \in known : Min(known) <= k
    BY <2>2 DEF Min
  <2> DEFINE h == Back(Min(known))
  <2>4. h \in Earlier(s, f) /\ Position(h) = Position(f) - Min(known)
    BY <1>3, <2>3
  <2>5. ASSUME NEW g \in Earlier(s, f) PROVE Position(g) <= Position(h)
    <3>1. PICK k \in known : Back(k) = g
      BY <1>4
    <3>2. /\ k \in Nat /\ Min(known) \in Nat /\ Min(known) <= k
          /\ Position(g) = Position(f) - k
      BY <1>3, <2>1, <2>3, <3>1
    <3>3. QED
      BY <1>1, <2>4, <3>2
  <2>6. Latest(s, f, h) /\ PredictedRemote(s, f) = Get(s.remote, h)
    BY <1>5, <1>7, <2>4, <2>5 DEF Latest
  <2>7. QED
    BY <2>4, <2>6
<1>8. QED
  BY <1>6, <1>7

(* The same inputs before a frame make the same prediction. *)
LEMMA SamePrediction ==
  ASSUME NEW s, Undisplaced(s), NEW f \in FrameNumbers, Position(f) <= Capacity,
         NEW t, Undisplaced(t), NEW g \in FrameNumbers, Position(g) <= Capacity,
         Earlier(s, f) = Earlier(t, g),
         \A h \in Earlier(s, f) : Get(s.remote, h) = Get(t.remote, h)
  PROVE  PredictedRemote(s, f) = PredictedRemote(t, g)
<1>1. CASE Earlier(s, f) = {}
  BY <1>1, PredictedFacts
<1>2. CASE Earlier(s, f) # {}
  <2>1. PICK h : Latest(s, f, h) /\ PredictedRemote(s, f) = Get(s.remote, h)
    BY <1>2, PredictedFacts
  <2>2. PICK i : Latest(t, g, i) /\ PredictedRemote(t, g) = Get(t.remote, i)
    BY <1>2, PredictedFacts
  <2>3. /\ h \in Earlier(s, f) /\ i \in Earlier(s, f)
        /\ Position(h) <= Position(i) /\ Position(i) <= Position(h)
    BY <2>1, <2>2 DEF Latest
  <2>4. h = i
    BY <2>3, PositionFacts DEF Earlier
  <2>5. QED
    BY <2>1, <2>2, <2>3, <2>4
<1>3. QED
  BY <1>1, <1>2

(* ingest_remote: an input that differs from the prediction of its frame   *)
(* is corrected from there on, and one that confirms it changes no later   *)
(* prediction.                                                             *)
LEMMA IngestFresh ==
  ASSUME NEW s, Sound(s), Fresh(s), Undisplaced(s), Elapsed(s) <= Capacity,
         NEW player, NEW frame \in FrameNumbers, NEW remote \in Buttons,
         Position(frame) < Capacity
  PROVE  LET t == IngestRemote(s, player, frame, remote).session
         IN  Undisplaced(t) /\ Fresh(t)
<1> DEFINE t == IngestRemote(s, player, frame, remote).session
<1>1. /\ s.remote \in RingOf(Buttons) /\ Capacity \in Nat
      /\ Elapsed(s) \in Nat /\ Position(frame) \in Nat
  BY PositionFacts, CapacityAssumption DEF Sound, Sessions, Worlds, Elapsed
<1>2. 2 * Position(frame) < Modulus /\ InReach(s)
  BY <1>1, CapacityIsHalf, ModulusAssumption DEF InReach
<1>3. /\ Sound(t) /\ t.world = s.world
      /\ \/ t = s
         \/ /\ t.remote = Put(s.remote, frame, remote) /\ t.used = s.used
            /\ Remembers(s, t, frame, remote)
  BY <1>2, IngestSound
<1> HIDE DEF t
<1>4. CASE t = s
  BY <1>4 DEF t
<1>5. CASE t # s
  <2>1. /\ t.remote = Put(s.remote, frame, remote) /\ t.used = s.used
        /\ Remembers(s, t, frame, remote)
    BY <1>3, <1>5
  <2>2. /\ Contains(t.remote, frame) /\ Get(t.remote, frame) = remote
        /\ \A g \in FrameNumbers \ {frame} :
             /\ Contains(t.remote, g) <=>
                  Contains(s.remote, g) /\ RingIndex(g) # RingIndex(frame)
             /\ Contains(t.remote, g) => Get(t.remote, g) = Get(s.remote, g)
    BY <1>1, <2>1, PutFacts
  <2>3. ASSUME NEW g \in FrameNumbers, g # frame
        PROVE  /\ Contains(t.remote, g) <=> Contains(s.remote, g)
               /\ Contains(s.remote, g) => Get(t.remote, g) = Get(s.remote, g)
    <3>1. CASE Contains(s.remote, g)
      <4>1. Position(g) \in Nat /\ Position(g) < Capacity
        BY <3>1, PositionFacts DEF Undisplaced
      <4>2. RingIndex(g) # RingIndex(frame)
        BY <1>1, <2>3, <4>1, PositionsInSlot
      <4>3. QED
        BY <2>2, <2>3, <4>2
    <3>2. CASE ~ Contains(s.remote, g)
      BY <2>2, <2>3, <3>2
    <3>3. QED
      BY <3>1, <3>2
  <2>4. Undisplaced(t)
    BY <2>3 DEF Undisplaced
  <2>5. Elapsed(t) = Elapsed(s)
    BY <1>3 DEF Elapsed
  <2>6. ASSUME NEW f \in FrameNumbers, Position(f) < Elapsed(s),
               t.dirty = NoFrame \/ Position(f) < Position(t.dirty)
        PROVE  Get(s.used, f) = RemoteFor(t, f)
    <3>1. /\ Position(f) \in Nat /\ Position(f) <= Capacity
          /\ s.dirty # NoFrame => Position(s.dirty) \in Nat
          /\ t.dirty # NoFrame => Position(t.dirty) \in Nat
      BY <1>1, <1>3, <2>6, PositionFacts DEF Sound, Sessions
    <3>2. ASSUME NEW g \in FrameNumbers, Position(g) <= Position(f)
          PROVE  Get(s.used, g) = RemoteFor(s, g)
      <4>1. Position(g) \in Nat /\ Position(g) < Elapsed(s)
        BY <1>1, <2>6, <3>1, <3>2, PositionFacts
      <4>2. s.dirty = NoFrame \/ Position(g) < Position(s.dirty)
        BY <2>1, <2>6, <3>1, <3>2, <4>1 DEF Remembers
      <4>3. QED
        BY <4>1, <4>2 DEF Fresh
    <3>3. Position(frame) <= Position(f) => Get(s.used, frame) = remote
      <4>1. SUFFICES ASSUME Position(frame) <= Position(f)
                     PROVE  Get(s.used, frame) = remote
        OBVIOUS
      <4>2. /\ Position(frame) < Elapsed(s)
            /\ Elapsed(s) - Position(frame) <= Capacity
        BY <1>1, <2>6, <3>1, <4>1
      <4>3. Contains(s.used, frame)
        BY <4>2 DEF Sound, HistoryFits
      <4>4. ~ (t.dirty # NoFrame /\ Position(t.dirty) <= Position(frame))
        BY <1>1, <2>6, <3>1, <4>1
      <4>5. QED
        BY <2>1, <4>2, <4>3, <4>4 DEF Remembers
    <3>4. CASE f = frame
      BY <1>1, <2>2, <3>3, <3>4 DEF RemoteFor
    <3>5. CASE f # frame /\ Contains(s.remote, f)
      BY <2>3, <3>1, <3>2, <3>5 DEF RemoteFor
    <3>6. CASE f # frame /\ ~ Contains(s.remote, f)
      <4>1. /\ RemoteFor(t, f) = PredictedRemote(t, f)
            /\ Get(s.used, f) = PredictedRemote(s, f)
        BY <2>3, <3>1, <3>2, <3>6 DEF RemoteFor
      <4>2. CASE ~ Position(frame) < Position(f)
        <5>1. /\ Earlier(s, f) = Earlier(t, f)
              /\ \A h \in Earlier(s, f) : Get(s.remote, h) = Get(t.remote, h)
          BY <2>3, <4>2 DEF Earlier
        <5>2. QED
          BY <2>4, <3>1, <4>1, <5>1, SamePrediction
      <4>3. CASE Position(frame) < Position(f)
        <5>1. /\ frame \in Earlier(t, f)
              /\ \A h \in FrameNumbers \ {frame} :
                   h \in Earlier(t, f) <=> h \in Earlier(s, f)
          BY <2>2, <2>3, <4>3 DEF Earlier
        <5>2. PICK h : Latest(t, f, h) /\ PredictedRemote(t, f) = Get(t.remote, h)
          BY <2>4, <3>1, <5>1, PredictedFacts
        <5>3. h \in Earlier(t, f) /\ h \in FrameNumbers
          BY <5>2 DEF Latest, Earlier
        <5>4. CASE h # frame
          <6>1. h \in Earlier(s, f)
            BY <5>1, <5>3, <5>4
          <6>2. \A g \in Earlier(s, f) : Position(g) <= Position(h)
            BY <5>1, <5>2 DEF Latest, Earlier
          <6>3. PICK i : Latest(s, f, i) /\ PredictedRemote(s, f) = Get(s.remote, i)
            BY <3>1, <6>1, PredictedFacts
          <6>4. i \in Earlier(s, f) /\ Position(h) <= Position(i)
                /\ Position(i) <= Position(h)
            BY <6>1, <6>2, <6>3 DEF Latest
          <6>5. i = h
            BY <5>3, <6>4, PositionFacts DEF Earlier
          <6>6. Get(t.remote, h) = Get(s.remote, h)
            BY <2>3, <5>3, <5>4, <6>1 DEF Earlier
          <6>7. QED
            BY <4>1, <5>2, <6>3, <6>5, <6>6
        <5>5. CASE h = frame
          <6>1. PredictedRemote(t, f) = remote /\ Get(s.used, frame) = remote
            BY <1>1, <2>2, <3>1, <3>3, <4>3, <5>2, <5>5
          <6>2. RemoteFor(s, frame) = remote
            BY <1>1, <3>1, <3>2, <4>3, <6>1
          <6>3. CASE Contains(s.remote, frame)
            <7>1. /\ Earlier(s, f) = Earlier(t, f)
                  /\ \A g \in Earlier(s, f) : Get(s.remote, g) = Get(t.remote, g)
              BY <2>2, <2>3, <6>2, <6>3 DEF Earlier, RemoteFor
            <7>2. QED
              BY <2>4, <3>1, <4>1, <7>1, SamePrediction
          <6>4. CASE ~ Contains(s.remote, frame)
            <7>1. PredictedRemote(s, frame) = remote
              BY <6>2, <6>4 DEF RemoteFor
            <7>2. ASSUME NEW g \in FrameNumbers
                  PROVE  g \in Earlier(s, f) <=> g \in Earlier(s, frame)
              <8>1. Position(g) \in Nat
                BY PositionFacts
              <8>2. ASSUME g \in Earlier(s, f) PROVE g \in Earlier(s, frame)
                <9>1. g # frame /\ Contains(s.remote, g)
                  BY <6>4, <8>2 DEF Earlier
                <9>2. Position(g) <= Position(frame)
                  BY <5>1, <5>2, <5>5, <8>2, <9>1 DEF Latest
                <9>3. Position(g) # Position(frame)
                  BY <9>1, PositionFacts
                <9>4. QED
                  BY <1>1, <8>1, <9>1, <9>2, <9>3 DEF Earlier
              <8>3. ASSUME g \in Earlier(s, frame) PROVE g \in Earlier(s, f)
                BY <1>1, <3>1, <4>3, <8>1, <8>3 DEF Earlier
              <8>4. QED
                BY <8>2, <8>3
            <7>3. Earlier(s, f) = Earlier(s, frame)
              BY <7>2 DEF Earlier
            <7>4. Position(frame) <= Capacity
              BY <1>1
            <7>5. PredictedRemote(s, f) = PredictedRemote(s, frame)
              BY <3>1, <7>3, <7>4, SamePrediction
            <7>6. QED
              BY <4>1, <6>1, <7>1, <7>5
          <6>5. QED
            BY <6>3, <6>4
        <5>6. QED
          BY <5>4, <5>5
      <4>4. QED
        BY <4>2, <4>3
    <3>7. QED
      BY <3>4, <3>5, <3>6
  <2>7. QED
    BY <2>1, <2>4, <2>5, <2>6 DEF Fresh, t
<1>6. QED
  BY <1>4, <1>5

-----------------------------------------------------------------------------
(* A new session *)

(* A new session is sound: nothing simulated, nothing known. *)
LEMMA NewSessionSound ==
  ASSUME NEW peer \in Players
  PROVE  /\ Sound(NewSession(peer))
         /\ Elapsed(NewSession(peer)) = 0
         /\ \A f \in FrameNumbers : /\ ~ Contains(NewSession(peer).local, f)
                                    /\ ~ Contains(NewSession(peer).remote, f)
<1> DEFINE s == NewSession(peer)
<1>1. /\ s.peer = peer /\ s.world = InitialWorld
      /\ s.local = EmptyRing /\ s.remote = EmptyRing
      /\ s.used = EmptyRing /\ s.snapshots = EmptyRing
      /\ s.hashes = Put(EmptyRing, StartFrame, InitialWorld)
      /\ s.dirty = NoFrame /\ s.confirmed = StartFrame
  BY DEF NewSession
<1>2. InitialWorld \in Worlds /\ StartFrame \in FrameNumbers
  BY SessionAssumption DEF InitialWorld, Worlds
<1>3. \A f \in FrameNumbers : ~ Contains(EmptyRing, f)
  BY EmptyContainsNothing
<1>4. EmptyRing \in RingOf(Buttons) /\ EmptyRing \in RingOf(Worlds)
  BY DEF EmptyRing, RingOf
<1>5. /\ Put(EmptyRing, StartFrame, InitialWorld) \in RingOf(Worlds)
      /\ Get(s.hashes, StartFrame) = InitialWorld
      /\ \A g \in FrameNumbers \ {StartFrame} : ~ Contains(s.hashes, g)
  BY <1>1, <1>2, <1>3, <1>4, PutFacts
<1>6. Position(StartFrame) = 0
  BY SessionAssumption, ModulusAssumption DEF Position, FrameDistance, FrameNumbers
<1>7. s \in Sessions
  BY <1>1, <1>2, <1>4, <1>5 DEF NewSession, Sessions, Metrics
<1> HIDE DEF s
<1>8. Elapsed(s) = 0
  BY <1>1, <1>6 DEF Elapsed, InitialWorld
<1>9. \A f \in FrameNumbers : Position(f) \in Nat
  BY PositionFacts
<1>10. WorldFits(s)
  BY <1>1, <1>8, ModulusAssumption DEF WorldFits, InitialWorld
<1>11. HistoryFits(s)
  BY <1>8, <1>9 DEF HistoryFits
<1>12. HashesFit(s)
  <2>1. Prefix(InitialWorld, StartFrame) = InitialWorld
    BY <1>6, <1>9 DEF Prefix, InitialWorld
  <2>2. QED
    BY <1>1, <1>5, <1>6, <1>8, <2>1 DEF HashesFit
<1>13. /\ SnapshotsFit(s) /\ NothingAhead(s)
       /\ LeadFits(s) /\ MistakesPending(s)
  BY <1>1, <1>3 DEF SnapshotsFit, NothingAhead, LeadFits, MistakesPending
<1>14. DirtyFits(s) /\ ConfirmedFits(s)
  BY <1>1, <1>6, <1>8, <1>9 DEF DirtyFits, ConfirmedFits
<1>15. QED
  BY <1>1, <1>3, <1>7, <1>8, <1>10, <1>11, <1>12, <1>13, <1>14 DEF Sound, s
====
