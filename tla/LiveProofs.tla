---- MODULE LiveProofs ----
(***************************************************************************)
(* Proofs about LiveScenario, for every length of the game, script,        *)
(* configuration of the transport and fault.                               *)
(*                                                                         *)
(* A tick passes through states that are not those between two steps.      *)
(* Goes(l, m) says what is kept from m, the scenario before the tick, to l,*)
(* any state within it; one lemma for each part of step_once shows it,     *)
(* whether or not the simulation fails.                                    *)
(*                                                                         *)
(* The second half is about two canonical peers whose simulation does not  *)
(* fail.  Agrees relates their sessions, and the packets between them, to  *)
(* the game that is recorded; each part of step_once keeps it or reports   *)
(* an error that is excusable.                                             *)
(***************************************************************************)
EXTENDS LiveScenario, SessionLemmas, FiniteSetTheorems

-----------------------------------------------------------------------------
(* The loops over the inputs of a packet and over the deliveries of a tick *)
(* are folds.  Turn is one turn of either.                                 *)

IngestNext(result, input) ==
  IF result.error # "ok" THEN result
  ELSE IngestRemote(result.session, input.player, input.frame, input.buttons)

DeliverNext(m, delivery) ==
  IF m.failure # "ok" THEN m ELSE ProcessDelivery(m, delivery.packet)

Turn(ingesting, x, y) == IF ingesting THEN IngestNext(x, y) ELSE DeliverNext(x, y)

(* The equation of the fold's recursive function, on the parts of D. *)
Unfolds(g, D, ingesting, base, s) ==
  g = [t \in SUBSET D |-> IF t = {} THEN base
                          ELSE Turn(ingesting, g[t \ {Max(t)}], s[Max(t)])]

Folded(ingesting, base, s) ==
  LET g == CHOOSE g : Unfolds(g, DOMAIN s, ingesting, base, s) IN g[DOMAIN s]

(* The largest of some numbers up to m, if m is one of them. *)
LEMMA LargestIs ==
  ASSUME NEW m \in Nat, NEW t \in SUBSET (1 .. m), m \in t
  PROVE  Max(t) = m
<1>1. \A y \in t : m >= y
  OBVIOUS
<1>2. \A x \in t : (\A y \in t : x >= y) => x = m
  OBVIOUS
<1> QED
  BY <1>1, <1>2 DEF Max

(* There is such a function: one for the first m - 1 goes one further. *)
LEMMA FoldExists ==
  ASSUME NEW n \in Nat, NEW ingesting, NEW base, NEW s
  PROVE  \E g : Unfolds(g, 1 .. n, ingesting, base, s)
<1> DEFINE bad == {m \in Nat : ~ \E g : Unfolds(g, 1 .. m, ingesting, base, s)}
<1> SUFFICES ASSUME bad # {}
             PROVE  FALSE
  OBVIOUS
<1>1. PICK m \in bad : \A i \in bad : m <= i
  <2>1. bad \in SUBSET Nat
    OBVIOUS
  <2> HIDE DEF bad
  <2> QED
    BY <2>1, LeastElement
<1>2. m \in Nat /\ ~ \E g : Unfolds(g, 1 .. m, ingesting, base, s)
  OBVIOUS
<1>3. m # 0
  <2> SUFFICES ASSUME m = 0
               PROVE  FALSE
    OBVIOUS
  <2>1. SUBSET (1 .. 0) = {{}}
    OBVIOUS
  <2> DEFINE g == [t \in SUBSET (1 .. 0) |-> base]
  <2>2. g = [t \in SUBSET (1 .. 0) |-> IF t = {} THEN base
                                  ELSE Turn(ingesting, g[t \ {Max(t)}], s[Max(t)])]
    BY <2>1
  <2>3. Unfolds(g, 1 .. 0, ingesting, base, s)
    BY <2>2 DEF Unfolds
  <2> QED
    BY <1>2, <2>3
<1>4. m - 1 \in Nat /\ m - 1 \notin bad
  BY <1>1, <1>2, <1>3
<1>5. PICK g : Unfolds(g, 1 .. m - 1, ingesting, base, s)
  BY <1>4
<1> DEFINE Continued(f, t) == Turn(ingesting, f[t \ {Max(t)}], s[Max(t)])
           rule(f, t) == IF t = {} THEN base ELSE Continued(f, t)
           h == [t \in SUBSET (1 .. m) |-> IF m \in t THEN Continued(g, t) ELSE g[t]]
<1>6. g = [t \in SUBSET (1 .. m - 1) |-> rule(g, t)]
  BY <1>5 DEF Unfolds
<1> HIDE DEF Continued
<1>7. \A t \in SUBSET (1 .. m) : m \notin t => t \in SUBSET (1 .. m - 1)
  BY <1>2
<1>8. \A t \in SUBSET (1 .. m) : m \notin t => h[t] = g[t]
  OBVIOUS
<1>9. \A t \in SUBSET (1 .. m) : t # {} => Continued(h, t) = Continued(g, t)
  <2> TAKE t \in SUBSET (1 .. m)
  <2> HAVE t # {}
  <2>1. m \notin t \ {Max(t)}
    BY <1>2, LargestIs
  <2>2. h[t \ {Max(t)}] = g[t \ {Max(t)}]
    BY <1>8, <2>1
  <2> HIDE DEF h
  <2> QED
    BY <2>2 DEF Continued
<1>10. \A t \in SUBSET (1 .. m) : h[t] = rule(h, t)
  <2> TAKE t \in SUBSET (1 .. m)
  <2>1. CASE m \in t
    <3>1. h[t] = Continued(g, t) /\ t # {}
      BY <2>1
    <3> HIDE DEF h
    <3> QED
      BY <1>9, <3>1
  <2>2. CASE m \notin t
    <3>1. h[t] = g[t] /\ t \in SUBSET (1 .. m - 1)
      BY <1>7, <1>8, <2>2
    <3>2. g[t] = rule(g, t)
      BY <1>6, <3>1
    <3> HIDE DEF h
    <3> QED
      BY <1>9, <3>1, <3>2
  <2> QED
    BY <2>1, <2>2
<1>11. h = [t \in SUBSET (1 .. m) |-> rule(h, t)]
  <2>1. h = [t \in SUBSET (1 .. m) |-> h[t]]
    OBVIOUS
  <2> HIDE DEF h
  <2>2. [t \in SUBSET (1 .. m) |-> h[t]] = [t \in SUBSET (1 .. m) |-> rule(h, t)]
    <3> HIDE DEF rule
    <3> QED
      BY <1>10
  <2> QED
    BY <2>1, <2>2
<1>12. Unfolds(h, 1 .. m, ingesting, base, s)
  <2> HIDE DEF h
  <2> QED
    BY <1>11 DEF Unfolds, Continued
<1> QED
  BY <1>2, <1>12

(* v[k] is where the fold is after its first k turns. *)
Runs(v, n, ingesting, base, s) ==
  /\ v[0] = base
  /\ \A k \in 1 .. n : v[k] = Turn(ingesting, v[k - 1], s[k])
  /\ Folded(ingesting, base, s) = v[n]

(* A fold over a sequence takes its elements one after the other. *)
LEMMA FoldRuns ==
  ASSUME NEW n \in Nat, NEW s, DOMAIN s = 1 .. n, NEW ingesting, NEW base
  PROVE  \E v : Runs(v, n, ingesting, base, s)
<1> DEFINE g == CHOOSE g : Unfolds(g, 1 .. n, ingesting, base, s)
           v == [k \in 0 .. n |-> g[1 .. k]]
<1>1. Unfolds(g, 1 .. n, ingesting, base, s)
  BY FoldExists
<1>2. Folded(ingesting, base, s) = g[1 .. n]
  BY DEF Folded
<1> HIDE DEF g
<1>3. \A t \in SUBSET (1 .. n) :
        g[t] = IF t = {} THEN base ELSE Turn(ingesting, g[t \ {Max(t)}], s[Max(t)])
  BY <1>1 DEF Unfolds
<1>4. v[0] = base
  <2>1. 1 .. 0 = {} /\ 0 \in 0 .. n
    OBVIOUS
  <2> QED
    BY <1>3, <2>1
<1>5. ASSUME NEW k \in 1 .. n
      PROVE  v[k] = Turn(ingesting, v[k - 1], s[k])
  <2>1. /\ 1 .. k \in SUBSET (1 .. n) /\ k \in 1 .. k /\ k \in Nat
        /\ k \in 0 .. n /\ k - 1 \in 0 .. n
    OBVIOUS
  <2>2. Max(1 .. k) = k
    BY <2>1, LargestIs
  <2>3. (1 .. k) \ {k} = 1 .. k - 1
    BY <2>1
  <2>4. g[1 .. k] = Turn(ingesting, g[1 .. k - 1], s[k])
    BY <1>3, <2>1, <2>2, <2>3
  <2> QED
    BY <2>1, <2>4
<1>6. v[n] = g[1 .. n]
  OBVIOUS
<1> HIDE DEF v
<1> QED
  BY <1>2, <1>4, <1>5, <1>6 DEF Runs

(* The two loops are such folds. *)
LEMMA LoopsAreFolds ==
  /\ \A session, inputs : IngestAll(session, inputs) = Folded(TRUE, Result(session, "ok"), inputs)
  /\ \A l : ProcessTick(l) = Folded(FALSE, [l EXCEPT !.transport = Deliver(@, l.tick)],
                                    Deliverable(l.transport, l.tick))
<1>1. ASSUME NEW session, NEW inputs
      PROVE  IngestAll(session, inputs) = Folded(TRUE, Result(session, "ok"), inputs)
  BY DEF IngestAll, Folded, Unfolds, Turn, IngestNext, Lists!FoldLeft, Lists!MapThenFoldSet,
         Lists!Max, Max
<1>2. ASSUME NEW l
      PROVE  ProcessTick(l) = Folded(FALSE, [l EXCEPT !.transport = Deliver(@, l.tick)],
                                     Deliverable(l.transport, l.tick))
  BY DEF ProcessTick, Folded, Unfolds, Turn, DeliverNext, Lists!FoldLeft, Lists!MapThenFoldSet,
         Lists!Max, Max
<1> QED
  BY <1>1, <1>2

-----------------------------------------------------------------------------
(* Frames of the game *)

(* The boundaries of the game's frames. *)
Boundaries == 0 .. FrameCount

(* They are less than half of the number space, so their order is that of  *)
(* the numbers.                                                            *)
LEMMA BoundariesFit ==
  /\ Boundaries \subseteq FrameNumbers /\ Boundaries \subseteq Nat
  /\ NoFrame \notin Boundaries /\ NoFrame \notin FrameNumbers
  /\ \A f, g \in Boundaries : /\ FrameBefore(f, g) <=> f < g
                              /\ f <= g => FrameDistance(f, g) = g - f
  /\ \A f \in Boundaries, k \in Nat : f + k <= FrameCount => FrameOffset(f, k) = f + k
<1>1. FrameCount \in Nat /\ 2 * FrameCount < Modulus /\ Modulus \in Nat
  BY LiveAssumption, ModulusAssumption
<1>2. Boundaries \subseteq FrameNumbers /\ Boundaries \subseteq Nat
  BY <1>1 DEF Boundaries, FrameNumbers
<1>3. ASSUME NEW f \in Boundaries, NEW g \in Boundaries
      PROVE  /\ FrameBefore(f, g) <=> f < g
             /\ f <= g => FrameDistance(f, g) = g - f
  <2>1. /\ f \in Nat /\ g \in Nat /\ f <= FrameCount /\ g <= FrameCount
        /\ f \in FrameNumbers /\ g \in FrameNumbers
    BY <1>1, <1>2 DEF Boundaries
  <2> DEFINE d == FrameDistance(f, g)
  <2>2. d = IF f <= g THEN g - f ELSE g - f + Modulus
    BY <2>1, DistanceValue
  <2>3. FrameBefore(f, g) <=> d # 0 /\ 2 * d < Modulus
    BY DEF FrameBefore
  <2> HIDE DEF d
  <2>4. FrameBefore(f, g) <=> f < g
    BY <1>1, <2>1, <2>2, <2>3
  <2> QED
    BY <2>2, <2>4 DEF d
<1>4. ASSUME NEW f \in Boundaries, NEW k \in Nat, f + k <= FrameCount
      PROVE  FrameOffset(f, k) = f + k
  <2>1. f \in FrameNumbers /\ k \in FrameNumbers /\ f + k < Modulus
    BY <1>1, <1>2, <1>4 DEF Boundaries, FrameNumbers
  <2> QED
    BY <2>1, OffsetValue
<1>5. NoFrame \notin Boundaries /\ NoFrame \notin FrameNumbers
  BY <1>1 DEF NoFrame, Boundaries, FrameNumbers
<1> QED
  BY <1>2, <1>3, <1>4, <1>5

-----------------------------------------------------------------------------
(* A session of the scenario *)

(* A ring that holds nothing but frames of the game. *)
HoldsGame(ring) ==
  /\ DOMAIN ring = Slots
  /\ \A slot \in Slots : ring[slot].frame \in Boundaries \union {NoFrame}

SessionFields ==
  {"peer", "world", "local", "remote", "used", "snapshots", "hashes", "dirty",
   "confirmed", "metrics"}

MetricFields == {"rollbacks", "resimulated", "deepest", "predicted", "late"}

(* What a session keeps as long as its calls succeed. *)
InGame(s) ==
  /\ DOMAIN s = SessionFields
  /\ DOMAIN s.metrics = MetricFields
  /\ s.metrics.rollbacks \in Nat
  /\ s.world.frame \in Boundaries
  /\ s.confirmed \in FrameNumbers
  /\ HoldsGame(s.used)
  /\ HoldsGame(s.hashes)
  /\ s.dirty = NoFrame \/ (s.dirty \in Boundaries /\ s.dirty < s.world.frame)

(* No correction is pending. *)
Clean(s) == InGame(s) /\ s.dirty = NoFrame

Rollbacks(s) == s.metrics.rollbacks

(* Two sessions that differ at most in their confirmed boundary. *)
LEMMA MovedBoundary ==
  ASSUME NEW s, NEW frame \in FrameNumbers, NEW t, t = [s EXCEPT !.confirmed = frame],
         InGame(s)
  PROVE  InGame(t) /\ t.dirty = s.dirty /\ Rollbacks(t) = Rollbacks(s)
<1>1. /\ DOMAIN t = SessionFields /\ t.metrics = s.metrics /\ t.world = s.world
      /\ t.confirmed = frame /\ t.used = s.used /\ t.hashes = s.hashes /\ t.dirty = s.dirty
  BY DEF InGame, SessionFields
<1> QED
  BY <1>1 DEF InGame, Rollbacks

(* The boundary stops within Capacity frames: the last of them would be in *)
(* the slot of the first.                                                  *)
LEMMA ConfirmationInGame ==
  ASSUME NEW s, InGame(s), NEW t, t = UpdateConfirmation(s)
  PROVE  InGame(t) /\ t.dirty = s.dirty /\ Rollbacks(t) = Rollbacks(s)
<1> DEFINE stuck == {k \in 0 .. Capacity : ~ Confirmable(s, FrameOffset(s.confirmed, k))}
           stop == Min(stuck)
           last == FrameOffset(s.confirmed, Capacity)
<1>1. s.confirmed \in FrameNumbers /\ Capacity \in Nat \ {0} /\ Capacity \in FrameNumbers
  BY CapacityAssumption, ModulusAssumption DEF InGame, FrameNumbers
<1>2. FrameOffset(s.confirmed, 0) = s.confirmed
  <2>1. 0 \in FrameNumbers /\ s.confirmed + 0 = s.confirmed /\ s.confirmed < Modulus
    BY <1>1, ModulusAssumption DEF FrameNumbers
  <2> QED
    BY <1>1, <2>1, OffsetValue
<1>3. last # s.confirmed
  <2>1. last = IF s.confirmed + Capacity < Modulus THEN s.confirmed + Capacity
               ELSE s.confirmed + Capacity - Modulus
    BY <1>1, OffsetValue
  <2> HIDE DEF last
  <2> QED
    BY <1>1, <2>1, CapacityAssumption, ModulusAssumption DEF FrameNumbers
<1>4. stuck # {}
  <2> SUFFICES ASSUME stuck = {}
               PROVE  FALSE
    OBVIOUS
  <2>1. 0 \in 0 .. Capacity /\ Capacity \in 0 .. Capacity
    BY <1>1
  <2>2. Confirmable(s, s.confirmed) /\ Confirmable(s, last)
    BY <1>2, <2>1
  <2>3. Contains(s.local, s.confirmed) /\ Contains(s.local, last)
    BY <2>2 DEF Confirmable
  <2>4. RingIndex(last) = RingIndex(s.confirmed)
    BY <1>1, SlotComesRound
  <2> QED
    BY <1>3, <2>3, <2>4 DEF Contains
<1>5. stop \in 0 .. Capacity
  <2>1. stuck \in SUBSET Nat
    OBVIOUS
  <2>2. stuck \subseteq 0 .. Capacity
    OBVIOUS
  <2> HIDE DEF stuck
  <2>3. PICK m \in stuck : \A k \in stuck : m <= k
    BY <1>4, <2>1, LeastElement
  <2>4. stop \in stuck
    BY <2>3 DEF Min
  <2> QED
    BY <2>2, <2>4
<1>6. FrameOffset(s.confirmed, stop) \in FrameNumbers
  <2> HIDE DEF stop
  <2>1. stop \in FrameNumbers
    BY <1>1, <1>5, CapacityAssumption, ModulusAssumption DEF FrameNumbers
  <2> QED
    BY <1>1, <2>1, OffsetValue
<1>7. t = [s EXCEPT !.confirmed = FrameOffset(s.confirmed, stop)]
  BY DEF UpdateConfirmation
<1> HIDE DEF stop
<1> QED
  BY <1>6, <1>7, MovedBoundary

(* A frame of the game is put into a ring of the game. *)
LEMMA PutHoldsGame ==
  ASSUME NEW ring, HoldsGame(ring), NEW frame \in Boundaries, NEW value
  PROVE  HoldsGame(Put(ring, frame, value))
<1> DEFINE new == [frame |-> frame, value |-> value]
           next == Put(ring, frame, value)
<1>1. next = [ring EXCEPT ![RingIndex(frame)] = new] /\ new.frame = frame
  BY DEF Put
<1> HIDE DEF new, next
<1>2. DOMAIN next = Slots
  BY <1>1 DEF HoldsGame
<1>3. \A slot \in Slots : next[slot] = IF slot = RingIndex(frame) THEN new ELSE ring[slot]
  BY <1>1 DEF HoldsGame
<1>4. HoldsGame(next)
  BY <1>1, <1>2, <1>3 DEF HoldsGame
<1> QED
  BY <1>4 DEF next

(* So are several. *)
LEMMA PutAllHoldsGame ==
  ASSUME NEW ring, HoldsGame(ring), NEW table, DOMAIN table \subseteq Boundaries
  PROVE  HoldsGame(PutAll(ring, table))
<1> DEFINE next == PutAll(ring, table)
<1>1. DOMAIN next = Slots
  BY DEF PutAll
<1>2. ASSUME NEW slot \in Slots
      PROVE  next[slot].frame \in Boundaries \union {NoFrame}
  <2>1. CASE \E frame \in DOMAIN table : RingIndex(frame) = slot
    <3> DEFINE f == CHOOSE f \in DOMAIN table : RingIndex(f) = slot
    <3>1. f \in DOMAIN table
      BY <2>1
    <3>2. next[slot] = [frame |-> f, value |-> table[f]]
      BY <2>1 DEF PutAll
    <3> HIDE DEF f, next
    <3> QED
      BY <3>1, <3>2
  <2>2. CASE ~ \E frame \in DOMAIN table : RingIndex(frame) = slot
    <3>1. next[slot] = ring[slot]
      BY <2>2 DEF PutAll
    <3> HIDE DEF next
    <3> QED
      BY <3>1 DEF HoldsGame
  <2> QED
    BY <2>1, <2>2
<1> HIDE DEF next
<1>3. HoldsGame(next)
  BY <1>1, <1>2 DEF HoldsGame
<1> QED
  BY <1>3 DEF next

(* A correction that succeeds is counted and is not pending any more; on a *)
(* clean session there is none.                                            *)
LEMMA FlushInGame ==
  ASSUME NEW s, InGame(s), NEW r, r = FlushCorrections(s), r.error = "ok"
  PROVE  /\ Clean(r.session)
         /\ s.dirty = NoFrame => Rollbacks(r.session) = Rollbacks(s)
         /\ s.dirty # NoFrame => Rollbacks(r.session) = Rollbacks(s) + 1
<1>1. CASE s.dirty = NoFrame
  <2>1. r.session = UpdateConfirmation(s)
    BY <1>1 DEF FlushCorrections, Result
  <2> QED
    BY <1>1, <2>1, ConfirmationInGame DEF Clean
<1>2. CASE s.dirty # NoFrame
  <2> DEFINE depth == Depth(s)
             frames == {FrameOffset(s.dirty, i) : i \in 0 .. depth - 1}
             reached == {FrameOffset(s.dirty, i) : i \in 1 .. depth}
             world == ResimulatedWorld(s, depth)
             snapshots == PutAll(s.snapshots, [f \in frames |-> ResimulatedWorld(s, FrameDistance(s.dirty, f))])
             used == PutAll(s.used, [f \in frames |-> RemoteFor(s, f)])
             hashes == PutAll(s.hashes, [f \in reached |-> ResimulatedWorld(s, FrameDistance(s.dirty, f))])
             u == Resimulated(s, depth, "ok")
             m == CountRollback(s.metrics, depth)
             v == [u EXCEPT !.dirty = NoFrame, !.metrics = m]
  <2>1. /\ s.dirty \in Boundaries /\ s.world.frame \in Boundaries /\ s.dirty < s.world.frame
        /\ s.dirty \in Nat /\ s.world.frame \in Nat /\ FrameCount \in Nat
        /\ s.world.frame <= FrameCount
    BY <1>2, BoundariesFit, LiveAssumption DEF InGame, Boundaries
  <2>2. depth = s.world.frame - s.dirty
    BY <2>1, BoundariesFit DEF Depth
  <2>3. u = [s EXCEPT !.world = world, !.snapshots = snapshots, !.used = used, !.hashes = hashes]
    BY DEF Resimulated
  <2>4. r.session = UpdateConfirmation(v)
    <3>1. /\ ResimulationFailure(s, Min({k \in 0 .. depth - 1 : ResimulationFailure(s, k) # "ok"})) # "ok"
             \/ {k \in 0 .. depth - 1 : ResimulationFailure(s, k) # "ok"} = {}
      <4> DEFINE failures == {k \in 0 .. depth - 1 : ResimulationFailure(s, k) # "ok"}
      <4>1. failures \in SUBSET Nat
        OBVIOUS
      <4>2. \A k \in failures : ResimulationFailure(s, k) # "ok"
        OBVIOUS
      <4> HIDE DEF failures
      <4>3. failures # {} => Min(failures) \in failures
        BY <4>1, LeastElement DEF Min
      <4> QED
        BY <4>2, <4>3 DEF failures
    <3>2. r.session = Corrected(u, depth)
      BY <1>2, <3>1 DEF FlushCorrections, Result
    <3>3. u.metrics = s.metrics
      <4> HIDE DEF world, snapshots, used, hashes
      <4> QED
        BY <2>3 DEF InGame, SessionFields
    <3> HIDE DEF u
    <3> QED
      BY <3>2, <3>3 DEF Corrected
  <2>5. ASSUME NEW i \in 0 .. depth
        PROVE  FrameOffset(s.dirty, i) = s.dirty + i /\ s.dirty + i \in Boundaries
    <3>1. i \in Nat /\ s.dirty + i <= s.world.frame
      BY <2>1, <2>2
    <3> QED
      BY <2>1, <3>1, BoundariesFit DEF Boundaries
  <2>6. frames \subseteq Boundaries /\ reached \subseteq Boundaries
    <3>1. 0 .. depth - 1 \subseteq 0 .. depth /\ 1 .. depth \subseteq 0 .. depth
      BY <2>1, <2>2
    <3> HIDE DEF depth
    <3> QED
      BY <2>5, <3>1
  <2>7. HoldsGame(used) /\ HoldsGame(hashes)
    <3>1. HoldsGame(s.used) /\ HoldsGame(s.hashes)
      BY DEF InGame
    <3>2. /\ DOMAIN [f \in frames |-> RemoteFor(s, f)] \subseteq Boundaries
          /\ DOMAIN [f \in reached |-> ResimulatedWorld(s, FrameDistance(s.dirty, f))] \subseteq Boundaries
      BY <2>6
    <3> HIDE DEF frames, reached
    <3> QED
      BY <3>1, <3>2, PutAllHoldsGame
  <2>8. world.frame = s.world.frame
    <3>1. world.frame = FrameOffset(s.dirty, depth)
      BY DEF ResimulatedWorld
    <3>2. depth \in 0 .. depth /\ s.dirty + depth = s.world.frame
      BY <2>1, <2>2
    <3> HIDE DEF depth, world
    <3> QED
      BY <2>5, <3>1, <3>2
  <2>9. DOMAIN m = MetricFields /\ m.rollbacks = s.metrics.rollbacks + 1
    BY DEF CountRollback, InGame, MetricFields
  <2> HIDE DEF world, snapshots, used, hashes, m, u, depth
  <2>10. /\ DOMAIN v = SessionFields /\ v.metrics = m /\ v.world = world /\ v.used = used
         /\ v.hashes = hashes /\ v.confirmed = s.confirmed /\ v.dirty = NoFrame
    BY <2>3 DEF InGame, SessionFields
  <2> HIDE DEF v
  <2>11. InGame(v) /\ v.dirty = NoFrame /\ Rollbacks(v) = Rollbacks(s) + 1
    BY <2>1, <2>7, <2>8, <2>9, <2>10 DEF InGame, Rollbacks
  <2> QED
    BY <1>2, <2>4, <2>11, ConfirmationInGame DEF Clean
<1> QED
  BY <1>1, <1>2

(* With nothing to correct, flush_corrections succeeds. *)
LEMMA CleanFlush ==
  ASSUME NEW s, Clean(s), NEW r, r = FlushCorrections(s)
  PROVE  /\ r.error = "ok" /\ Clean(r.session) /\ Rollbacks(r.session) = Rollbacks(s)
<1>1. r.error = "ok"
  BY DEF Clean, FlushCorrections, Result
<1> QED
  BY <1>1, FlushInGame DEF Clean

(* The frame of an input is a boundary of the game if it is of a ring of   *)
(* the game.                                                               *)
LEMMA HeldIsOfGame ==
  ASSUME NEW ring, HoldsGame(ring), NEW frame \in FrameNumbers, Contains(ring, frame)
  PROVE  frame \in Boundaries
<1>1. RingIndex(frame) \in Slots
  BY IndexInSlots
<1> QED
  BY <1>1, BoundariesFit DEF HoldsGame, Contains

(* An input that is taken may leave a correction pending. *)
LEMMA IngestInGame ==
  ASSUME NEW s, InGame(s), NEW player, NEW frame \in FrameNumbers, NEW buttons,
         NEW r, r = IngestRemote(s, player, frame, buttons), r.error = "ok"
  PROVE  InGame(r.session) /\ Rollbacks(r.session) = Rollbacks(s)
<1> DEFINE late == FrameBefore(frame, s.world.frame)
           counted == IF late /\ ~ Contains(s.remote, frame) THEN s.metrics.late + 1 ELSE s.metrics.late
           m == [s.metrics EXCEPT !.late = counted]
           remote == Put(s.remote, frame, buttons)
           u == [s EXCEPT !.remote = remote, !.metrics = m]
           wrong == late /\ Contains(s.used, frame) /\ Get(s.used, frame) # buttons
           dirty == IF s.dirty = NoFrame \/ FrameBefore(frame, s.dirty) THEN frame ELSE s.dirty
           confirmed == IF FrameBefore(frame, s.confirmed) THEN frame ELSE s.confirmed
           v == IF wrong THEN [u EXCEPT !.dirty = dirty, !.confirmed = confirmed] ELSE u
<1>1. DOMAIN m = MetricFields /\ m.rollbacks = s.metrics.rollbacks
  BY DEF InGame, MetricFields
<1>2. Accepted(s, frame, buttons) = v /\ r.session = UpdateConfirmation(Accepted(s, frame, buttons))
  <2>1. r.session = UpdateConfirmation(Accepted(s, frame, buttons))
    BY DEF IngestRemote, Result
  <2>2. u = [s EXCEPT !.remote = Put(@, frame, buttons),
                      !.metrics.late = IF late /\ ~ Contains(s.remote, frame) THEN @ + 1 ELSE @]
    OBVIOUS
  <2>3. u.dirty = s.dirty /\ u.confirmed = s.confirmed
    <3> HIDE DEF remote, m
    <3> QED
      BY DEF InGame, SessionFields
  <2>4. MarkDirty(u, frame) = [u EXCEPT !.dirty = dirty, !.confirmed = confirmed]
    <3> HIDE DEF u
    <3> QED
      BY <2>3 DEF MarkDirty
  <2>5. Accepted(s, frame, buttons) = IF wrong THEN MarkDirty(u, frame) ELSE u
    <3> HIDE DEF u
    <3> QED
      BY <2>2 DEF Accepted
  <2> HIDE DEF u, wrong, dirty, confirmed
  <2> QED
    BY <2>1, <2>4, <2>5
<1> HIDE DEF m, remote
<1>3. /\ DOMAIN u = SessionFields /\ u.metrics = m /\ u.world = s.world /\ u.used = s.used
      /\ u.hashes = s.hashes /\ u.confirmed = s.confirmed /\ u.dirty = s.dirty
  BY DEF InGame, SessionFields
<1> HIDE DEF u
<1>4. InGame(u)
  BY <1>1, <1>3 DEF InGame
<1>5. CASE wrong
  <2>1. frame \in Boundaries /\ frame < s.world.frame
    <3>1. frame \in Boundaries
      BY <1>5, HeldIsOfGame DEF InGame
    <3> QED
      BY <1>5, <3>1, BoundariesFit DEF InGame
  <2>2. dirty \in Boundaries /\ dirty < s.world.frame /\ confirmed \in FrameNumbers
    BY <2>1 DEF InGame
  <2> HIDE DEF dirty, confirmed
  <2>3. v = [u EXCEPT !.dirty = dirty, !.confirmed = confirmed]
    BY <1>5
  <2> HIDE DEF v
  <2>4. /\ DOMAIN v = SessionFields /\ v.metrics = m /\ v.world = s.world /\ v.used = s.used
        /\ v.hashes = s.hashes /\ v.confirmed = confirmed /\ v.dirty = dirty
    BY <1>3, <2>3 DEF SessionFields
  <2>5. InGame(v) /\ Rollbacks(v) = Rollbacks(s)
    BY <1>1, <2>2, <2>4 DEF InGame, Rollbacks
  <2> QED
    BY <1>2, <2>5, ConfirmationInGame
<1>6. CASE ~ wrong
  <2>1. v = u
    BY <1>6
  <2>2. Rollbacks(u) = Rollbacks(s)
    BY <1>1, <1>3 DEF Rollbacks
  <2> QED
    BY <1>2, <1>4, <2>1, <2>2, ConfirmationInGame
<1> QED
  BY <1>5, <1>6

(* A session without a correction plays one frame more. *)
LEMMA AdvanceInGame ==
  ASSUME NEW s, Clean(s), NEW player, NEW frame, NEW local,
         frame < FrameCount, NEW r, r = Advance(s, player, frame, local), r.error = "ok"
  PROVE  Clean(r.session) /\ Rollbacks(r.session) = Rollbacks(s)
<1> DEFINE at == s.world.frame
           remote == RemoteFor(s, at)
           pair == MakePair(s, local, remote)
           predicted == IF Contains(s.remote, at) THEN s.metrics.predicted ELSE s.metrics.predicted + 1
           m == [s.metrics EXCEPT !.predicted = predicted]
           next == SimulateFrame(s.world, pair)
           snapshots == Put(s.snapshots, at, s.world)
           locals == Put(s.local, at, local)
           used == Put(s.used, at, remote)
           hashes == Put(s.hashes, next.frame, next)
           u == [s EXCEPT !.snapshots = snapshots, !.local = locals, !.used = used, !.metrics = m]
           v == [u EXCEPT !.world = next, !.hashes = hashes]
<1>1. r = SimulateNext(s, local) /\ frame = at
  BY DEF Advance, Clean, Result
<1>2. /\ at \in Boundaries /\ at \in Nat /\ at + 1 \in Boundaries
      /\ FrameOffset(at, 1) = at + 1
  <2>1. at \in Boundaries /\ at \in Nat /\ FrameCount \in Nat
    BY BoundariesFit, LiveAssumption DEF Clean, InGame
  <2>2. at + 1 <= FrameCount /\ 1 \in Nat
    BY <1>1, <2>1
  <2> QED
    BY <2>1, <2>2, BoundariesFit DEF Boundaries
<1>3. next.frame = at + 1
  BY <1>2 DEF SimulateFrame, NextFrame
<1>4. DOMAIN m = MetricFields /\ m.rollbacks = s.metrics.rollbacks
  BY DEF Clean, InGame, MetricFields
<1>5. u = [s EXCEPT !.snapshots = Put(@, at, s.world), !.local = Put(@, at, local),
                    !.used = Put(@, at, remote),
                    !.metrics.predicted = IF Contains(s.remote, at) THEN @ ELSE @ + 1]
  <2> HIDE DEF remote, at
  <2> QED
    OBVIOUS
<1> HIDE DEF m, snapshots, locals, used
<1>6. /\ DOMAIN u = SessionFields /\ u.metrics = m /\ u.used = used
      /\ u.hashes = s.hashes /\ u.confirmed = s.confirmed /\ u.dirty = NoFrame
  BY DEF Clean, InGame, SessionFields
<1>7. r.session = UpdateConfirmation(v)
  <2>1. r = IF SimulateFails(s.world, pair) THEN Result(u, "arithmetic_overflow")
            ELSE Result(UpdateConfirmation([u EXCEPT !.world = next, !.hashes = Put(@, next.frame, next)]), "ok")
    <3> HIDE DEF u
    <3> QED
      BY <1>1, <1>5 DEF SimulateNext
  <2>2. [u EXCEPT !.world = next, !.hashes = Put(@, next.frame, next)] = v
    <3> HIDE DEF u, next
    <3> QED
      BY <1>6
  <2> HIDE DEF u, v
  <2> QED
    BY <2>1, <2>2 DEF Result
<1>8. HoldsGame(used) /\ HoldsGame(hashes)
  <2>1. HoldsGame(s.used) /\ HoldsGame(s.hashes) /\ next.frame \in Boundaries
    BY <1>2, <1>3 DEF Clean, InGame
  <2> HIDE DEF next, at, remote
  <2> QED
    BY <1>2, <2>1, PutHoldsGame DEF used, at
<1> HIDE DEF u, next, hashes
<1>9. /\ DOMAIN v = SessionFields /\ v.metrics = m /\ v.world = next /\ v.used = used
      /\ v.hashes = hashes /\ v.confirmed = s.confirmed /\ v.dirty = NoFrame
  BY <1>6 DEF SessionFields
<1> HIDE DEF v
<1>10. InGame(v) /\ v.dirty = NoFrame /\ Rollbacks(v) = Rollbacks(s)
  BY <1>2, <1>3, <1>4, <1>8, <1>9 DEF Clean, InGame, Rollbacks
<1> QED
  BY <1>7, <1>10, ConfirmationInGame DEF Clean

(* A new session is clean. *)
LEMMA NewSessionInGame ==
  ASSUME NEW peer
  PROVE  Clean(NewSession(peer))
<1> DEFINE s == NewSession(peer)
<1>1. /\ DOMAIN s = SessionFields /\ DOMAIN s.metrics = MetricFields
      /\ s.metrics.rollbacks = 0 /\ s.world.frame = StartFrame /\ s.confirmed = StartFrame
      /\ s.used = EmptyRing /\ s.hashes = Put(EmptyRing, StartFrame, InitialWorld)
      /\ s.dirty = NoFrame
  BY DEF NewSession, SessionFields, MetricFields, InitialWorld
<1>2. StartFrame \in Boundaries /\ StartFrame \in FrameNumbers
  BY LiveAssumption, BoundariesFit DEF Boundaries
<1>3. HoldsGame(EmptyRing)
  BY DEF HoldsGame, EmptyRing, EmptySlot
<1>4. HoldsGame(Put(EmptyRing, StartFrame, InitialWorld))
  BY <1>2, <1>3, PutHoldsGame
<1> HIDE DEF s
<1>5. Clean(s)
  BY <1>1, <1>2, <1>3, <1>4 DEF Clean, InGame
<1> QED
  BY <1>5 DEF s

-----------------------------------------------------------------------------
(* The packets on their way *)

(* Inputs and hashes of a datagram are of frame numbers. *)
Carries(d) ==
  /\ \E n \in Nat : DOMAIN d.inputs = 1 .. n
  /\ \A i \in DOMAIN d.inputs : d.inputs[i].frame \in FrameNumbers
  /\ \A i \in DOMAIN d.hashes : d.hashes[i].frame \in FrameNumbers

(* A copy in the queue. *)
Waits(p) ==
  /\ p.scheduled \in Nat /\ p.rank \in Nat /\ p.ordinal \in Nat
  /\ Carries(p.packet)

(* Copies of different ordinals. *)
Numbered(D) == \A p, q \in D : p.ordinal = q.ordinal => p = q

TransportFields == {"queue", "bytes", "ordinal", "burst", "metrics"}

(* What a transport keeps. *)
InOrder(t) ==
  /\ DOMAIN t = TransportFields
  /\ IsFiniteSet(t.queue)
  /\ t.ordinal \in Nat
  /\ \A p \in t.queue : Waits(p) /\ p.ordinal < t.ordinal
  /\ Numbered(t.queue)

(* The order of delivery is total. *)
LEMMA BeforeIsAnOrder ==
  ASSUME NEW D, \A p \in D : Waits(p), Numbered(D)
  PROVE  /\ \A p, q \in D : p # q => Before(p, q) \/ Before(q, p)
         /\ \A p, q, r \in D : Before(p, q) /\ Before(q, r) => Before(p, r)
<1>1. \A p \in D : p.scheduled \in Nat /\ p.rank \in Nat /\ p.ordinal \in Nat
  BY DEF Waits
<1>2. \A p, q \in D : p # q => Before(p, q) \/ Before(q, p)
  BY <1>1 DEF Before, Numbered
<1>3. \A p, q, r \in D : Before(p, q) /\ Before(q, r) => Before(p, r)
  BY <1>1 DEF Before
<1> QED
  BY <1>2, <1>3

IsLast(D, x) == x \in D /\ \A p \in D : p # x => Before(p, x)

(* A part with the fewest elements among some finite sets. *)
LEMMA FewestExist ==
  ASSUME NEW sets, sets # {}, \A s \in sets : IsFiniteSet(s)
  PROVE  \E s \in sets : \A u \in sets : Cardinality(s) <= Cardinality(u)
<1> DEFINE counts == {Cardinality(s) : s \in sets}
<1>1. counts \in SUBSET Nat /\ counts # {}
  BY FS_CardinalityType
<1>2. PICK n \in counts : \A m \in counts : n <= m
  BY <1>1, LeastElement
<1> QED
  BY <1>2

(* Without an element there are fewer. *)
LEMMA OneFewer ==
  ASSUME NEW D, IsFiniteSet(D), NEW x \in D
  PROVE  /\ IsFiniteSet(D \ {x}) /\ Cardinality(D) \in Nat /\ Cardinality(D \ {x}) \in Nat
         /\ Cardinality(D \ {x}) = Cardinality(D) - 1
  BY FS_RemoveElement, FS_CardinalityType

(* Some finite copies have a last one. *)
LEMMA LastExists ==
  ASSUME NEW D, IsFiniteSet(D), D # {}, \A p \in D : Waits(p), Numbered(D)
  PROVE  \E x : IsLast(D, x)
<1> DEFINE bad == {s \in SUBSET D : s # {} /\ ~ \E x : IsLast(s, x)}
<1> SUFFICES ASSUME bad # {}
             PROVE  FALSE
  OBVIOUS
<1>1. \A s \in bad : IsFiniteSet(s)
  BY FS_Subset
<1>2. PICK s \in bad : \A u \in bad : Cardinality(s) <= Cardinality(u)
  <2> HIDE DEF bad
  <2> QED
    BY <1>1, FewestExist
<1>3. s \in SUBSET D /\ s # {} /\ ~ \E x : IsLast(s, x)
  OBVIOUS
<1>4. PICK x \in s : TRUE
  BY <1>3
<1>5. s \ {x} \notin bad
  <2>1. IsFiniteSet(s) /\ x \in s
    BY <1>1
  <2>2. Cardinality(s) \in Nat /\ Cardinality(s \ {x}) = Cardinality(s) - 1
    BY <2>1, OneFewer
  <2>3. s \ {x} \in bad => Cardinality(s) <= Cardinality(s \ {x})
    BY <1>2
  <2> HIDE DEF bad
  <2> QED
    BY <2>2, <2>3
<1>6. s \ {x} # {}
  BY <1>3 DEF IsLast
<1>7. PICK y : IsLast(s \ {x}, y)
  BY <1>3, <1>5, <1>6
<1>8. y \in s /\ y # x /\ \A p \in s \ {x} : p # y => Before(p, y)
  BY <1>7 DEF IsLast
<1>9. CASE Before(x, y)
  BY <1>3, <1>8, <1>9 DEF IsLast
<1>10. CASE Before(y, x)
  <2>1. \A p \in s : p # x => Before(p, x)
    BY <1>3, <1>8, <1>10, BeforeIsAnOrder
  <2> QED
    BY <1>3, <2>1 DEF IsLast
<1> QED
  BY <1>3, <1>8, <1>9, <1>10, BeforeIsAnOrder

(* s has the copies of D in the order of delivery. *)
Sorts(s, D) ==
  /\ s \in [1 .. Cardinality(D) -> D]
  /\ \A i, j \in DOMAIN s : i < j => Before(s[i], s[j])

(* Some finite copies can be sorted: all but the last, and then the last.  *)
LEMMA SortExists ==
  ASSUME NEW D, IsFiniteSet(D), \A p \in D : Waits(p), Numbered(D)
  PROVE  \E s : Sorts(s, D)
<1> DEFINE bad == {d \in SUBSET D : ~ \E s : Sorts(s, d)}
<1> SUFFICES ASSUME bad # {}
             PROVE  FALSE
  <2>1. D \notin bad
    OBVIOUS
  <2> QED
    BY <2>1
<1>1. \A d \in bad : IsFiniteSet(d)
  BY FS_Subset
<1>2. PICK d \in bad : \A u \in bad : Cardinality(d) <= Cardinality(u)
  <2> HIDE DEF bad
  <2> QED
    BY <1>1, FewestExist
<1>3. d \in SUBSET D /\ ~ \E s : Sorts(s, d)
  OBVIOUS
<1>4. d # {}
  <2> SUFFICES ASSUME d = {}
               PROVE  FALSE
    OBVIOUS
  <2>1. Cardinality({}) = 0 /\ 1 .. 0 = {}
    BY FS_EmptySet
  <2> DEFINE none == [i \in {} |-> i]
  <2>2. Sorts(none, {})
    BY <2>1 DEF Sorts
  <2> QED
    BY <1>3, <2>2
<1>5. PICK x : IsLast(d, x)
  <2>1. IsFiniteSet(d) /\ (\A p \in d : Waits(p)) /\ Numbered(d)
    BY <1>1, <1>3 DEF Numbered
  <2> QED
    BY <1>4, <2>1, LastExists
<1>6. x \in d /\ \A p \in d : p # x => Before(p, x)
  BY <1>5 DEF IsLast
<1> DEFINE n == Cardinality(d)
<1>7. n \in Nat /\ n - 1 \in Nat /\ Cardinality(d \ {x}) = n - 1
  BY <1>1, <1>6, OneFewer
<1>8. d \ {x} \notin bad
  BY <1>2, <1>7
<1>9. PICK s : Sorts(s, d \ {x})
  BY <1>3, <1>8
<1>10. /\ s \in [1 .. n - 1 -> d \ {x}]
       /\ \A i, j \in 1 .. n - 1 : i < j => Before(s[i], s[j])
  BY <1>7, <1>9 DEF Sorts
<1> HIDE DEF n
<1> DEFINE r == [i \in 1 .. n |-> IF i = n THEN x ELSE s[i]]
<1>11. \A i \in 1 .. n : i = n \/ i \in 1 .. n - 1
  BY <1>7
<1>12. r \in [1 .. n -> d]
  BY <1>6, <1>10, <1>11
<1>13. ASSUME NEW i \in 1 .. n, NEW j \in 1 .. n, i < j
       PROVE  Before(r[i], r[j])
  <2>1. i \in 1 .. n - 1 /\ i # n
    BY <1>7, <1>13
  <2>2. r[i] = s[i] /\ s[i] \in d \ {x}
    BY <1>10, <2>1
  <2>3. CASE j = n
    BY <1>6, <2>2, <2>3
  <2>4. CASE j # n
    <3>1. j \in 1 .. n - 1 /\ r[j] = s[j]
      BY <1>11, <2>4
    <3> QED
      BY <1>10, <1>13, <2>1, <2>2, <3>1
  <2> QED
    BY <2>3, <2>4
<1>14. Sorts(r, d)
  <2> HIDE DEF r
  <2> QED
    BY <1>12, <1>13 DEF Sorts, n
<1> QED
  BY <1>3, <1>14

(* What deliver hands over is a sequence of what was in the queue. *)
LEMMA DeliverableFacts ==
  ASSUME NEW t, InOrder(t), NEW now, NEW s, s = Deliverable(t, now)
  PROVE  \E n \in Nat : /\ DOMAIN s = 1 .. n
                        /\ \A i \in 1 .. n : /\ s[i] \in TakenFrom(t, now)
                                             /\ Carries(s[i].packet)
<1> DEFINE taken == TakenFrom(t, now)
<1>1. taken \subseteq t.queue
  BY DEF TakenFrom
<1> HIDE DEF taken
<1>2. IsFiniteSet(taken) /\ (\A p \in taken : Waits(p)) /\ Numbered(taken)
  BY <1>1, FS_Subset DEF InOrder, Numbered
<1>3. \E r : Sorts(r, taken)
  BY <1>2, SortExists
<1>4. Sorts(s, taken)
  <2>1. s = CHOOSE r \in [1 .. Cardinality(taken) -> taken] :
               \A i, j \in DOMAIN r : i < j => Before(r[i], r[j])
    BY DEF Deliverable, taken
  <2> QED
    BY <1>3, <2>1 DEF Sorts
<1>5. Cardinality(taken) \in Nat
  BY <1>2, FS_CardinalityType
<1>6. /\ DOMAIN s = 1 .. Cardinality(taken)
      /\ \A i \in 1 .. Cardinality(taken) : s[i] \in taken
  BY <1>4 DEF Sorts
<1> QED
  BY <1>2, <1>5, <1>6 DEF Waits, taken

(* A queue that loses copies, and counts, stays in order. *)
LEMMA RemovalInOrder ==
  ASSUME NEW t, InOrder(t), NEW u, DOMAIN u = TransportFields, u.ordinal = t.ordinal,
         u.queue \subseteq t.queue
  PROVE  InOrder(u)
<1>1. IsFiniteSet(u.queue)
  BY FS_Subset DEF InOrder
<1> QED
  BY <1>1 DEF InOrder, Numbered

(* deliver keeps the queue in order. *)
LEMMA DeliverInOrder ==
  ASSUME NEW t, InOrder(t), NEW now
  PROVE  InOrder(Deliver(t, now))
<1> DEFINE u == Deliver(t, now)
<1>1. /\ DOMAIN u = TransportFields /\ u.ordinal = t.ordinal
      /\ u.queue = t.queue \ (Expired(t, now) \union TakenFrom(t, now))
  BY DEF Deliver, InOrder, TransportFields
<1> HIDE DEF u
<1>2. InOrder(u)
  BY <1>1, RemovalInOrder
<1> QED
  BY <1>2 DEF u

(* What the generator draws of the rank of a copy. *)
LEMMA RanksAreNat ==
  RankDraws \subseteq Nat
<1> DEFINE high == Jitter + 2
           most == Max({2, high})
<1>1. high \in Int
  BY TransportAssumption
<1> HIDE DEF high
<1>2. most \in Int
  <2>1. most = IF 2 <= high THEN high ELSE 2
    BY <1>1 DEF Max
  <2> QED
    BY <1>1, <2>1
<1>3. RankDraws = UNION {IF reordered THEN 1 .. most ELSE {0} : reordered \in Chance(ReorderPercent)}
  BY DEF RankDraws, high
<1> HIDE DEF most
<1>4. 1 .. most \in SUBSET Nat
  BY <1>2
<1> QED
  BY <1>3, <1>4

(* A new copy has a place in the order. *)
LEMMA ScheduledWaits ==
  ASSUME NEW packet, Carries(packet), NEW now \in Nat, NEW d \in CopyDraws,
         NEW ordinal \in Nat, NEW duplicate
  PROVE  LET p == Scheduled(packet, now, d, ordinal, duplicate)
         IN  Waits(p) /\ p.ordinal = ordinal
<1> DEFINE p == Scheduled(packet, now, d, ordinal, duplicate)
           wait == Latency + d.jitter - Jitter
           until == now + Delay(d)
           at == ScheduledFor(now, d)
<1>1. Latency \in Nat /\ Jitter \in Nat /\ LastTick \in Nat
  BY TransportAssumption
<1>2. d.jitter \in Nat /\ d.rank \in Nat
  <2>1. d.jitter \in 0 .. 2 * Jitter /\ d.rank \in RankDraws
    BY DEF CopyDraws
  <2>2. 0 .. 2 * Jitter \subseteq Nat
    BY <1>1
  <2> QED
    BY <2>1, <2>2, RanksAreNat
<1>3. wait \in Int
  BY <1>1, <1>2
<1>4. Delay(d) = Max({0, wait}) + d.rank
  BY DEF Delay
<1> HIDE DEF wait
<1>5. Max({0, wait}) \in Nat
  <2>1. Max({0, wait}) = IF 0 <= wait THEN wait ELSE 0
    BY <1>3 DEF Max
  <2> QED
    BY <1>3, <2>1
<1>6. until \in Nat
  BY <1>2, <1>4, <1>5
<1>7. at = Min({until, LastTick})
  BY DEF ScheduledFor
<1> HIDE DEF until
<1>8. at \in Nat
  <2>1. Min({until, LastTick}) = IF until <= LastTick THEN until ELSE LastTick
    BY <1>1, <1>6 DEF Min
  <2> QED
    BY <1>1, <1>6, <1>7, <2>1
<1> HIDE DEF at
<1>9. p = [packet |-> packet, size |-> packet.size, enqueued |-> now,
           scheduled |-> at, rank |-> d.rank, ordinal |-> ordinal, duplicate |-> duplicate]
  BY DEF Scheduled, at
<1> HIDE DEF p
<1>10. Waits(p) /\ p.ordinal = ordinal
  BY <1>2, <1>8, <1>9 DEF Waits
<1> QED
  BY <1>10 DEF p

(* Whatever ensure_capacity drops, the rest stays in order. *)
LEMMA RoomInOrder ==
  ASSUME NEW t, InOrder(t), NEW count, NEW bytes
  PROVE  InOrder(EnsureCapacity(t, count, bytes).transport)
<1>1. ASSUME NEW k
      PROVE  InOrder(WithoutOldest(t, k))
  <2> DEFINE u == WithoutOldest(t, k)
  <2>1. DOMAIN u = TransportFields /\ u.ordinal = t.ordinal /\ u.queue \subseteq t.queue
    BY DEF WithoutOldest, InOrder, TransportFields
  <2> HIDE DEF u
  <2>2. InOrder(u)
    BY <2>1, RemovalInOrder
  <2> QED
    BY <2>2 DEF u
<1>2. \/ EnsureCapacity(t, count, bytes).transport = t
      \/ \E k : EnsureCapacity(t, count, bytes).transport = WithoutOldest(t, k)
  BY DEF EnsureCapacity, SendResult
<1> QED
  BY <1>1, <1>2

(* New copies come last in the order of the ordinals. *)
LEMMA EnqueueInOrder ==
  ASSUME NEW t, InOrder(t), NEW packet, Carries(packet), NEW now \in Nat, NEW draw \in Draws
  PROVE  InOrder(Enqueue(t, packet, now, draw))
<1> DEFINE copies == IF draw.duplicate THEN 1 .. 2 ELSE {1}
           Copy(i) == Scheduled(packet, now, draw.copies[i], t.ordinal + i - 1, i = 2)
           added == {Copy(i) : i \in copies}
           u == Enqueue(t, packet, now, draw)
<1>1. t.ordinal \in Nat
  BY DEF InOrder
<1>2. /\ copies \subseteq 1 .. 2 /\ 1 \in copies
      /\ copies = {1} \/ copies = {1, 2}
  OBVIOUS
<1>3. /\ IsFiniteSet(copies) /\ Cardinality(copies) \in 1 .. 2
      /\ 2 \in copies => Cardinality(copies) = 2
  <2>1. IsFiniteSet({1}) /\ Cardinality({1}) = 1
    BY FS_Singleton
  <2>2. IsFiniteSet({1, 2}) /\ Cardinality({1, 2}) = 2
    <3>1. {1, 2} = {1} \union {2} /\ 2 \notin {1}
      OBVIOUS
    <3> QED
      BY <2>1, <3>1, FS_AddElement
  <2> HIDE DEF copies
  <2> QED
    BY <1>2, <2>1, <2>2
<1> HIDE DEF copies
<1>4. \A i \in copies : i \in 1 .. 2 /\ t.ordinal + i - 1 \in Nat /\ draw.copies[i] \in CopyDraws
  <2>1. \A i \in 1 .. 2 : draw.copies[i] \in CopyDraws
    BY DEF Draws
  <2> QED
    BY <1>1, <1>2, <2>1
<1>5. \A i \in copies : Waits(Copy(i)) /\ Copy(i).ordinal = t.ordinal + i - 1
  <2> TAKE i \in copies
  <2> DEFINE n == t.ordinal + i - 1
             d == draw.copies[i]
             again == i = 2
  <2>1. n \in Nat /\ d \in CopyDraws
    BY <1>4
  <2> HIDE DEF n, d, again
  <2>2. Waits(Scheduled(packet, now, d, n, again)) /\ Scheduled(packet, now, d, n, again).ordinal = n
    BY <2>1, ScheduledWaits
  <2> QED
    BY <2>2 DEF n, d, again
<1>6. /\ DOMAIN u = TransportFields /\ u.queue = t.queue \union added
      /\ u.ordinal = t.ordinal + Cardinality(copies)
  BY DEF Enqueue, InOrder, TransportFields, copies
<1> HIDE DEF Copy, u
<1>7. IsFiniteSet(added)
  <2>1. added = {Copy(1)} \/ added = {Copy(1), Copy(2)}
    BY <1>2
  <2>2. {Copy(1), Copy(2)} = {Copy(1)} \union {Copy(2)}
    OBVIOUS
  <2>3. IsFiniteSet({Copy(1)})
    BY FS_Singleton
  <2>4. IsFiniteSet({Copy(1)} \union {Copy(2)})
    BY <2>3, FS_AddElement
  <2> HIDE DEF added
  <2> QED
    BY <2>1, <2>2, <2>3, <2>4
<1>8. \A i \in copies : Copy(i).ordinal >= t.ordinal /\ Copy(i).ordinal < u.ordinal
  <2> TAKE i \in copies
  <2>1. i \in 1 .. 2 /\ Cardinality(copies) \in 1 .. 2 /\ i <= Cardinality(copies)
    BY <1>2, <1>3
  <2> QED
    BY <1>1, <1>5, <1>6, <2>1
<1>9. \A p \in added : Waits(p) /\ p.ordinal >= t.ordinal /\ p.ordinal < u.ordinal
  BY <1>5, <1>8
<1>10. Numbered(added)
  <2>1. ASSUME NEW i \in copies, NEW j \in copies, Copy(i).ordinal = Copy(j).ordinal
        PROVE  Copy(i) = Copy(j)
    <3>1. t.ordinal + i - 1 = t.ordinal + j - 1 /\ i \in 1 .. 2 /\ j \in 1 .. 2
      BY <1>2, <1>5, <2>1
    <3>2. i = j
      BY <1>1, <3>1
    <3> QED
      BY <3>2
  <2> QED
    BY <2>1 DEF Numbered
<1> HIDE DEF added
<1>11. /\ IsFiniteSet(t.queue) /\ Numbered(t.queue)
       /\ \A p \in t.queue : Waits(p) /\ p.ordinal \in Nat /\ p.ordinal < t.ordinal
  BY DEF InOrder, Waits
<1>12. u.ordinal \in Nat /\ t.ordinal < u.ordinal
  BY <1>1, <1>3, <1>6
<1>13. \A p \in u.queue : Waits(p) /\ p.ordinal < u.ordinal
  BY <1>1, <1>6, <1>9, <1>11, <1>12
<1>14. Numbered(u.queue)
  <2>1. \A p \in t.queue, q \in added : p.ordinal # q.ordinal
    <3> TAKE p \in t.queue, q \in added
    <3>1. p.ordinal \in Nat /\ q.ordinal \in Nat /\ p.ordinal < t.ordinal /\ q.ordinal >= t.ordinal
      BY <1>9, <1>11 DEF Waits
    <3> QED
      BY <1>1, <3>1
  <2> QED
    BY <1>6, <1>10, <1>11, <2>1 DEF Numbered
<1>15. IsFiniteSet(u.queue)
  <2>1. IsFiniteSet(t.queue \union added)
    BY <1>7, <1>11, FS_Union
  <2> QED
    BY <1>6, <2>1
<1>16. InOrder(u)
  BY <1>6, <1>12, <1>13, <1>14, <1>15 DEF InOrder
<1> QED
  BY <1>16 DEF u

(* So do send's. *)
LEMMA SendInOrder ==
  ASSUME NEW t, InOrder(t), NEW packet, Carries(packet), NEW now \in Nat, NEW draw \in Draws
  PROVE  InOrder(Send(t, packet, now, draw).transport)
<1> DEFINE counted == [t EXCEPT !.metrics.sent = @ + 1]
           drawn == [counted EXCEPT !.burst = Burst(t, draw)]
           lost == [drawn EXCEPT !.metrics.loss = @ + 1]
           copies == IF draw.duplicate THEN 2 ELSE 1
           room == EnsureCapacity(drawn, copies, packet.size * copies)
<1>1. /\ DOMAIN counted = TransportFields /\ counted.ordinal = t.ordinal
      /\ counted.queue = t.queue
  BY DEF InOrder, TransportFields
<1> HIDE DEF counted
<1>2. /\ DOMAIN drawn = TransportFields /\ drawn.ordinal = t.ordinal /\ drawn.queue = t.queue
  BY <1>1 DEF TransportFields
<1> HIDE DEF drawn
<1>3. /\ DOMAIN lost = TransportFields /\ lost.ordinal = t.ordinal /\ lost.queue = t.queue
  BY <1>2 DEF TransportFields
<1> HIDE DEF lost, copies
<1>4. InOrder(counted) /\ InOrder(drawn) /\ InOrder(lost)
  BY <1>1, <1>2, <1>3, RemovalInOrder
<1>5. InOrder(room.transport)
  BY <1>4, RoomInOrder
<1> HIDE DEF room
<1>6. InOrder(Enqueue(room.transport, packet, now, draw))
  BY <1>5, EnqueueInOrder
<1>7. Send(t, packet, now, draw).transport
        \in {counted, lost, room.transport, Enqueue(room.transport, packet, now, draw)}
  BY DEF Send, SendResult, counted, drawn, lost, copies, room
<1> QED
  BY <1>4, <1>5, <1>6, <1>7

-----------------------------------------------------------------------------
(* The packets that are made *)

(* An offset wraps round to a frame number. *)
LEMMA OffsetInRange ==
  ASSUME NEW frame \in FrameNumbers, NEW k \in Int
  PROVE  FrameOffset(frame, k) \in FrameNumbers
  BY ModulusAssumption DEF FrameOffset, FrameNumbers

IsList(h) == \E S : h \in Seq(S)

(* A recorded input makes a list longer. *)
LEMMA AppendedIsList ==
  ASSUME NEW h, IsList(h), NEW x
  PROVE  IsList(Append(h, x))
<1>1. PICK S : h \in Seq(S)
  BY DEF IsList
<1>2. Len(h) \in Nat /\ h \in [1 .. Len(h) -> S]
  BY <1>1
<1>3. h \in [1 .. Len(h) -> S \union {x}]
  BY <1>2
<1>4. h \in Seq(S \union {x})
  BY <1>2, <1>3
<1>5. Append(h, x) \in Seq(S \union {x})
  BY <1>4
<1> QED
  BY <1>5 DEF IsList

(* The datagram that a session's packet becomes. *)
LEMMA MadeCarries ==
  ASSUME NEW l, NEW p, IsList(l.history[p]), l.peer[p].confirmed \in FrameNumbers
  PROVE  Carries(Encoded(MakePacket(l, p)))
<1> DEFINE h == l.history[p]
           session == l.peer[p]
           inputs == WindowFrom(p, h)
           hashes == ConfirmedHashes(p, session)
           d == Encoded(MakePacket(l, p))
<1>1. d.inputs = inputs /\ d.hashes = hashes
  BY DEF Encoded, MakePacket
<1>2. Redundancy \in Nat /\ StartFrame \in FrameNumbers
  BY CodecAssumption, SessionAssumption
<1>3. Len(h) \in Nat
  BY DEF IsList
<1>4. /\ \E n \in Nat : DOMAIN inputs = 1 .. n
      /\ \A i \in DOMAIN inputs : inputs[i].frame \in FrameNumbers
  <2> DEFINE count == Min({Len(h), Redundancy})
  <2>1. count = IF Len(h) <= Redundancy THEN Len(h) ELSE Redundancy
    BY <1>2, <1>3 DEF Min
  <2>2. DOMAIN inputs = 1 .. count
    BY DEF WindowFrom
  <2>3. \A i \in 1 .. count : inputs[i].frame = FrameOffset(StartFrame, Len(h) - count + i - 1)
    BY DEF WindowFrom
  <2> HIDE DEF count, h, inputs
  <2>4. count \in Nat /\ \A i \in 1 .. count : Len(h) - count + i - 1 \in Int
    BY <1>2, <1>3, <2>1
  <2>5. \A i \in 1 .. count : inputs[i].frame \in FrameNumbers
    BY <1>2, <2>3, <2>4, OffsetInRange
  <2> QED
    BY <2>2, <2>4, <2>5
<1>5. \A i \in DOMAIN hashes : hashes[i].frame \in FrameNumbers
  <2> DEFINE AtHand(k) == HashAt(session, FrameOffset(session.confirmed, -k)).error = "ok"
             sent == {k \in 0 .. Redundancy - 1 : \A j \in 0 .. k : AtHand(j)}
             count == Cardinality(sent)
  <2>1. count \in Nat
    <3>1. IsFiniteSet(0 .. Redundancy - 1)
      BY <1>2, FS_Interval
    <3>2. sent \subseteq 0 .. Redundancy - 1
      OBVIOUS
    <3> HIDE DEF sent
    <3> QED
      BY <3>1, <3>2, FS_Subset, FS_CardinalityType
  <2>2. /\ DOMAIN hashes = 1 .. count
        /\ \A i \in 1 .. count : hashes[i].frame = FrameOffset(session.confirmed, -(count - i))
    BY DEF ConfirmedHashes
  <2> HIDE DEF count, hashes
  <2>3. \A i \in 1 .. count : -(count - i) \in Int
    BY <2>1
  <2> QED
    BY <2>2, <2>3, OffsetInRange
<1> HIDE DEF d, inputs, hashes
<1>6. Carries(d)
  BY <1>1, <1>4, <1>5 DEF Carries
<1> QED
  BY <1>6 DEF d

-----------------------------------------------------------------------------
(* The scenario *)

LiveFields ==
  {"peer", "window", "tracker", "divergent", "corrected", "history", "direct",
   "checkpoints", "transport", "sequence", "tick", "finished", "failure", "report"}

(* Both peers have all that they need. *)
Whole(l) ==
  /\ DOMAIN l = LiveFields
  /\ DOMAIN l.peer = Players
  /\ DOMAIN l.window = Players
  /\ DOMAIN l.tracker = Players
  /\ DOMAIN l.corrected = Players
  /\ DOMAIN l.history = Players

(* Each divergence is known to a tracker whose own is no later one.  *)
Tracked(l) ==
  /\ l.divergent \subseteq Boundaries
  /\ \A p \in Players : l.tracker[p] = NoFrame \/ l.tracker[p] \in l.divergent
  /\ \A f \in l.divergent : \E p \in Players : l.tracker[p] # NoFrame /\ l.tracker[p] <= f

(* What holds as long as nothing has failed. *)
Ready(l) ==
  /\ \A p \in Players : Clean(l.peer[p]) /\ IsList(l.history[p])
  /\ Tracked(l)
  /\ InOrder(l.transport)
  /\ l.direct.frame \in Boundaries

(* The corrections shown since the tick began at m are those that were     *)
(* performed.                                                              *)
Reports(l, m) ==
  \A p \in Players :
    /\ Rollbacks(m.peer[p]) \in Nat
    /\ Rollbacks(m.peer[p]) <= Rollbacks(l.peer[p])
    /\ l.corrected[p] <=> Rollbacks(l.peer[p]) > Rollbacks(m.peer[p])

(* l is a state within the tick that began at m. *)
Goes(l, m) ==
  /\ Whole(l)
  /\ l.tick = m.tick /\ m.tick \in Nat
  /\ l.report = m.report
  /\ l.finished = m.finished
  /\ l.failure = "ok" => Ready(l) /\ Reports(l, m) /\ l.direct.frame <= m.tick + 1

(* A state that failed on the way. *)
LEMMA FailedGoes ==
  ASSUME NEW l, NEW m, Goes(l, m), NEW u, Whole(u), u.tick = l.tick, u.report = l.report,
         u.finished = l.finished, u.failure # "ok"
  PROVE  Goes(u, m)
  BY DEF Goes

(* The deliveries of a tick are counted as those that were performed. *)
LEMMA BegunGoes ==
  ASSUME NEW m, Whole(m), Ready(m), m.tick \in Nat, m.direct.frame <= m.tick + 1
  PROVE  Goes(Begun(m), m)
<1> DEFINE u == Begun(m)
<1>1. /\ DOMAIN u = LiveFields /\ u.corrected = [p \in Players |-> FALSE]
      /\ u.peer = m.peer /\ u.window = m.window /\ u.tracker = m.tracker
      /\ u.divergent = m.divergent /\ u.history = m.history /\ u.direct = m.direct
      /\ u.transport = m.transport /\ u.tick = m.tick /\ u.finished = m.finished
      /\ u.failure = m.failure /\ u.report = m.report
  BY DEF Begun, Whole, LiveFields
<1> HIDE DEF u
<1>2. Whole(u) /\ Ready(u)
  BY <1>1 DEF Whole, Ready, Tracked
<1>3. Reports(u, m)
  <2>1. \A p \in Players : /\ Rollbacks(m.peer[p]) \in Nat /\ u.peer[p] = m.peer[p]
                           /\ u.corrected[p] = FALSE
    BY <1>1 DEF Ready, Clean, InGame, Rollbacks
  <2> QED
    BY <2>1 DEF Reports
<1>4. Goes(u, m)
  BY <1>1, <1>2, <1>3 DEF Goes
<1> QED
  BY <1>4 DEF u

(* A frame of the game is recorded and played by the canonical rules. *)
LEMMA RecordGoes ==
  ASSUME NEW l, NEW m, Goes(l, m), l.failure = "ok", l.direct.frame <= m.tick,
         m.tick < FrameCount, NEW pair
  PROVE  Goes(RecordFrame(l, pair), m)
<1> DEFINE direct == SimulateFrame(l.direct, pair)
           history == [p \in Players |-> Append(l.history[p], pair[p])]
           recorded == [l EXCEPT !.history = history]
           kept == IF direct.frame % CheckpointEvery = 0 \/ direct.frame = FrameCount
                   THEN l.checkpoints \union {[frame |-> direct.frame, hash |-> CanonicalHash(direct)]}
                   ELSE l.checkpoints
           played == [recorded EXCEPT !.direct = direct, !.checkpoints = kept]
           u == RecordFrame(l, pair)
<1>1. Whole(l) /\ Ready(l) /\ Reports(l, m) /\ m.tick \in Nat
  BY DEF Goes
<1>2. direct.frame \in Boundaries /\ direct.frame <= m.tick + 1
  <2> DEFINE at == l.direct.frame
             tick == m.tick
  <2>1. at \in Boundaries /\ at \in Nat /\ tick \in Nat /\ FrameCount \in Nat
    BY <1>1, BoundariesFit, LiveAssumption DEF Ready
  <2>2. at <= tick /\ tick < FrameCount
    OBVIOUS
  <2>3. direct.frame = FrameOffset(at, 1)
    BY DEF SimulateFrame, NextFrame
  <2> HIDE DEF at, tick, direct
  <2>4. at + 1 <= FrameCount /\ at + 1 <= tick + 1
    BY <2>1, <2>2
  <2>5. direct.frame = at + 1
    BY <2>1, <2>3, <2>4, BoundariesFit
  <2>6. direct.frame \in 0 .. FrameCount /\ direct.frame <= tick + 1
    BY <2>1, <2>4, <2>5
  <2> QED
    BY <2>6 DEF Boundaries, tick
<1> HIDE DEF direct
<1>3. recorded = [l EXCEPT !.history = [p \in Players |-> Append(@[p], pair[p])]]
  OBVIOUS
<1>4. /\ DOMAIN history = Players
      /\ \A p \in Players : IsList(history[p])
  BY <1>1, AppendedIsList DEF Ready
<1> HIDE DEF history
<1>5. /\ DOMAIN recorded = LiveFields /\ recorded.checkpoints = l.checkpoints
      /\ recorded.tick = l.tick /\ recorded.report = l.report
      /\ recorded.finished = l.finished /\ recorded.failure = "ok"
      /\ recorded.peer = l.peer /\ recorded.window = l.window /\ recorded.tracker = l.tracker
      /\ recorded.divergent = l.divergent /\ recorded.corrected = l.corrected
      /\ recorded.history = history /\ recorded.transport = l.transport
  BY <1>1 DEF Whole, LiveFields
<1> HIDE DEF recorded
<1>6. u = IF SimulateFails(l.direct, pair) THEN Fail(recorded, "arithmetic_overflow") ELSE played
  <2>1. [recorded EXCEPT
          !.direct = direct,
          !.checkpoints =
             IF direct.frame % CheckpointEvery = 0 \/ direct.frame = FrameCount
             THEN @ \union {[frame |-> direct.frame, hash |-> CanonicalHash(direct)]} ELSE @]
        = played
    <3> HIDE DEF u
    <3> QED
      BY <1>5
  <2> HIDE DEF played
  <2> QED
    BY <1>3, <2>1 DEF RecordFrame, direct
<1> HIDE DEF u, kept
<1>7. CASE SimulateFails(l.direct, pair)
  <2> DEFINE e == "arithmetic_overflow"
  <2>1. u = [recorded EXCEPT !.failure = e]
    BY <1>6, <1>7 DEF Fail
  <2>2. u.failure # "ok"
    BY <1>5, <2>1 DEF LiveFields
  <2>3. /\ DOMAIN u = LiveFields /\ u.tick = l.tick /\ u.report = l.report
        /\ u.finished = l.finished /\ u.peer = l.peer /\ u.window = l.window
        /\ u.tracker = l.tracker /\ u.corrected = l.corrected /\ u.history = history
    BY <1>5, <2>1 DEF LiveFields
  <2>4. Whole(u)
    BY <1>1, <1>4, <2>3 DEF Whole
  <2>5. Goes(u, m)
    BY <2>2, <2>3, <2>4, FailedGoes
  <2> QED
    BY <2>5 DEF u
<1>8. CASE ~ SimulateFails(l.direct, pair)
  <2>1. u = played
    BY <1>6, <1>8
  <2>2. /\ DOMAIN u = LiveFields /\ u.tick = l.tick /\ u.report = l.report
        /\ u.finished = l.finished /\ u.peer = l.peer /\ u.window = l.window
        /\ u.tracker = l.tracker /\ u.divergent = l.divergent /\ u.corrected = l.corrected
        /\ u.history = history /\ u.transport = l.transport /\ u.direct = direct
    BY <1>5, <2>1 DEF LiveFields
  <2>3. Whole(u) /\ Ready(u) /\ Reports(u, m)
    BY <1>1, <1>2, <1>4, <2>2 DEF Whole, Ready, Tracked, Reports
  <2>4. Goes(u, m)
    BY <1>2, <2>2, <2>3 DEF Goes
  <2> QED
    BY <2>4 DEF u
<1> QED
  BY <1>7, <1>8

(* Both packets of a tick are made and sent. *)
LEMMA SendBothGoes ==
  ASSUME NEW l, NEW m, Goes(l, m), NEW u \in SendBoth(l)
  PROVE  Goes(u, m)
<1> DEFINE packetA == MakePacket(l, "a")
           packetB == MakePacket(l, "b")
           sequence == (l.sequence + 1) % SequenceModulus
           After(t, e) == [l EXCEPT !.sequence = sequence, !.transport = t, !.failure = e]
<1>1. CASE l.failure # "ok"
  BY <1>1 DEF SendBoth
<1>2. CASE l.failure = "ok"
  <2>1. Whole(l) /\ Ready(l) /\ Reports(l, m) /\ l.tick \in Nat
    BY <1>2 DEF Goes
  <2>2. Carries(Encoded(packetA)) /\ Carries(Encoded(packetB))
    <3>1. \A p \in Players : IsList(l.history[p]) /\ l.peer[p].confirmed \in FrameNumbers
      BY <2>1 DEF Ready, Clean, InGame
    <3> QED
      BY <3>1, MadeCarries DEF Players
  <2> HIDE DEF packetA, packetB
  <2>3. ASSUME NEW t, InOrder(t), NEW packet, Carries(Encoded(packet)),
               NEW r \in SendPacket(t, packet, l.tick)
        PROVE  InOrder(r.transport)
    <3>1. CASE EncodeError(packet) # "ok"
      BY <2>3, <3>1 DEF SendPacket, SendResult
    <3>2. CASE EncodeError(packet) = "ok"
      <4>1. PICK draw \in Draws : r = Send(t, Encoded(packet), l.tick, draw)
        BY <3>2 DEF SendPacket
      <4> QED
        BY <2>1, <2>3, <4>1, SendInOrder
    <3> QED
      BY <3>1, <3>2
  <2>4. PICK first \in SendPacket(l.transport, packetA, l.tick) :
          \E second \in SendPacket(first.transport, packetB, l.tick) :
            u = After(second.transport, IF first.error # "ok" THEN first.error ELSE second.error)
    <3>1. u \in UNION {{After(second.transport,
                              IF first.error # "ok" THEN first.error ELSE second.error) :
                          second \in SendPacket(first.transport, packetB, l.tick)} :
                       first \in SendPacket(l.transport, packetA, l.tick)}
      BY <1>2 DEF SendBoth, packetA, packetB
    <3> HIDE DEF After
    <3> QED
      BY <3>1
  <2>5. PICK second \in SendPacket(first.transport, packetB, l.tick) :
          u = After(second.transport, IF first.error # "ok" THEN first.error ELSE second.error)
    BY <2>4
  <2> DEFINE t == second.transport
             e == IF first.error # "ok" THEN first.error ELSE second.error
  <2>6. InOrder(t)
    <3>1. InOrder(first.transport)
      BY <2>1, <2>2, <2>3 DEF Ready
    <3> QED
      BY <2>2, <2>3, <3>1
  <2>7. u = After(t, e)
    BY <2>5
  <2> HIDE DEF t, e, sequence
  <2>8. /\ DOMAIN u = LiveFields /\ u.tick = l.tick /\ u.report = l.report
        /\ u.finished = l.finished /\ u.peer = l.peer /\ u.window = l.window
        /\ u.tracker = l.tracker /\ u.divergent = l.divergent /\ u.corrected = l.corrected
        /\ u.history = l.history /\ u.transport = t /\ u.direct = l.direct
    BY <2>1, <2>7 DEF Whole, LiveFields
  <2>9. Whole(u) /\ Ready(u) /\ Reports(u, m)
    BY <2>1, <2>6, <2>8 DEF Whole, Ready, Tracked, Reports
  <2> QED
    BY <1>2, <2>8, <2>9 DEF Goes
<1> QED
  BY <1>1, <1>2

(* Both peers play a frame of the game, neither with a correction. *)
LEMMA AdvanceBothGoes ==
  ASSUME NEW l, NEW m, Goes(l, m), l.failure = "ok", NEW pair
  PROVE  Goes(AdvanceBoth(l, pair), m)
<1> DEFINE R(p) == Advance(l.peer[p], p, l.direct.frame - 1, pair[p])
           advanced == [p \in Players |-> R(p)]
           peer == [p \in Players |-> advanced[p].session]
           e == IF advanced["a"].error # "ok" THEN advanced["a"].error ELSE advanced["b"].error
           u == AdvanceBoth(l, pair)
<1>1. Whole(l) /\ Ready(l) /\ Reports(l, m)
  BY DEF Goes
<1>2. l.direct.frame - 1 < FrameCount
  <2> DEFINE at == l.direct.frame
  <2>1. at \in 0 .. FrameCount
    BY <1>1 DEF Ready, Boundaries
  <2> HIDE DEF at
  <2>2. at - 1 < FrameCount
    BY <2>1, LiveAssumption
  <2> QED
    BY <2>2 DEF at
<1>3. ASSUME NEW p \in Players, R(p).error = "ok"
      PROVE  Clean(R(p).session) /\ Rollbacks(R(p).session) = Rollbacks(l.peer[p])
  <2> DEFINE s == l.peer[p]
             frame == l.direct.frame - 1
  <2>1. Clean(s) /\ frame < FrameCount
    BY <1>1, <1>2 DEF Ready
  <2>2. R(p) = Advance(s, p, frame, pair[p])
    OBVIOUS
  <2> HIDE DEF s, frame, R
  <2>3. Clean(R(p).session) /\ Rollbacks(R(p).session) = Rollbacks(s)
    BY <1>3, <2>1, <2>2, AdvanceInGame
  <2> QED
    BY <2>3 DEF s
<1> HIDE DEF R
<1>4. /\ DOMAIN peer = Players
      /\ \A p \in Players : peer[p] = R(p).session
      /\ e = IF R("a").error # "ok" THEN R("a").error ELSE R("b").error
  BY DEF Players
<1>5. u = [l EXCEPT !.peer = peer, !.failure = e]
  BY DEF AdvanceBoth, R
<1> HIDE DEF peer, e, u
<1>6. /\ DOMAIN u = LiveFields /\ u.tick = l.tick /\ u.report = l.report
      /\ u.finished = l.finished /\ u.peer = peer /\ u.window = l.window
      /\ u.tracker = l.tracker /\ u.divergent = l.divergent /\ u.corrected = l.corrected
      /\ u.history = l.history /\ u.transport = l.transport /\ u.direct = l.direct
      /\ u.failure = e
  BY <1>1, <1>5 DEF Whole, LiveFields
<1>7. Whole(u)
  BY <1>1, <1>4, <1>6 DEF Whole
<1>8. CASE e # "ok"
  <2>1. Goes(u, m)
    BY <1>6, <1>7, <1>8, FailedGoes
  <2> QED
    BY <2>1 DEF u
<1>9. CASE e = "ok"
  <2>1. \A p \in Players : Clean(peer[p]) /\ Rollbacks(peer[p]) = Rollbacks(l.peer[p])
    <3>1. \A p \in Players : R(p).error = "ok"
      BY <1>4, <1>9 DEF Players
    <3> QED
      BY <1>3, <1>4, <3>1
  <2>2. Ready(u) /\ Reports(u, m)
    BY <1>1, <1>6, <2>1 DEF Ready, Tracked, Reports
  <2>3. Goes(u, m)
    BY <1>6, <1>7, <2>2 DEF Goes
  <2> QED
    BY <2>3 DEF u
<1> QED
  BY <1>8, <1>9

-----------------------------------------------------------------------------
(* The deliveries *)

(* A packet whose inputs are all taken leaves the corrections to the flush *)
(* that follows.                                                           *)
LEMMA IngestAllInGame ==
  ASSUME NEW s, InGame(s), NEW inputs, NEW n \in Nat, DOMAIN inputs = 1 .. n,
         \A i \in 1 .. n : inputs[i].frame \in FrameNumbers,
         NEW r, r = IngestAll(s, inputs), r.error = "ok"
  PROVE  InGame(r.session) /\ Rollbacks(r.session) = Rollbacks(s)
<1> DEFINE base == Result(s, "ok")
           Fine(x) == x.error = "ok" => InGame(x.session) /\ Rollbacks(x.session) = Rollbacks(s)
<1>1. r = Folded(TRUE, base, inputs)
  BY LoopsAreFolds
<1>2. Fine(base)
  BY DEF Result
<1> HIDE DEF base
<1>3. PICK v : Runs(v, n, TRUE, base, inputs)
  BY FoldRuns
<1>4. /\ v[0] = base
      /\ \A k \in 1 .. n : v[k] = IngestNext(v[k - 1], inputs[k])
      /\ r = v[n]
  BY <1>1, <1>3 DEF Runs, Turn
<1>5. ASSUME NEW x, Fine(x), NEW input, input.frame \in FrameNumbers
      PROVE  Fine(IngestNext(x, input))
  <2> DEFINE y == IngestNext(x, input)
  <2>1. CASE x.error # "ok"
    BY <1>5, <2>1 DEF IngestNext
  <2>2. CASE x.error = "ok"
    <3>1. y = IngestRemote(x.session, input.player, input.frame, input.buttons)
      BY <2>2 DEF IngestNext
    <3> HIDE DEF y
    <3>2. Fine(y)
      BY <1>5, <2>2, <3>1, IngestInGame
    <3> QED
      BY <3>2 DEF y
  <2> QED
    BY <2>1, <2>2
<1> DEFINE bad == {k \in 0 .. n : ~ Fine(v[k])}
<1> HIDE DEF Fine
<1>6. bad = {}
  <2> SUFFICES ASSUME bad # {}
               PROVE  FALSE
    OBVIOUS
  <2>1. PICK k \in bad : \A i \in bad : k <= i
    <3>1. bad \in SUBSET Nat
      OBVIOUS
    <3> HIDE DEF bad
    <3> QED
      BY <3>1, LeastElement
  <2>2. k \in 0 .. n /\ ~ Fine(v[k]) /\ k # 0
    BY <1>2, <1>4
  <2>3. k \in 1 .. n /\ k - 1 \in 0 .. n /\ k - 1 < k
    BY <2>2
  <2>4. Fine(v[k - 1])
    BY <2>1, <2>3
  <2> QED
    BY <1>4, <1>5, <2>2, <2>3, <2>4
<1>7. Fine(v[n])
  BY <1>6
<1> QED
  BY <1>4, <1>7 DEF Fine

(* The tracker of a peer takes the earliest of what it is shown. *)
LEMMA ObserveIsEarliest ==
  ASSUME NEW tracker \in Boundaries \union {NoFrame}, NEW frames \in SUBSET Boundaries,
         NEW r, r = ObserveDesync(tracker, frames)
  PROVE  /\ r = NoFrame <=> tracker = NoFrame /\ frames = {}
         /\ r # NoFrame => r \in frames \union {tracker}
         /\ r # NoFrame => \A g \in frames \union {tracker} : g # NoFrame => r <= g
<1> DEFINE known == frames \union ({tracker} \ {NoFrame})
<1>1. known \subseteq Boundaries /\ NoFrame \notin known
  BY BoundariesFit
<1>2. /\ known = {} <=> tracker = NoFrame /\ frames = {}
      /\ known = {} => r = NoFrame
  <2> HIDE DEF known
  <2>1. known = {} => r = NoFrame
    BY DEF ObserveDesync, known
  <2> QED
    BY <1>1, <2>1, BoundariesFit DEF known
<1>3. CASE known # {}
  <2>1. r = CHOOSE f \in known : \A g \in known : g = f \/ FrameBefore(f, g)
    BY <1>3 DEF ObserveDesync
  <2> HIDE DEF known
  <2>2. known \in SUBSET Nat
    BY <1>1, BoundariesFit
  <2>3. PICK f \in known : \A g \in known : f <= g
    BY <1>3, <2>2, LeastElement
  <2>4. \A g \in known : g = f \/ FrameBefore(f, g)
    <3>1. \A g \in known : g = f \/ f < g
      BY <2>2, <2>3
    <3> QED
      BY <1>1, <3>1, BoundariesFit
  <2>5. r \in known /\ \A g \in known : g = r \/ FrameBefore(r, g)
    BY <2>1, <2>4
  <2>6. \A g \in known : r <= g
    <3>1. \A g \in known : g = r \/ r < g
      BY <1>1, <2>5, BoundariesFit
    <3> QED
      BY <2>2, <2>5, <3>1
  <2> QED
    BY <1>1, <1>2, <1>3, <2>5, <2>6 DEF known
<1>4. CASE known = {}
  <2> HIDE DEF known
  <2> QED
    BY <1>2, <1>4
<1> QED
  BY <1>3, <1>4

(* A peer diverges only at boundaries it has hashes of. *)
LEMMA DivergentInGame ==
  ASSUME NEW p, NEW s, InGame(s), NEW hashes,
         \A i \in DOMAIN hashes : hashes[i].frame \in FrameNumbers
  PROVE  Divergent(p, s, hashes) \in SUBSET Boundaries
<1>1. ASSUME NEW f \in Divergent(p, s, hashes)
      PROVE  f \in Boundaries
  <2>1. PICK h \in Lists!ToSet(hashes) : h.frame = f /\ HashAt(s, h.frame).error = "ok"
    BY DEF Divergent
  <2>2. f \in FrameNumbers
    BY <2>1 DEF Lists!ToSet
  <2>3. Contains(s.hashes, f)
    BY <2>1 DEF HashAt
  <2> QED
    BY <2>2, <2>3, HeldIsOfGame DEF InGame
<1> QED
  BY <1>1

(* Trackers stay the earliest when one peer diverges further. *)
LEMMA TrackedFurther ==
  ASSUME NEW l, Tracked(l), DOMAIN l.tracker = Players, NEW p \in Players,
         NEW frames \in SUBSET Boundaries, NEW u,
         u.divergent = l.divergent \union frames,
         u.tracker = [l.tracker EXCEPT ![p] = ObserveDesync(l.tracker[p], frames)]
  PROVE  Tracked(u)
<1> DEFINE before == l.tracker[p]
           r == ObserveDesync(before, frames)
<1>1. /\ l.divergent \subseteq Boundaries
      /\ before \in Boundaries \union {NoFrame}
      /\ before # NoFrame => before \in l.divergent
  BY DEF Tracked
<1>2. /\ u.tracker[p] = r
      /\ \A q \in Players : q # p => u.tracker[q] = l.tracker[q]
  OBVIOUS
<1> HIDE DEF r, before
<1>3. /\ r = NoFrame <=> before = NoFrame /\ frames = {}
      /\ r # NoFrame => r \in frames \union {before}
      /\ r # NoFrame => \A g \in frames \union {before} : g # NoFrame => r <= g
  BY <1>1, ObserveIsEarliest DEF r
<1>4. \A q \in Players : u.tracker[q] = NoFrame \/ u.tracker[q] \in u.divergent
  <2> TAKE q \in Players
  <2>1. CASE q = p
    <3>1. r = NoFrame \/ r \in l.divergent \union frames
      BY <1>1, <1>3
    <3> QED
      BY <1>2, <2>1, <3>1
  <2>2. CASE q # p
    BY <1>2, <2>2 DEF Tracked
  <2> QED
    BY <2>1, <2>2
<1>5. ASSUME NEW f \in u.divergent
      PROVE  \E q \in Players : u.tracker[q] # NoFrame /\ u.tracker[q] <= f
  <2>1. f \in Boundaries /\ f # NoFrame
    BY <1>1, BoundariesFit
  <2>2. CASE f \in frames
    <3>1. r # NoFrame /\ r <= f
      BY <1>3, <2>1, <2>2
    <3> QED
      BY <1>2, <3>1
  <2>3. CASE f \in l.divergent
    <3>1. PICK q \in Players : l.tracker[q] # NoFrame /\ l.tracker[q] <= f
      BY <2>3 DEF Tracked
    <3>2. CASE q # p
      BY <1>2, <3>1, <3>2
    <3>3. CASE q = p
      <4>1. before # NoFrame /\ before <= f
        BY <3>1, <3>3 DEF before
      <4>2. r # NoFrame /\ r <= before
        BY <1>3, <4>1
      <4>3. r \in Nat /\ before \in Nat /\ f \in Nat
        BY <1>1, <1>3, <2>1, <4>1, <4>2, BoundariesFit
      <4>4. r <= f
        BY <4>1, <4>2, <4>3
      <4> QED
        BY <1>2, <4>2, <4>4
    <3> QED
      BY <3>2, <3>3
  <2> QED
    BY <2>2, <2>3
<1>6. u.divergent \subseteq Boundaries
  BY <1>1
<1> QED
  BY <1>4, <1>5, <1>6 DEF Tracked

(* x is l but for the window and the session of p.                         *)
Replaces(x, l, p, s) ==
  /\ Whole(x) /\ x.peer = [l.peer EXCEPT ![p] = s]
  /\ x.tracker = l.tracker
  /\ x.divergent = l.divergent /\ x.corrected = l.corrected
  /\ x.history = l.history /\ x.direct = l.direct
  /\ x.transport = l.transport /\ x.tick = l.tick
  /\ x.finished = l.finished /\ x.failure = "ok"
  /\ x.report = l.report

(* A packet is delivered: refused, ignored, or its inputs are taken and    *)
(* corrections made before its hashes are compared.                        *)
LEMMA DeliveryGoes ==
  ASSUME NEW l, NEW m, Goes(l, m), l.failure = "ok", NEW datagram, Carries(datagram)
  PROVE  Goes(ProcessDelivery(l, datagram), m)
<1> DEFINE packet == Decoded(datagram)
           p == OtherPlayer(packet.sender)
           seen == Observe(l.window[p], packet.sequence)
           windowed == [l EXCEPT !.window[p] = seen.window]
           ingested == IngestAll(l.peer[p], packet.inputs)
           flushed == FlushCorrections(ingested.session)
           kept == [windowed EXCEPT !.peer[p] = flushed.session]
           partly == [windowed EXCEPT !.peer[p] = ingested.session]
           frames == Divergent(p, flushed.session, packet.hashes)
           corrected == Reported(l, p, ingested.session, flushed.session)
           done == [kept EXCEPT !.corrected = corrected,
                                !.tracker[p] = ObserveDesync(@, frames),
                                !.divergent = @ \union frames]
           u == ProcessDelivery(l, datagram)
<1>1. Whole(l) /\ Ready(l) /\ Reports(l, m)
  BY DEF Goes
<1>2. p \in Players
  BY DEF OtherPlayer, Players
<1>3. packet.inputs = datagram.inputs /\ packet.hashes = datagram.hashes
  BY DEF Decoded
<1>4. u = IF DecodeError(datagram) # "ok" THEN Fail(l, DecodeError(datagram))
          ELSE IF seen.disposition \notin Accepting THEN windowed
          ELSE IF ingested.error # "ok" THEN Fail(partly, ingested.error)
          ELSE IF flushed.error # "ok" THEN Fail(kept, flushed.error)
          ELSE done
  BY DEF ProcessDelivery
<1>5. ASSUME ingested.error = "ok", flushed.error = "ok"
      PROVE  /\ Clean(flushed.session) /\ frames \in SUBSET Boundaries
             /\ Rollbacks(ingested.session) = Rollbacks(l.peer[p])
             /\ Rollbacks(ingested.session) \in Nat
             /\ Rollbacks(flushed.session) \in Nat
             /\ Rollbacks(flushed.session) >= Rollbacks(l.peer[p])
  <2> DEFINE s == l.peer[p]
             inputs == packet.inputs
  <2>1. InGame(s)
    BY <1>1, <1>2 DEF Ready, Clean
  <2>2. /\ \E n \in Nat : DOMAIN inputs = 1 .. n
        /\ \A i \in DOMAIN inputs : inputs[i].frame \in FrameNumbers
        /\ \A i \in DOMAIN packet.hashes : packet.hashes[i].frame \in FrameNumbers
    BY <1>3 DEF Carries
  <2>3. ingested = IngestAll(s, inputs) /\ flushed = FlushCorrections(ingested.session)
    OBVIOUS
  <2>4. ingested.error = "ok" /\ flushed.error = "ok"
    BY <1>5
  <2> HIDE DEF s, inputs, ingested, flushed
  <2>5. InGame(ingested.session) /\ Rollbacks(ingested.session) = Rollbacks(s)
    BY <2>1, <2>2, <2>3, <2>4, IngestAllInGame
  <2> DEFINE i == ingested.session
  <2>6. /\ Clean(flushed.session)
        /\ \/ Rollbacks(flushed.session) = Rollbacks(i)
           \/ Rollbacks(flushed.session) = Rollbacks(i) + 1
    BY <2>3, <2>4, <2>5, FlushInGame
  <2>7. Rollbacks(i) \in Nat
    BY <2>5 DEF InGame, Rollbacks
  <2>8. frames \in SUBSET Boundaries
    BY <2>2, <2>6, DivergentInGame DEF Clean
  <2>9. Rollbacks(flushed.session) \in Nat /\ Rollbacks(flushed.session) >= Rollbacks(i)
    BY <2>6, <2>7
  <2> QED
    BY <2>5, <2>6, <2>7, <2>8, <2>9 DEF s
<1>6. corrected = [l.corrected EXCEPT ![p] = \/ l.corrected[p]
                                             \/ Rollbacks(flushed.session) > Rollbacks(ingested.session)]
  BY DEF Reported, Rollbacks
<1>7. /\ DOMAIN windowed = LiveFields /\ windowed.peer = l.peer
      /\ windowed.window = [l.window EXCEPT ![p] = seen.window]
      /\ windowed.tracker = l.tracker
      /\ windowed.divergent = l.divergent /\ windowed.corrected = l.corrected
      /\ windowed.history = l.history /\ windowed.direct = l.direct
      /\ windowed.transport = l.transport /\ windowed.tick = l.tick
      /\ windowed.finished = l.finished /\ windowed.failure = "ok"
      /\ windowed.report = l.report
  <2> HIDE DEF p, seen
  <2> QED
    BY <1>1 DEF Whole, LiveFields
<1> HIDE DEF windowed
<1>8. Whole(windowed) /\ Goes(windowed, m)
  <2>1. Whole(windowed) /\ Ready(windowed) /\ Reports(windowed, m)
    BY <1>1, <1>7 DEF Whole, Ready, Tracked, Reports
  <2> QED
    BY <1>7, <2>1 DEF Goes
<1>9. ASSUME NEW x, Whole(x), x.tick = l.tick, x.report = l.report, x.finished = l.finished,
             NEW e, e # "ok"
      PROVE  Goes(Fail(x, e), m)
  <2> DEFINE y == Fail(x, e)
  <2>1. /\ DOMAIN y = LiveFields /\ y.failure = e /\ y.tick = x.tick /\ y.report = x.report
        /\ y.finished = x.finished /\ y.peer = x.peer /\ y.window = x.window
        /\ y.tracker = x.tracker /\ y.corrected = x.corrected /\ y.history = x.history
    BY <1>9 DEF Fail, Whole, LiveFields
  <2> HIDE DEF y
  <2>2. Whole(y)
    BY <1>9, <2>1 DEF Whole
  <2>3. Goes(y, m)
    BY <1>9, <2>1, <2>2, FailedGoes
  <2> QED
    BY <2>3 DEF y
<1>10. ASSUME NEW s, NEW x, x = [windowed EXCEPT !.peer[p] = s]
       PROVE  Replaces(x, l, p, s)
  <2> HIDE DEF p
  <2>1. /\ DOMAIN x = LiveFields /\ x.peer = [l.peer EXCEPT ![p] = s]
        /\ x.tracker = l.tracker /\ x.window = windowed.window
        /\ x.divergent = l.divergent /\ x.corrected = l.corrected
        /\ x.history = l.history /\ x.direct = l.direct
        /\ x.transport = l.transport /\ x.tick = l.tick
        /\ x.finished = l.finished /\ x.failure = "ok"
        /\ x.report = l.report
    BY <1>7, <1>10 DEF LiveFields
  <2>2. Whole(x)
    BY <1>1, <1>7, <1>8, <2>1 DEF Whole
  <2> QED
    BY <2>1, <2>2 DEF Replaces
<1>11. CASE DecodeError(datagram) # "ok"
  <2>1. u = Fail(l, DecodeError(datagram))
    BY <1>4, <1>11
  <2> HIDE DEF u
  <2>2. Goes(u, m)
    BY <1>1, <1>9, <1>11, <2>1
  <2> QED
    BY <2>2 DEF u
<1>12. CASE DecodeError(datagram) = "ok" /\ seen.disposition \notin Accepting
  <2>1. u = windowed
    BY <1>4, <1>12
  <2> HIDE DEF u
  <2>2. Goes(u, m)
    BY <1>8, <2>1
  <2> QED
    BY <2>2 DEF u
<1>13. CASE /\ DecodeError(datagram) = "ok" /\ seen.disposition \in Accepting
            /\ ingested.error # "ok"
  <2>1. u = Fail(partly, ingested.error)
    BY <1>4, <1>13
  <2> HIDE DEF u, p, ingested
  <2>2. /\ Whole(partly) /\ partly.tick = l.tick /\ partly.report = l.report
        /\ partly.finished = l.finished
    BY <1>10 DEF Replaces
  <2> HIDE DEF partly
  <2>3. Goes(u, m)
    BY <1>9, <1>13, <2>1, <2>2
  <2> QED
    BY <2>3 DEF u
<1>14. CASE /\ DecodeError(datagram) = "ok" /\ seen.disposition \in Accepting
            /\ ingested.error = "ok" /\ flushed.error # "ok"
  <2>1. u = Fail(kept, flushed.error)
    BY <1>4, <1>14
  <2> HIDE DEF u, p, flushed
  <2>2. /\ Whole(kept) /\ kept.tick = l.tick /\ kept.report = l.report
        /\ kept.finished = l.finished
    BY <1>10 DEF Replaces
  <2> HIDE DEF kept
  <2>3. Goes(u, m)
    BY <1>9, <1>14, <2>1, <2>2
  <2> QED
    BY <2>3 DEF u
<1>15. CASE /\ DecodeError(datagram) = "ok" /\ seen.disposition \in Accepting
            /\ ingested.error = "ok" /\ flushed.error = "ok"
  <2>1. u = done
    BY <1>4, <1>15
  <2>2. /\ Clean(flushed.session) /\ frames \in SUBSET Boundaries
        /\ Rollbacks(ingested.session) = Rollbacks(l.peer[p])
        /\ Rollbacks(ingested.session) \in Nat
        /\ Rollbacks(flushed.session) \in Nat
        /\ Rollbacks(flushed.session) >= Rollbacks(l.peer[p])
    BY <1>5, <1>15
  <2> DEFINE s == flushed.session
             i == ingested.session
             tracker == [l.tracker EXCEPT ![p] = ObserveDesync(l.tracker[p], frames)]
  <2> HIDE DEF p, flushed, ingested, frames, corrected
  <2>3. /\ Whole(kept) /\ kept.peer = [l.peer EXCEPT ![p] = s]
        /\ kept.tracker = l.tracker
        /\ kept.divergent = l.divergent
        /\ kept.history = l.history /\ kept.direct = l.direct
        /\ kept.transport = l.transport /\ kept.tick = l.tick
        /\ kept.finished = l.finished /\ kept.failure = "ok"
        /\ kept.report = l.report
    <3>1. kept = [windowed EXCEPT !.peer[p] = s]
      OBVIOUS
    <3> HIDE DEF kept, s
    <3>2. Replaces(kept, l, p, s)
      BY <1>10, <3>1
    <3> QED
      BY <3>2 DEF Replaces
  <2> HIDE DEF kept, s, i
  <2>4. done = [kept EXCEPT !.corrected = corrected, !.tracker = tracker,
                            !.divergent = l.divergent \union frames]
    <3> DEFINE seenBy == ObserveDesync(kept.tracker[p], frames)
               further == kept.divergent \union frames
    <3>1. /\ DOMAIN kept = LiveFields /\ kept.tracker = l.tracker
          /\ kept.divergent = l.divergent
      BY <2>3 DEF Whole
    <3>2. done = [kept EXCEPT !.corrected = corrected, !.tracker[p] = seenBy,
                              !.divergent = further]
      BY <3>1 DEF LiveFields
    <3>3. tracker = [kept.tracker EXCEPT ![p] = seenBy]
      BY <3>1
    <3>4. further = l.divergent \union frames
      BY <3>1
    <3> HIDE DEF seenBy, further, done, tracker
    <3> QED
      BY <3>1, <3>2, <3>3, <3>4 DEF LiveFields
  <2> HIDE DEF done, tracker
  <2>5. /\ DOMAIN done = LiveFields /\ done.peer = kept.peer /\ done.window = kept.window
        /\ done.tracker = tracker /\ done.divergent = l.divergent \union frames
        /\ done.corrected = corrected
        /\ done.history = l.history /\ done.direct = l.direct
        /\ done.transport = l.transport /\ done.tick = l.tick
        /\ done.finished = l.finished /\ done.failure = "ok"
        /\ done.report = l.report
    BY <2>3, <2>4 DEF Whole, LiveFields
  <2>6. DOMAIN corrected = Players /\ DOMAIN tracker = Players
    BY <1>1, <1>6 DEF Whole, tracker
  <2>7. Whole(done)
    BY <1>1, <2>3, <2>5, <2>6 DEF Whole
  <2>8. Tracked(done)
    <3>1. Tracked(l) /\ DOMAIN l.tracker = Players
      BY <1>1 DEF Whole, Ready
    <3>2. done.tracker = [l.tracker EXCEPT ![p] = ObserveDesync(l.tracker[p], frames)]
      BY <2>5 DEF tracker
    <3>3. done.divergent = l.divergent \union frames
      BY <2>5
    <3> QED
      BY <1>2, <2>2, <3>1, <3>2, <3>3, TrackedFurther
  <2>9. \A q \in Players : done.peer[q] = IF q = p THEN s ELSE l.peer[q]
    BY <1>1, <2>3, <2>5 DEF Whole
  <2>10. Ready(done)
    BY <1>1, <2>2, <2>5, <2>8, <2>9 DEF Ready, s
  <2>11. Reports(done, m)
    <3>1. ASSUME NEW q \in Players
          PROVE  /\ Rollbacks(m.peer[q]) <= Rollbacks(done.peer[q])
                 /\ done.corrected[q] <=> Rollbacks(done.peer[q]) > Rollbacks(m.peer[q])
      <4>1. CASE q # p
        <5>1. done.peer[q] = l.peer[q] /\ done.corrected[q] = l.corrected[q]
          BY <1>1, <1>6, <2>5, <2>9, <4>1 DEF Whole
        <5> QED
          BY <1>1, <5>1 DEF Reports
      <4>2. CASE q = p
        <5> DEFINE x == Rollbacks(m.peer[p])
                   y == Rollbacks(l.peer[p])
                   z == Rollbacks(s)
        <5>1. x \in Nat /\ x <= y /\ (l.corrected[p] <=> y > x)
          BY <1>1, <1>2 DEF Reports
        <5>2. y \in Nat /\ z \in Nat /\ z >= y
          BY <2>2 DEF s
        <5>3. done.corrected[p] <=> l.corrected[p] \/ z > y
          BY <1>1, <1>2, <1>6, <2>2, <2>5 DEF Whole, s
        <5>4. Rollbacks(done.peer[p]) = z
          BY <1>2, <2>9
        <5> HIDE DEF x, y, z
        <5>5. x <= z /\ (z > x <=> y > x \/ z > y)
          BY <5>1, <5>2
        <5>6. done.corrected[p] <=> z > x
          BY <5>1, <5>3, <5>5
        <5> QED
          BY <4>2, <5>4, <5>5, <5>6 DEF x
      <4> QED
        BY <4>1, <4>2
    <3>2. \A q \in Players : Rollbacks(m.peer[q]) \in Nat
      BY <1>1 DEF Reports
    <3> QED
      BY <3>1, <3>2 DEF Reports
  <2>12. Goes(done, m)
    BY <2>5, <2>7, <2>10, <2>11 DEF Goes
  <2> HIDE DEF u
  <2>13. Goes(u, m)
    BY <2>1, <2>12
  <2> QED
    BY <2>13 DEF u
<1> QED
  BY <1>11, <1>12, <1>13, <1>14, <1>15

(* A tick's deliveries are made one after the other, until one fails.      *)
LEMMA DeliveriesGo ==
  ASSUME NEW l, NEW m, Goes(l, m)
  PROVE  Goes(Delivered(l), m)
<1>1. CASE l.failure # "ok"
  BY <1>1 DEF Delivered
<1>2. CASE l.failure = "ok"
  <2> DEFINE t == Deliver(l.transport, l.tick)
             base == [l EXCEPT !.transport = t]
             deliveries == Deliverable(l.transport, l.tick)
             u == Delivered(l)
  <2>1. Whole(l) /\ Ready(l) /\ Reports(l, m) /\ InOrder(l.transport)
    BY <1>2 DEF Goes, Ready
  <2>2. u = Folded(FALSE, base, deliveries)
    BY <1>2, LoopsAreFolds DEF Delivered
  <2>3. PICK n \in Nat : /\ DOMAIN deliveries = 1 .. n
                         /\ \A i \in 1 .. n : Carries(deliveries[i].packet)
    BY <2>1, DeliverableFacts
  <2>4. InOrder(t)
    BY <2>1, DeliverInOrder
  <2> HIDE DEF t, deliveries, u
  <2>5. Goes(base, m)
    <3>1. /\ DOMAIN base = LiveFields /\ base.tick = l.tick /\ base.report = l.report
          /\ base.finished = l.finished /\ base.peer = l.peer /\ base.window = l.window
          /\ base.tracker = l.tracker /\ base.divergent = l.divergent
          /\ base.corrected = l.corrected /\ base.history = l.history
          /\ base.transport = t /\ base.direct = l.direct /\ base.failure = "ok"
      BY <1>2, <2>1 DEF Whole, LiveFields
    <3> HIDE DEF base
    <3>2. Whole(base) /\ Ready(base) /\ Reports(base, m)
      BY <2>1, <2>4, <3>1 DEF Whole, Ready, Tracked, Reports
    <3> QED
      BY <1>2, <3>1, <3>2 DEF Goes
  <2> HIDE DEF base
  <2>6. PICK v : Runs(v, n, FALSE, base, deliveries)
    BY <2>3, FoldRuns
  <2>7. /\ v[0] = base
        /\ \A k \in 1 .. n : v[k] = DeliverNext(v[k - 1], deliveries[k])
        /\ u = v[n]
    BY <2>2, <2>6 DEF Runs, Turn
  <2>8. \A x, delivery : Goes(x, m) /\ Carries(delivery.packet) => Goes(DeliverNext(x, delivery), m)
    <3> SUFFICES ASSUME NEW x, NEW delivery, Goes(x, m), Carries(delivery.packet)
                 PROVE  Goes(DeliverNext(x, delivery), m)
      OBVIOUS
    <3>1. CASE x.failure # "ok"
      BY <3>1 DEF DeliverNext
    <3>2. CASE x.failure = "ok"
      BY <3>2, DeliveryGoes DEF DeliverNext
    <3> QED
      BY <3>1, <3>2
  <2> DEFINE bad == {k \in 0 .. n : ~ Goes(v[k], m)}
  <2>9. bad = {}
    <3> SUFFICES ASSUME bad # {}
                 PROVE  FALSE
      OBVIOUS
    <3>1. PICK k \in bad : \A i \in bad : k <= i
      <4>1. bad \in SUBSET Nat
        OBVIOUS
      <4> HIDE DEF bad
      <4> QED
        BY <4>1, LeastElement
    <3>2. k \in 0 .. n /\ ~ Goes(v[k], m) /\ k # 0
      BY <2>5, <2>7
    <3>3. k \in 1 .. n /\ k - 1 \in 0 .. n /\ k - 1 < k
      BY <3>2
    <3>4. Goes(v[k - 1], m)
      BY <3>1, <3>3
    <3> QED
      BY <2>3, <2>7, <2>8, <3>2, <3>3, <3>4
  <2>10. Goes(v[n], m)
    BY <2>9
  <2>11. Goes(u, m)
    BY <2>7, <2>10
  <2> QED
    BY <2>11 DEF u
<1> QED
  BY <1>1, <1>2

-----------------------------------------------------------------------------
(* The end of a tick *)

(* SuccessIsGenuine and DiagnosticIsEarliest of a scenario. *)
GenuineIn(l) ==
  l.report.success =>
    \A p \in Players :
      /\ l.peer[p].world = l.direct
      /\ p \in faulty => ~ Hits(l.peer[p].world)

EarliestIn(l) ==
  l.finished /\ l.divergent # {} =>
    /\ l.report.diagnostic \in l.divergent
    /\ \A frame \in l.divergent : ~ FrameBefore(frame, l.report.diagnostic)

(* What holds between two steps. *)
Rests(l) ==
  /\ Whole(l)
  /\ Running(l) => /\ Ready(l)
                   /\ l.tick \in Nat
                   /\ l.direct.frame <= l.tick
                   /\ l.report = NoReport
  /\ GenuineIn(l)
  /\ EarliestIn(l)

(* The trackers' earliest divergence is the earliest of all. *)
LEMMA DiagnosticIs ==
  ASSUME NEW l, Tracked(l), l.divergent # {}
  PROVE  /\ Diagnostic(l) \in l.divergent
         /\ \A f \in l.divergent : ~ FrameBefore(f, Diagnostic(l))
<1> DEFINE d == Diagnostic(l)
           x == l.tracker["a"]
           y == l.tracker["b"]
<1>1. /\ l.divergent \subseteq Boundaries
      /\ x = NoFrame \/ x \in l.divergent
      /\ y = NoFrame \/ y \in l.divergent
      /\ \A f \in l.divergent : (x # NoFrame /\ x <= f) \/ (y # NoFrame /\ y <= f)
  BY DEF Tracked, Players
<1>2. d = IF x = NoFrame THEN y
          ELSE IF y = NoFrame \/ ~ FrameBefore(y, x) THEN x ELSE y
  BY DEF Diagnostic
<1> HIDE DEF d, x, y
<1>3. PICK g \in l.divergent : TRUE
  OBVIOUS
<1>4. x # NoFrame \/ y # NoFrame
  BY <1>1, <1>3
<1>5. d # NoFrame /\ (d = x \/ d = y)
  BY <1>2, <1>4
<1>6. d \in l.divergent
  BY <1>1, <1>5
<1>7. /\ x # NoFrame => x \in Boundaries /\ x \in Nat
      /\ y # NoFrame => y \in Boundaries /\ y \in Nat
      /\ d \in Boundaries /\ d \in Nat
  BY <1>1, <1>6, BoundariesFit
<1>8. /\ x # NoFrame => d <= x
      /\ y # NoFrame => d <= y
  <2>1. CASE x = NoFrame
    BY <1>2, <1>4, <1>7, <2>1
  <2>2. CASE x # NoFrame /\ y = NoFrame
    BY <1>2, <1>7, <2>2
  <2>3. CASE x # NoFrame /\ y # NoFrame
    <3>1. FrameBefore(y, x) <=> y < x
      BY <1>7, <2>3, BoundariesFit
    <3> QED
      BY <1>2, <1>7, <2>3, <3>1
  <2> QED
    BY <2>1, <2>2, <2>3
<1>9. ASSUME NEW f \in l.divergent
      PROVE  ~ FrameBefore(f, d)
  <2>1. f \in Boundaries /\ f \in Nat
    BY <1>1, BoundariesFit
  <2>2. d <= f
    <3>1. CASE x # NoFrame /\ x <= f
      BY <1>7, <1>8, <2>1, <3>1
    <3>2. CASE y # NoFrame /\ y <= f
      BY <1>7, <1>8, <2>1, <3>2
    <3> QED
      BY <1>1, <3>1, <3>2
  <2>3. ~ f < d
    BY <1>7, <2>1, <2>2
  <2> QED
    BY <1>7, <2>1, <2>3, BoundariesFit
<1> QED
  BY <1>6, <1>9 DEF d

(* The report is written from sessions that have nothing left to correct.  *)
LEMMA FinalizeEnds ==
  ASSUME NEW l, Whole(l), Ready(l), l.failure = "ok", NEW u, u = Finalize(l)
  PROVE  /\ ~ Running(u) /\ Whole(u) /\ GenuineIn(u) /\ EarliestIn(u)
         /\ u.tick = l.tick /\ u.corrected = l.corrected
         /\ \A p \in Players : Rollbacks(u.peer[p]) = Rollbacks(l.peer[p])
<1> DEFINE flushed == [p \in Players |-> FlushCorrections(l.peer[p])]
           peer == [p \in Players |-> flushed[p].session]
           hash == [p \in Players |-> HashOf(p, peer[p].world)]
           confirmed == IF FrameBefore(peer["a"].confirmed, peer["b"].confirmed)
                        THEN peer["a"].confirmed ELSE peer["b"].confirmed
           diagnostic == Diagnostic(l)
           success == /\ confirmed = FrameCount
                      /\ hash["a"] = hash["b"]
                      /\ hash["a"] = CanonicalHash(l.direct)
                      /\ ReplayVerified(l)
                      /\ diagnostic = NoFrame
           report == [success |-> success, diagnostic |-> diagnostic]
           written == [l EXCEPT !.peer = peer, !.report = report]
           error == IF confirmed # FrameCount THEN "timeout" ELSE "replay_mismatch"
           refused == {p \in Players : flushed[p].error # "ok"}
<1>1. \A p \in Players : /\ flushed[p].error = "ok"
                         /\ Rollbacks(flushed[p].session) = Rollbacks(l.peer[p])
  <2> TAKE p \in Players
  <2> DEFINE s == l.peer[p]
             r == FlushCorrections(s)
  <2>1. Clean(s)
    BY DEF Ready
  <2>2. flushed[p] = r
    OBVIOUS
  <2> HIDE DEF flushed, s
  <2>3. r.error = "ok" /\ Rollbacks(r.session) = Rollbacks(s)
    <3> HIDE DEF r
    <3>1. r = FlushCorrections(s)
      BY DEF r
    <3> QED
      BY <2>1, <3>1, CleanFlush
  <2> QED
    BY <2>2, <2>3 DEF s
<1>2. refused = {}
  BY <1>1
<1>3. u = IF success \/ diagnostic # NoFrame THEN [written EXCEPT !.finished = TRUE]
          ELSE Fail(written, error)
  BY <1>2 DEF Finalize
<1>4. error # "ok"
  OBVIOUS
<1>5. /\ DOMAIN peer = Players
      /\ \A p \in Players : Rollbacks(peer[p]) = Rollbacks(l.peer[p])
  BY <1>1
<1>6. success => \A p \in Players : /\ peer[p].world = l.direct
                                    /\ p \in faulty => ~ Hits(peer[p].world)
  <2> HIDE DEF peer
  <2>1. success => \A p \in Players : HashOf(p, peer[p].world) = CanonicalHash(l.direct)
    BY DEF Players
  <2> HIDE DEF success
  <2>2. ASSUME NEW p, NEW world, HashOf(p, world) = CanonicalHash(l.direct)
        PROVE  world = l.direct /\ (p \in faulty => ~ Hits(world))
    BY <2>2 DEF HashOf, CanonicalHash
  <2> QED
    BY <2>1, <2>2
<1> HIDE DEF flushed, peer, success, error, refused
<1>7. report.success = success /\ report.diagnostic = diagnostic
  OBVIOUS
<1> HIDE DEF report, diagnostic
<1>8. /\ DOMAIN written = LiveFields /\ written.peer = peer /\ written.window = l.window
      /\ written.tracker = l.tracker /\ written.divergent = l.divergent
      /\ written.corrected = l.corrected /\ written.history = l.history
      /\ written.direct = l.direct /\ written.tick = l.tick /\ written.report = report
  BY DEF Whole, LiveFields
<1> HIDE DEF written
<1>9. /\ DOMAIN u = LiveFields /\ u.peer = peer /\ u.window = l.window
      /\ u.tracker = l.tracker /\ u.divergent = l.divergent
      /\ u.corrected = l.corrected /\ u.history = l.history
      /\ u.direct = l.direct /\ u.tick = l.tick /\ u.report = report
      /\ u.finished = TRUE \/ u.failure # "ok"
  <2>1. CASE success \/ diagnostic # NoFrame
    <3>1. u = [written EXCEPT !.finished = TRUE]
      BY <1>3, <2>1
    <3> QED
      BY <1>8, <3>1 DEF LiveFields
  <2>2. CASE ~ (success \/ diagnostic # NoFrame)
    <3>1. u = [written EXCEPT !.failure = error]
      BY <1>3, <2>2 DEF Fail
    <3> QED
      BY <1>4, <1>8, <3>1 DEF LiveFields
  <2> QED
    BY <2>1, <2>2
<1>10. Whole(u) /\ ~ Running(u)
  BY <1>5, <1>9 DEF Whole, Running
<1>11. GenuineIn(u)
  BY <1>6, <1>7, <1>9 DEF GenuineIn
<1>12. EarliestIn(u)
  BY <1>7, <1>9, DiagnosticIs DEF EarliestIn, Ready, diagnostic
<1> QED
  BY <1>5, <1>9, <1>10, <1>11, <1>12

(* A tick ends with a state that rests, and tells its corrections if it is *)
(* counted.                                                                *)
LEMMA TickedRests ==
  ASSUME NEW l, NEW m, Goes(l, m), Running(m), m.report = NoReport,
         NEW u, u = Ticked(l)
  PROVE  /\ Rests(u)
         /\ u.tick # m.tick => Reports(u, m)
<1>1. /\ Whole(l) /\ l.report = NoReport /\ NoReport.success = FALSE /\ l.finished = FALSE
      /\ l.tick = m.tick /\ m.tick \in Nat
  BY DEF Goes, Running, NoReport
<1>2. CASE l.failure # "ok"
  <2>1. u = l
    BY <1>2 DEF Ticked
  <2> QED
    BY <1>1, <1>2, <2>1 DEF Rests, Running, GenuineIn, EarliestIn
<1>3. CASE l.failure = "ok"
  <2> DEFINE tick == l.tick + 1
             next == [l EXCEPT !.tick = tick]
  <2>1. Ready(l) /\ Reports(l, m) /\ l.direct.frame <= m.tick + 1
    BY <1>3 DEF Goes
  <2>2. tick \in Nat /\ l.direct.frame <= tick
    <3>1. tick = m.tick + 1
      BY <1>1
    <3> QED
      BY <1>1, <2>1, <3>1
  <2> HIDE DEF tick
  <2>3. /\ DOMAIN next = LiveFields /\ next.tick = tick /\ next.report = l.report
        /\ next.finished = l.finished /\ next.peer = l.peer /\ next.window = l.window
        /\ next.tracker = l.tracker /\ next.divergent = l.divergent
        /\ next.corrected = l.corrected /\ next.history = l.history
        /\ next.transport = l.transport /\ next.direct = l.direct /\ next.failure = "ok"
    BY <1>1, <1>3 DEF Whole, LiveFields
  <2>4. u = IF next.tick = LastStep THEN Finalize(next) ELSE next
    BY <1>3 DEF Ticked, tick
  <2> HIDE DEF next
  <2>5. Whole(next) /\ Ready(next) /\ Reports(next, m)
    BY <1>1, <2>1, <2>3 DEF Whole, Ready, Tracked, Reports
  <2>6. CASE next.tick = LastStep
    <3>1. u = Finalize(next)
      BY <2>4, <2>6
    <3>2. /\ ~ Running(u) /\ Whole(u) /\ GenuineIn(u) /\ EarliestIn(u)
          /\ u.corrected = next.corrected
          /\ \A p \in Players : Rollbacks(u.peer[p]) = Rollbacks(next.peer[p])
      BY <2>3, <2>5, <3>1, FinalizeEnds
    <3>3. Reports(u, m)
      BY <2>5, <3>2 DEF Reports
    <3> QED
      BY <3>2, <3>3 DEF Rests
  <2>7. CASE next.tick # LastStep
    <3>1. u = next
      BY <2>4, <2>7
    <3>2. GenuineIn(next) /\ EarliestIn(next)
      BY <1>1, <2>3 DEF GenuineIn, EarliestIn
    <3> QED
      BY <1>1, <2>2, <2>3, <2>5, <3>1, <3>2 DEF Rests
  <2> QED
    BY <2>6, <2>7
<1> QED
  BY <1>2, <1>3

-----------------------------------------------------------------------------
(* The specification *)

LiveRests == Rests(live)

(* A new scenario rests. *)
LEMMA StartRests ==
  Init => LiveRests
<1> SUFFICES ASSUME Init
             PROVE  LiveRests
  OBVIOUS
<1>1. /\ DOMAIN live = LiveFields /\ live.peer = [p \in Players |-> NewSession(p)]
      /\ live.window = [p \in Players |-> NewWindow]
      /\ live.tracker = [p \in Players |-> NoFrame] /\ live.divergent = {}
      /\ live.corrected = [p \in Players |-> FALSE]
      /\ live.history = [p \in Players |-> <<>>] /\ live.direct = InitialWorld
      /\ live.transport = NewTransport /\ live.tick = 0 /\ live.finished = FALSE
      /\ live.report = NoReport
  BY DEF Init, NewLive, LiveFields
<1>2. Whole(live)
  BY <1>1 DEF Whole
<1>3. InOrder(NewTransport)
  <2> DEFINE t == NewTransport
  <2>1. DOMAIN t = TransportFields /\ t.queue = {} /\ t.ordinal = 0
    BY DEF NewTransport, TransportFields
  <2> HIDE DEF t
  <2>2. InOrder(t)
    BY <2>1, FS_EmptySet DEF InOrder, Numbered
  <2> QED
    BY <2>2 DEF t
<1>4. IsList(<<>>)
  <2>1. <<>> \in Seq({})
    OBVIOUS
  <2> QED
    BY <2>1 DEF IsList
<1>5. live.direct.frame = 0 /\ 0 \in Boundaries
  BY <1>1, LiveAssumption DEF InitialWorld, Boundaries
<1>6. \A p \in Players : Clean(live.peer[p]) /\ IsList(live.history[p])
  BY <1>1, <1>4, NewSessionInGame
<1>7. Tracked(live)
  BY <1>1 DEF Tracked
<1>8. Ready(live)
  BY <1>1, <1>3, <1>5, <1>6, <1>7 DEF Ready
<1>9. live.tick \in Nat /\ live.direct.frame <= live.tick
  BY <1>1, <1>5
<1>10. GenuineIn(live) /\ EarliestIn(live)
  BY <1>1 DEF GenuineIn, EarliestIn, NoReport
<1> QED
  BY <1>1, <1>2, <1>8, <1>9, <1>10 DEF LiveRests, Rests

(* A tick of a running scenario. *)
LEMMA StepRests ==
  ASSUME LiveRests, Step
  PROVE  /\ LiveRests'
         /\ live'.tick # live.tick => Reports(live', live)
         /\ Running(live) /\ faulty' = faulty
<1>1. Whole(live) /\ GenuineIn(live) /\ EarliestIn(live)
  BY DEF LiveRests, Rests
<1>2. Running(live) /\ faulty' = faulty
  BY DEF Step, PlayFrame, SendAgain, DrainOnly
<1>3. Ready(live) /\ live.tick \in Nat /\ live.direct.frame <= live.tick /\ live.report = NoReport
  BY <1>2 DEF LiveRests, Rests
<1>4. live.direct.frame <= live.tick + 1 /\ live.failure = "ok"
  <2> DEFINE at == live.direct.frame
             tick == live.tick
  <2>1. at \in Nat /\ tick \in Nat /\ at <= tick
    BY <1>3, BoundariesFit DEF Ready
  <2> HIDE DEF at, tick
  <2>2. at <= tick + 1
    BY <2>1
  <2> QED
    BY <1>2, <2>2 DEF at, tick, Running
<1>5. Goes(Begun(live), live)
  BY <1>1, <1>3, <1>4, BegunGoes
<1>6. \E l : Goes(l, live) /\ live' = Ticked(l)
  <2>1. ASSUME NEW buttons \in Buttons \ InvalidButtons, PlayFrame(buttons)
        PROVE  \E l : Goes(l, live) /\ live' = Ticked(l)
    <3> DEFINE pair == [p \in Players |-> IF p = "a" THEN buttons ELSE Script(p, live.tick)]
               Played(l) == IF l.failure # "ok" THEN l ELSE AdvanceBoth(l, pair)
               l == Begun(live)
               recorded == RecordFrame(l, pair)
    <3>1. /\ live.tick < FrameCount
          /\ \E sent \in SendBoth(recorded) : live' = Ticked(Played(Delivered(sent)))
      BY <2>1 DEF PlayFrame
    <3> HIDE DEF pair
    <3>2. l.failure = "ok" /\ l.direct.frame <= live.tick
      BY <1>1, <1>3, <1>4 DEF Begun, Whole, LiveFields
    <3> HIDE DEF l
    <3>3. Goes(recorded, live)
      BY <1>5, <3>1, <3>2, RecordGoes DEF l
    <3> HIDE DEF recorded
    <3>4. PICK sent \in SendBoth(recorded) : live' = Ticked(Played(Delivered(sent)))
      BY <3>1
    <3>5. Goes(sent, live)
      BY <3>3, SendBothGoes
    <3> DEFINE d == Delivered(sent)
    <3>6. Goes(d, live)
      BY <3>5, DeliveriesGo
    <3> HIDE DEF d
    <3>7. Goes(Played(d), live)
      <4>1. CASE d.failure # "ok"
        BY <3>6, <4>1
      <4>2. CASE d.failure = "ok"
        BY <3>6, <4>2, AdvanceBothGoes
      <4> QED
        BY <4>1, <4>2
    <3> QED
      BY <3>4, <3>7 DEF d
  <2>2. CASE SendAgain
    <3>1. PICK sent \in SendBoth(Begun(live)) : live' = Ticked(Delivered(sent))
      BY <2>2 DEF SendAgain
    <3>2. Goes(sent, live)
      BY <1>5, SendBothGoes
    <3> QED
      BY <3>1, <3>2, DeliveriesGo
  <2>3. CASE DrainOnly
    <3>1. live' = Ticked(Delivered(Begun(live)))
      BY <2>3 DEF DrainOnly
    <3> QED
      BY <1>5, <3>1, DeliveriesGo
  <2> QED
    BY <2>1, <2>2, <2>3 DEF Step
<1>7. PICK l : Goes(l, live) /\ live' = Ticked(l)
  BY <1>6
<1> DEFINE u == live'
<1>8. u = Ticked(l)
  BY <1>7
<1> HIDE DEF u
<1>9. Rests(u) /\ (u.tick # live.tick => Reports(u, live))
  BY <1>2, <1>3, <1>7, <1>8, TickedRests
<1>10. Rests(u) => LiveRests'
  BY <1>2 DEF u, LiveRests, Rests, GenuineIn, EarliestIn
<1> QED
  BY <1>2, <1>9, <1>10 DEF u

(* Between two steps a scenario rests. *)
LEMMA AlwaysRests ==
  Spec => []LiveRests
<1>1. LiveRests /\ [Next]_vars => LiveRests'
  <2> SUFFICES ASSUME LiveRests, [Next]_vars
               PROVE  LiveRests'
    OBVIOUS
  <2>1. CASE Step
    BY <2>1, StepRests
  <2>2. CASE UNCHANGED vars
    BY <2>2 DEF vars, LiveRests, Rests, GenuineIn, EarliestIn
  <2> QED
    BY <2>1, <2>2 DEF Next, RefuseButtons, RepeatResult
<1> QED
  BY <1>1, StartRests, PTL DEF Spec

(* A successful report means that both peers have simulated every frame as *)
(* recorded, and by the rules (finalize).                                  *)
THEOREM SuccessIsGenuineAlways ==
  Spec => []SuccessIsGenuine
<1>1. LiveRests => SuccessIsGenuine
  BY DEF LiveRests, Rests, GenuineIn, SuccessIsGenuine
<1> QED
  BY <1>1, AlwaysRests, PTL

(* The diagnostic of the artifacts is the earliest divergence that either  *)
(* tracker was shown, in whatever order (DesyncTracker::observe, finalize).*)
THEOREM DiagnosticIsEarliestAlways ==
  Spec => []DiagnosticIsEarliest
<1>1. LiveRests => DiagnosticIsEarliest
  BY DEF LiveRests, Rests, EarliestIn, DiagnosticIsEarliest
<1> QED
  BY <1>1, AlwaysRests, PTL

(* A step shows a correction of a peer exactly if the peer rolled back in  *)
(* it (process_delivery, advance, finalize).                               *)
THEOREM RollbacksAreReportedAlways ==
  Spec => RollbacksAreReported
<1> DEFINE Told == live'.tick # live.tick =>
                     \A p \in Players :
                       live'.corrected[p] <=>
                         live'.peer[p].metrics.rollbacks > live.peer[p].metrics.rollbacks
<1>1. LiveRests /\ [Next]_vars => [Told]_vars
  <2> SUFFICES ASSUME LiveRests, [Next]_vars
               PROVE  [Told]_vars
    OBVIOUS
  <2>1. CASE Step
    <3>1. live'.tick # live.tick => Reports(live', live)
      BY <2>1, StepRests
    <3> QED
      BY <3>1 DEF Reports, Rollbacks
  <2>2. CASE UNCHANGED vars
    BY <2>2
  <2> QED
    BY <2>1, <2>2 DEF Next, RefuseButtons, RepeatResult
<1>2. Spec => [][Told]_vars
  BY <1>1, AlwaysRests, PTL DEF Spec
<1> QED
  BY <1>2 DEF RollbacksAreReported

-----------------------------------------------------------------------------
(* A session that plays the game of the canonical peer *)

(* In this game positions are frame numbers. *)
LEMMA PositionIsFrame ==
  ASSUME NEW f \in FrameNumbers
  PROVE  Position(f) = f
BY LiveAssumption, SessionAssumption, DistanceValue DEF Position, FrameNumbers

(* A player's opponent's opponent is the player. *)
LEMMA OpponentFacts ==
  /\ Players = {"a", "b"}
  /\ \A p \in Players : /\ OtherPlayer(p) \in Players /\ OtherPlayer(p) # p
                        /\ OtherPlayer(OtherPlayer(p)) = p
                        /\ \A q \in Players : q = p \/ q = OtherPlayer(p)
BY DEF Players, OtherPlayer

(* A game: the inputs of the frames that have been played, and no others. *)
IsGame(g) ==
  /\ g \in Worlds
  /\ g.frame \in Boundaries
  /\ \A f \in FrameNumbers : IF f < g.frame THEN g.inputs[f] \in Pairs
                                            ELSE g.inputs[f] = NoPair

(* What a ring holds are inputs of a player in the game. *)
Echoes(ring, q, g) ==
  \A f \in FrameNumbers :
    Contains(ring, f) => f < g.frame /\ Get(ring, f) = g.inputs[f][q]

(* Confirmed frames are those of the game. *)
Settled(s, g) ==
  \A f \in FrameNumbers : f < s.confirmed => s.world.inputs[f] = g.inputs[f]

(* A session of a player of the game. *)
Plays(p, s, g) ==
  /\ Sound(s)
  /\ s.peer = p
  /\ s.world.frame <= g.frame
  /\ Echoes(s.local, p, g)
  /\ Echoes(s.remote, OtherPlayer(p), g)
  /\ Settled(s, g)

(* The numbers of a sound session, which may be as far as a boundary b. *)
LEMMA PlayFacts ==
  ASSUME NEW s, Sound(s), NEW b \in Boundaries, s.world.frame <= b
  PROVE  /\ s \in Sessions /\ s.world \in Worlds
         /\ s.world.frame \in FrameNumbers /\ s.confirmed \in FrameNumbers
         /\ s.world.frame \in Boundaries /\ s.confirmed \in Boundaries
         /\ s.world.frame \in Nat /\ s.confirmed \in Nat /\ b \in Nat
         /\ Elapsed(s) = s.world.frame /\ Position(s.confirmed) = s.confirmed
         /\ s.confirmed <= s.world.frame
         /\ FrameCount \in Nat /\ 2 * FrameCount < Modulus
<1>1. s \in Sessions /\ s.world \in Worlds
  BY DEF Sound, Sessions
<1>2. s.world.frame \in FrameNumbers /\ s.confirmed \in FrameNumbers
  BY <1>1 DEF Sessions, Worlds
<1>3. Elapsed(s) = s.world.frame /\ Position(s.confirmed) = s.confirmed
  BY <1>2, PositionIsFrame DEF Elapsed
<1>4. s.confirmed <= s.world.frame
  BY <1>3 DEF Sound, ConfirmedFits
<1> DEFINE at == s.world.frame
           c == s.confirmed
<1>5. /\ FrameCount \in Nat /\ 2 * FrameCount < Modulus
      /\ b \in Nat /\ b <= FrameCount /\ at \in Nat /\ c \in Nat
  BY <1>2, LiveAssumption, ModulusAssumption DEF FrameNumbers, Boundaries
<1>6. at <= b /\ c <= at
  BY <1>4
<1> HIDE DEF at, c
<1>7. at \in 0 .. FrameCount /\ c \in 0 .. FrameCount
  BY <1>5, <1>6
<1> QED
  BY <1>1, <1>2, <1>3, <1>4, <1>5, <1>7 DEF at, c, Boundaries

(* Among the last Capacity frames there is one of each slot. *)
LEMMA SlotIsUsedAgain ==
  ASSUME NEW f \in FrameNumbers, NEW n \in FrameNumbers, f < n
  PROVE  \E h \in FrameNumbers : /\ RingIndex(h) = RingIndex(f)
                                 /\ f <= h /\ h < n /\ n - h <= Capacity
<1> DEFINE In(k) == k >= 1 /\ n - k >= f /\ RingIndex(n - k) = RingIndex(f)
           ago == {k \in Nat : In(k)}
<1>1. f \in Nat /\ n \in Nat /\ n < Modulus /\ Modulus \in Nat /\ Capacity \in Nat \ {0}
  BY CapacityAssumption, ModulusAssumption DEF FrameNumbers
<1>2. n - f \in ago
  <2>1. n - f \in Nat /\ n - f >= 1 /\ n - (n - f) = f
    BY <1>1
  <2> QED
    BY <1>1, <2>1
<1>3. PICK k \in ago : \A i \in ago : k <= i
  <2>1. ago \in SUBSET Nat
    OBVIOUS
  <2> HIDE DEF ago
  <2> QED
    BY <1>2, <2>1, LeastElement
<1>4. k \in Nat /\ In(k)
  OBVIOUS
<1>5. n - k \in FrameNumbers /\ n - k < n
  BY <1>1, <1>4 DEF FrameNumbers
<1>6. k <= Capacity
  <2> SUFFICES ASSUME k > Capacity
               PROVE  FALSE
    BY <1>1, <1>4
  <2> DEFINE j == k - Capacity
  <2>1. Capacity \in FrameNumbers /\ n - k + Capacity < Modulus
    BY <1>1, <1>4, CapacityAssumption DEF FrameNumbers
  <2>2. FrameOffset(n - k, Capacity) = n - k + Capacity
    BY <1>5, <2>1, OffsetValue
  <2>3. n - k + Capacity = n - j /\ j \in Nat /\ j >= 1 /\ n - j >= f /\ j < k
    BY <1>1, <1>4
  <2>4. RingIndex(n - j) = RingIndex(f)
    BY <1>4, <1>5, <2>2, <2>3, SlotComesRound
  <2>5. j \in ago
    BY <2>3, <2>4
  <2> HIDE DEF j, ago
  <2> QED
    BY <1>1, <1>3, <1>4, <2>3, <2>5
<1> QED
  BY <1>1, <1>4, <1>5, <1>6

(* A local input that is still there is of the last Capacity frames. *)
LEMMA StillThere ==
  ASSUME NEW t, Sound(t), NEW f \in FrameNumbers, Contains(t.local, f),
         t.world.frame \in FrameNumbers, Elapsed(t) = t.world.frame
  PROVE  f < t.world.frame /\ t.world.frame - f <= Capacity
<1> DEFINE n == t.world.frame
<1>1. f < n
  BY PositionIsFrame DEF Sound, NothingAhead
<1> HIDE DEF n
<1>2. n \in FrameNumbers
  BY DEF n
<1>3. PICK h \in FrameNumbers : /\ RingIndex(h) = RingIndex(f)
                                /\ f <= h /\ h < n /\ n - h <= Capacity
  BY <1>1, <1>2, SlotIsUsedAgain
<1>4. Contains(t.local, h)
  <2>1. Position(h) < Elapsed(t) /\ Elapsed(t) - Position(h) <= Capacity
    BY <1>3, PositionIsFrame DEF n
  <2> QED
    BY <2>1 DEF Sound, HistoryFits
<1>5. h = f
  BY <1>3, <1>4 DEF Contains
<1> QED
  BY <1>1, <1>3, <1>5 DEF n

(* A session that keeps to the game and rewrites no settled frame stays    *)
(* settled: what it confirms it has simulated with both inputs.            *)
LEMMA SettledFurther ==
  ASSUME NEW g, IsGame(g), NEW p \in Players, NEW s, Plays(p, s, g),
         NEW t, Sound(t), t.peer = p, t.world.frame <= g.frame,
         Echoes(t.local, p, g), Echoes(t.remote, OtherPlayer(p), g),
         \A f \in FrameNumbers : f < s.confirmed => t.world.inputs[f] = s.world.inputs[f],
         Confirms(s, t)
  PROVE  Plays(p, t, g)
<1>1. g.frame \in Boundaries
  BY DEF IsGame
<1>2. /\ s.confirmed \in Nat /\ t.confirmed \in Nat /\ t.world.frame \in Nat
      /\ t.world.frame \in FrameNumbers /\ Elapsed(t) = t.world.frame
      /\ Position(s.confirmed) = s.confirmed /\ Position(t.confirmed) = t.confirmed
      /\ t \in Sessions
  BY <1>1, PlayFacts DEF Plays
<1>3. ASSUME NEW f \in FrameNumbers, f < t.confirmed, ~ f < s.confirmed
      PROVE  t.world.inputs[f] = g.inputs[f]
  <2>1. Position(f) = f /\ f \in Nat
    BY PositionIsFrame, ModulusAssumption DEF FrameNumbers
  <2>2. Contains(t.local, f) /\ Contains(t.remote, f)
    BY <1>2, <1>3, <2>1 DEF Confirms
  <2>3. f < t.world.frame /\ t.world.frame - f <= Capacity
    BY <1>2, <2>2, StillThere
  <2>4. /\ Contains(t.used, f)
        /\ t.world.inputs[f] = MakePair(t, Get(t.local, f), Get(t.used, f))
    BY <1>2, <2>1, <2>3 DEF Sound, HistoryFits
  <2>5. Get(t.used, f) = Get(t.remote, f)
    <3> SUFFICES ASSUME Get(t.used, f) # Get(t.remote, f)
                 PROVE  FALSE
      OBVIOUS
    <3>1. t.dirty # NoFrame /\ Position(t.dirty) <= f
      BY <2>1, <2>2, <2>4 DEF Sound, MistakesPending
    <3>2. t.confirmed <= Position(t.dirty)
      BY <1>2, <3>1 DEF Sound, DirtyFits
    <3>3. Position(t.dirty) \in Nat
      BY <1>2, <3>1, PositionFacts DEF Sessions
    <3> QED
      BY <1>2, <1>3, <2>1, <3>1, <3>2, <3>3
  <2>6. /\ f < g.frame
        /\ Get(t.local, f) = g.inputs[f][p]
        /\ Get(t.remote, f) = g.inputs[f][OtherPlayer(p)]
    BY <2>2 DEF Echoes
  <2>7. g.inputs[f] \in Pairs
    BY <2>6 DEF IsGame
  <2>8. MakePair(t, g.inputs[f][p], g.inputs[f][OtherPlayer(p)]) = g.inputs[f]
    <3> DEFINE pair == g.inputs[f]
    <3>1. pair = [q \in Players |-> pair[q]]
      BY <2>7 DEF Pairs
    <3> HIDE DEF pair
    <3>2. [q \in Players |-> pair[q]]
            = [q \in Players |-> IF q = p THEN pair[p] ELSE pair[OtherPlayer(p)]]
      BY OpponentFacts
    <3> QED
      BY <3>1, <3>2 DEF MakePair, pair
  <2> QED
    BY <2>4, <2>5, <2>6, <2>8
<1>4. Settled(t, g)
  <2>1. ASSUME NEW f \in FrameNumbers, f < t.confirmed
        PROVE  t.world.inputs[f] = g.inputs[f]
    <3>1. CASE f < s.confirmed
      BY <3>1 DEF Plays, Settled
    <3>2. CASE ~ f < s.confirmed
      BY <1>3, <2>1, <3>2
    <3> QED
      BY <3>1, <3>2
  <2> QED
    BY <2>1 DEF Settled
<1> QED
  BY <1>4 DEF Plays

(* The rings reach as far back as late inputs are let in. *)
RingsReach == MaxRollback <= Capacity \/ FrameCount <= Capacity

(* One input more of the game is in the ring, another may not be any more. *)
LEMMA EchoesPut ==
  ASSUME NEW ring \in RingOf(Buttons), NEW q, NEW g, Echoes(ring, q, g),
         NEW f \in FrameNumbers, f < g.frame, g.inputs[f][q] \in Buttons
  PROVE  Echoes(Put(ring, f, g.inputs[f][q]), q, g)
<1> DEFINE v == g.inputs[f][q]
           new == Put(ring, f, v)
<1>1. /\ Get(new, f) = v
      /\ \A h \in FrameNumbers \ {f} :
           Contains(new, h) => Contains(ring, h) /\ Get(new, h) = Get(ring, h)
  <2> HIDE DEF v
  <2> QED
    BY PutFacts DEF v
<1> HIDE DEF new
<1>2. Echoes(new, q, g)
  BY <1>1 DEF Echoes
<1> QED
  BY <1>2 DEF new

(* An input of the opponent's that is in the game is taken, or is too old. *)
LEMMA PlaysIngest ==
  ASSUME RingsReach, NEW g, IsGame(g), NEW p \in Players, NEW s, Plays(p, s, g),
         NEW frame \in FrameNumbers, frame < g.frame,
         NEW r, r = IngestRemote(s, OtherPlayer(p), frame, g.inputs[frame][OtherPlayer(p)])
  PROVE  /\ Plays(p, r.session, g) /\ r.session.world = s.world
         /\ r.error \in {"ok", "rollback_window_exceeded"}
         /\ s.world.frame <= frame + MaxRollback => r.error = "ok"
<1> DEFINE o == OtherPlayer(p)
           b == g.inputs[frame][o]
           t == r.session
<1>1. o \in Players /\ g.frame \in Boundaries /\ g.inputs[frame] \in Pairs
  BY OpponentFacts DEF IsGame
<1>2. b \in Buttons
  BY <1>1 DEF Pairs
<1> HIDE DEF o, b
<1>3. /\ s.peer = p /\ Sound(s) /\ s.world.frame <= g.frame
      /\ Echoes(s.local, p, g) /\ Echoes(s.remote, o, g)
  BY DEF Plays, o
<1>4. /\ s \in Sessions /\ Elapsed(s) = s.world.frame /\ s.world.frame \in FrameNumbers
      /\ s.world.frame \in Nat /\ s.world.frame \in Boundaries /\ g.frame \in Nat
      /\ Position(s.confirmed) = s.confirmed /\ FrameCount \in Nat /\ 2 * FrameCount < Modulus
  BY <1>1, <1>3, PlayFacts
<1>5. /\ Position(frame) = frame /\ frame \in Nat /\ g.frame <= FrameCount
      /\ frame < FrameCount /\ frame \in Boundaries /\ 2 * Position(frame) < Modulus
  <2>1. Position(frame) = frame /\ frame \in Nat
    BY PositionIsFrame, ModulusAssumption DEF FrameNumbers
  <2>2. g.frame <= FrameCount
    BY <1>1, <1>4 DEF Boundaries
  <2>3. frame < FrameCount
    BY <1>4, <2>1, <2>2
  <2>4. 2 * frame < Modulus /\ frame \in 0 .. FrameCount
    <3>1. Modulus \in Nat
      BY ModulusAssumption
    <3> QED
      BY <1>4, <2>1, <2>3, <3>1
  <2> QED
    BY <2>1, <2>2, <2>3, <2>4 DEF Boundaries
<1>6. InReach(s)
  <2>1. Elapsed(s) <= FrameCount
    BY <1>4 DEF Boundaries
  <2> QED
    BY <1>4, <2>1, CapacityAssumption DEF InReach, RingsReach
<1>7. r = IngestRemote(s, o, frame, b)
  BY DEF o, b
<1>8. /\ Sound(t) /\ t.peer = s.peer /\ t.world = s.world /\ t.local = s.local
      /\ t = s \/ t.remote = Put(s.remote, frame, b)
      /\ Confirms(s, t)
  BY <1>2, <1>3, <1>5, <1>6, <1>7, IngestSound
<1>9. Echoes(t.remote, o, g)
  <2>1. s.remote \in RingOf(Buttons)
    BY <1>4 DEF Sessions
  <2>2. Echoes(Put(s.remote, frame, b), o, g)
    BY <1>2, <1>3, <2>1, EchoesPut DEF b
  <2> QED
    BY <1>3, <1>8, <2>2
<1>10. Plays(p, t, g)
  <2>1. t.peer = p /\ t.world.frame <= g.frame /\ Echoes(t.local, p, g)
    BY <1>3, <1>8
  <2>2. \A f \in FrameNumbers : f < s.confirmed => t.world.inputs[f] = s.world.inputs[f]
    BY <1>8
  <2> HIDE DEF t
  <2> QED
    BY <1>8, <1>9, <2>1, <2>2, SettledFurther DEF o
<1>11. o = RemotePeer(s)
  BY <1>3 DEF RemotePeer, o
<1>12. r.error = IF /\ FrameBefore(frame, s.world.frame)
                    /\ FrameDistance(frame, s.world.frame) > MaxRollback
                 THEN "rollback_window_exceeded" ELSE "ok"
  BY <1>7, <1>11 DEF IngestRemote, Result
<1>13. s.world.frame <= frame + MaxRollback => r.error = "ok"
  <2> SUFFICES ASSUME s.world.frame <= frame + MaxRollback,
                      FrameBefore(frame, s.world.frame)
               PROVE  ~ FrameDistance(frame, s.world.frame) > MaxRollback
    BY <1>12
  <2>1. frame < s.world.frame
    BY <1>4, <1>5, BoundariesFit
  <2>2. FrameDistance(frame, s.world.frame) = s.world.frame - frame
    BY <1>4, <1>5, <2>1, BoundariesFit
  <2> QED
    BY <1>4, <1>5, <2>2, SessionAssumption
<1> QED
  BY <1>8, <1>10, <1>12, <1>13

(* A correction succeeds and keeps the session in the game. *)
LEMMA PlaysFlush ==
  ASSUME SimulationIsTotal, NEW g, IsGame(g), NEW p \in Players, NEW s, Plays(p, s, g),
         NEW r, r = FlushCorrections(s)
  PROVE  /\ r.error = "ok" /\ Plays(p, r.session, g) /\ r.session.dirty = NoFrame
         /\ r.session.world.frame = s.world.frame
<1> DEFINE t == r.session
<1>1. /\ Sound(s) /\ s.peer = p /\ s.world.frame <= g.frame /\ g.frame \in Boundaries
      /\ Echoes(s.local, p, g) /\ Echoes(s.remote, OtherPlayer(p), g)
  BY DEF Plays, IsGame
<1>2. Position(s.confirmed) = s.confirmed
  BY <1>1, PlayFacts
<1>3. /\ r.error = "ok" /\ Sound(t) /\ t.dirty = NoFrame
      /\ t.world.frame = s.world.frame /\ t.peer = s.peer
      /\ t.remote = s.remote /\ t.local = s.local /\ Confirms(s, t)
      /\ \A f \in FrameNumbers :
           Position(f) < Position(s.confirmed) => t.world.inputs[f] = s.world.inputs[f]
  BY <1>1, FlushSound
<1>4. /\ t.peer = p /\ t.world.frame <= g.frame
      /\ Echoes(t.local, p, g) /\ Echoes(t.remote, OtherPlayer(p), g)
      /\ \A f \in FrameNumbers : f < s.confirmed => t.world.inputs[f] = s.world.inputs[f]
  BY <1>1, <1>2, <1>3, PositionIsFrame
<1> HIDE DEF t
<1>5. Plays(p, t, g)
  BY <1>3, <1>4, SettledFurther
<1> QED
  BY <1>3, <1>5 DEF t

(* The next frame of the game is played, if no correction is pending. *)
LEMMA PlaysAdvance ==
  ASSUME SimulationIsTotal, NEW g, IsGame(g), NEW p \in Players, NEW s, Plays(p, s, g),
         s.dirty = NoFrame, NEW frame, frame = s.world.frame, frame < g.frame,
         NEW r, r = Advance(s, p, frame, g.inputs[frame][p])
  PROVE  /\ r.error = "ok" /\ Plays(p, r.session, g) /\ r.session.dirty = NoFrame
         /\ r.session.world.frame = frame + 1
<1> DEFINE t == r.session
           b == g.inputs[frame][p]
<1>1. /\ Sound(s) /\ s.peer = p /\ s.world.frame <= g.frame /\ g.frame \in Boundaries
      /\ Echoes(s.local, p, g) /\ Echoes(s.remote, OtherPlayer(p), g)
  BY DEF Plays, IsGame
<1>2. /\ Position(s.confirmed) = s.confirmed /\ Elapsed(s) = frame /\ s \in Sessions
      /\ frame \in FrameNumbers /\ frame \in Nat /\ g.frame \in Nat
      /\ s.confirmed \in Nat /\ s.confirmed <= frame
      /\ FrameCount \in Nat /\ 2 * FrameCount < Modulus
  BY <1>1, PlayFacts
<1>3. frame + 1 <= FrameCount
  BY <1>1, <1>2 DEF Boundaries
<1>4. b \in Buttons
  BY <1>2 DEF IsGame, Pairs
<1> HIDE DEF b
<1>5. r = SimulateNext(s, b)
  BY <1>1 DEF Advance, Result, b
<1>6. 2 * (Elapsed(s) + 1) < Modulus
  <2>1. Modulus \in Nat
    BY ModulusAssumption
  <2> QED
    BY <1>2, <1>3, <2>1
<1>7. /\ r.error = "ok" /\ Sound(t) /\ t.dirty = NoFrame
      /\ Elapsed(t) = frame + 1 /\ t.peer = p
      /\ t.remote = s.remote /\ t.local = Put(s.local, frame, b) /\ Confirms(s, t)
      /\ \A f \in FrameNumbers :
           Position(f) < frame => t.world.inputs[f] = s.world.inputs[f]
  BY <1>1, <1>2, <1>4, <1>5, <1>6, SimulateNextSound
<1>8. t.world.frame = frame + 1
  <2>1. t.world.frame \in FrameNumbers
    BY <1>7 DEF Sound, Sessions, Worlds
  <2> QED
    BY <1>7, <2>1, PositionIsFrame DEF Elapsed
<1>9. Echoes(t.local, p, g) /\ Echoes(t.remote, OtherPlayer(p), g)
  <2>1. s.local \in RingOf(Buttons)
    BY <1>2 DEF Sessions
  <2> QED
    BY <1>1, <1>2, <1>4, <1>7, <2>1, EchoesPut DEF b
<1>10. \A f \in FrameNumbers : f < s.confirmed => t.world.inputs[f] = s.world.inputs[f]
  <2> TAKE f \in FrameNumbers
  <2> HAVE f < s.confirmed
  <2>1. Position(f) = f /\ f \in Nat
    BY PositionIsFrame, ModulusAssumption DEF FrameNumbers
  <2> DEFINE c == s.confirmed
  <2>2. c \in Nat /\ c <= frame /\ f < c
    BY <1>2
  <2> HIDE DEF c
  <2>3. Position(f) < frame
    BY <1>2, <2>1, <2>2
  <2> QED
    BY <1>7, <2>3
<1>11. t.world.frame <= g.frame
  BY <1>2, <1>8
<1> HIDE DEF t
<1>12. Plays(p, t, g)
  BY <1>7, <1>9, <1>10, <1>11, SettledFurther
<1> QED
  BY <1>7, <1>8, <1>12 DEF t

(* A game that goes on from g. *)
Continues(more, g) ==
  /\ IsGame(more)
  /\ g.frame <= more.frame
  /\ \A f \in FrameNumbers : f < g.frame => more.inputs[f] = g.inputs[f]

(* One frame more. *)
LEMMA NextContinues ==
  ASSUME NEW g, IsGame(g), g.frame < FrameCount, NEW pair \in Pairs,
         NEW more, more = SimulateFrame(g, pair)
  PROVE  /\ Continues(more, g) /\ more.frame = g.frame + 1
         /\ more.inputs[g.frame] = pair
<1> DEFINE at == g.frame
<1>1. /\ g \in Worlds /\ at \in Boundaries /\ at \in Nat /\ at \in FrameNumbers
      /\ g.inputs \in [FrameNumbers -> Pairs \union {NoPair}] /\ FrameCount \in Nat
  BY BoundariesFit, LiveAssumption DEF IsGame, Worlds
<1>2. at + 1 \in Boundaries /\ FrameOffset(at, 1) = at + 1
  <2>1. at + 1 <= FrameCount /\ at < FrameCount
    BY <1>1
  <2> HIDE DEF at
  <2>2. at + 1 \in 0 .. FrameCount
    BY <1>1, <2>1
  <2> QED
    BY <1>1, <2>1, <2>2, BoundariesFit DEF Boundaries
<1>3. more = [frame |-> at + 1, inputs |-> [g.inputs EXCEPT ![at] = pair]]
  BY <1>2 DEF SimulateFrame, NextFrame
<1>4. /\ more.frame = at + 1 /\ more.inputs \in [FrameNumbers -> Pairs \union {NoPair}]
      /\ more.inputs[at] = pair
      /\ \A f \in FrameNumbers : f # at => more.inputs[f] = g.inputs[f]
  BY <1>1, <1>3
<1>5. at + 1 \in FrameNumbers
  BY <1>2, BoundariesFit
<1>6. more \in Worlds
  <2> DEFINE m == at + 1
             i == [g.inputs EXCEPT ![at] = pair]
  <2>1. i \in [FrameNumbers -> Pairs \union {NoPair}] /\ m \in FrameNumbers
    BY <1>1, <1>5
  <2>2. more = [frame |-> m, inputs |-> i]
    BY <1>3
  <2> HIDE DEF m, i
  <2> QED
    BY <2>1, <2>2 DEF Worlds
<1> HIDE DEF at
<1>7. ASSUME NEW f \in FrameNumbers
      PROVE  /\ IF f < at + 1 THEN more.inputs[f] \in Pairs ELSE more.inputs[f] = NoPair
             /\ f < at => more.inputs[f] = g.inputs[f]
  <2>1. f \in Nat /\ IF f < at THEN g.inputs[f] \in Pairs ELSE g.inputs[f] = NoPair
    BY ModulusAssumption DEF IsGame, FrameNumbers, at
  <2>2. CASE f = at
    BY <1>1, <1>4, <2>2
  <2>3. CASE f # at
    <3>1. f < at + 1 <=> f < at
      BY <1>1, <2>1, <2>3
    <3> QED
      BY <1>4, <2>1, <2>3, <3>1
  <2> QED
    BY <2>2, <2>3
<1>8. IsGame(more)
  BY <1>2, <1>4, <1>6, <1>7 DEF IsGame
<1>9. at <= at + 1
  BY <1>1
<1> QED
  BY <1>4, <1>7, <1>8, <1>9 DEF Continues, at

(* Both sides of a game that goes on have the same beginnings. *)
LEMMA PrefixContinues ==
  ASSUME NEW g, IsGame(g), NEW more, Continues(more, g), NEW b \in FrameNumbers, b <= g.frame
  PROVE  Prefix(more, b) = Prefix(g, b)
<1>1. g.frame \in Nat /\ b \in Nat
  <2>1. g.frame \in Boundaries
    BY DEF IsGame
  <2>2. b \in Nat
    BY ModulusAssumption DEF FrameNumbers
  <2> QED
    BY <2>1, <2>2, BoundariesFit
<1>2. ASSUME NEW f \in FrameNumbers, Position(f) < Position(b)
      PROVE  more.inputs[f] = g.inputs[f]
  <2>1. f < b /\ f \in Nat
    BY <1>2, PositionIsFrame, ModulusAssumption DEF FrameNumbers
  <2>2. f < g.frame
    BY <1>1, <2>1
  <2> QED
    BY <2>2 DEF Continues
<1> QED
  BY <1>2, PrefixAgrees

(* A session that plays a game plays what it becomes. *)
LEMMA PlaysOn ==
  ASSUME NEW g, IsGame(g), NEW more, Continues(more, g), NEW p \in Players,
         NEW s, Plays(p, s, g)
  PROVE  Plays(p, s, more)
<1>1. /\ g.frame \in Boundaries /\ more.frame \in Boundaries /\ g.frame <= more.frame
      /\ \A f \in FrameNumbers : f < g.frame => more.inputs[f] = g.inputs[f]
  BY DEF IsGame, Continues
<1>2. /\ Sound(s) /\ s.peer = p /\ s.world.frame <= g.frame
      /\ Echoes(s.local, p, g) /\ Echoes(s.remote, OtherPlayer(p), g) /\ Settled(s, g)
  BY DEF Plays
<1>3. /\ s.world.frame \in Nat /\ s.confirmed \in Nat /\ g.frame \in Nat /\ more.frame \in Nat
      /\ s.confirmed <= s.world.frame
  BY <1>1, <1>2, PlayFacts, BoundariesFit
<1>4. \A f \in FrameNumbers : f \in Nat
  BY ModulusAssumption DEF FrameNumbers
<1>5. ASSUME NEW ring, NEW q, Echoes(ring, q, g)
      PROVE  Echoes(ring, q, more)
  BY <1>1, <1>3, <1>4, <1>5 DEF Echoes
<1>6. Settled(s, more)
  <2> SUFFICES ASSUME NEW f \in FrameNumbers, f < s.confirmed
               PROVE  s.world.inputs[f] = more.inputs[f]
    BY DEF Settled
  <2>1. f < g.frame
    BY <1>2, <1>3, <1>4
  <2> QED
    BY <1>1, <1>2, <2>1 DEF Settled
<1>7. s.world.frame <= more.frame
  BY <1>1, <1>2, <1>3
<1> QED
  BY <1>2, <1>5, <1>6, <1>7 DEF Plays

(* The game that has not begun. *)
LEMMA NewGame ==
  /\ IsGame(InitialWorld) /\ InitialWorld.frame = 0
  /\ \A p \in Players : Plays(p, NewSession(p), InitialWorld) /\ NewSession(p).world.frame = 0
<1>1. StartFrame = 0 /\ 0 \in FrameNumbers /\ 0 \in Boundaries
  BY LiveAssumption, BoundariesFit DEF Boundaries
<1>2. InitialWorld.frame = 0 /\ InitialWorld \in Worlds
      /\ \A f \in FrameNumbers : InitialWorld.inputs[f] = NoPair
  BY <1>1 DEF InitialWorld, Worlds
<1>3. \A f \in FrameNumbers : ~ f < 0
  BY ModulusAssumption DEF FrameNumbers
<1>4. IsGame(InitialWorld)
  BY <1>1, <1>2, <1>3 DEF IsGame
<1>5. ASSUME NEW p \in Players
      PROVE  Plays(p, NewSession(p), InitialWorld) /\ NewSession(p).world.frame = 0
  <2> DEFINE s == NewSession(p)
  <2>1. /\ s.peer = p /\ s.world = InitialWorld /\ s.confirmed = 0
    BY <1>1 DEF NewSession
  <2>2. /\ Sound(s)
        /\ \A f \in FrameNumbers : ~ Contains(s.local, f) /\ ~ Contains(s.remote, f)
    BY NewSessionSound
  <2> HIDE DEF s
  <2>3. Plays(p, s, InitialWorld)
    BY <1>2, <1>3, <2>1, <2>2 DEF Plays, Echoes, Settled
  <2> QED
    BY <1>2, <2>1, <2>3 DEF s
<1> QED
  BY <1>2, <1>4, <1>5

(* The hashes a session gives away are of the game. *)
LEMMA HashGiven ==
  ASSUME NEW g, IsGame(g), NEW p \in Players, NEW s, Plays(p, s, g),
         NEW b \in FrameNumbers, HashAt(s, b).error = "ok"
  PROVE  b <= g.frame /\ HashAt(s, b).value = Prefix(g, b)
<1>1. Sound(s) /\ s.world.frame <= g.frame /\ g.frame \in Boundaries /\ Settled(s, g)
  BY DEF Plays, IsGame
<1>2. /\ s.confirmed \in Boundaries /\ s.confirmed \in Nat /\ s.world.frame \in Nat
      /\ Elapsed(s) = s.world.frame /\ s.world.frame \in Boundaries /\ g.frame \in Nat
      /\ FrameCount \in Nat /\ s.confirmed <= s.world.frame
  BY <1>1, PlayFacts
<1>3. ~ FrameBefore(s.confirmed, b) /\ Contains(s.hashes, b) /\ HashAt(s, b).value = Get(s.hashes, b)
  BY DEF HashAt
<1>4. /\ b <= s.world.frame /\ b \in Nat
      /\ Get(s.hashes, b) = Prefix(s.world, b)
  BY <1>1, <1>2, <1>3, PositionIsFrame, ModulusAssumption DEF Sound, HashesFit, FrameNumbers
<1>5. b \in Boundaries
  BY <1>2, <1>4 DEF Boundaries
<1>6. b <= s.confirmed
  BY <1>2, <1>3, <1>4, <1>5, BoundariesFit
<1>7. Prefix(s.world, b) = Prefix(g, b)
  <2>1. ASSUME NEW f \in FrameNumbers, Position(f) < Position(b)
        PROVE  s.world.inputs[f] = g.inputs[f]
    <3>1. f < b /\ f \in Nat
      BY <2>1, PositionIsFrame, ModulusAssumption DEF FrameNumbers
    <3>2. f < s.confirmed
      BY <1>2, <1>4, <1>6, <3>1
    <3> QED
      BY <1>1, <3>2 DEF Settled
  <2> QED
    BY <2>1, PrefixAgrees
<1> QED
  BY <1>1, <1>2, <1>3, <1>4, <1>7

(* A session that has confirmed the whole game has its world. *)
LEMMA WholePlayed ==
  ASSUME NEW g, IsGame(g), NEW p \in Players, NEW s, Plays(p, s, g),
         s.confirmed = FrameCount
  PROVE  s.world = g /\ g.frame = FrameCount
<1>1. Sound(s) /\ s.world.frame <= g.frame /\ g.frame \in Boundaries /\ Settled(s, g)
  BY DEF Plays, IsGame
<1>2. /\ s.world.frame \in Nat /\ Elapsed(s) = s.world.frame
      /\ g.frame \in Nat /\ FrameCount \in Nat /\ FrameCount <= s.world.frame
      /\ s.world \in Worlds /\ g \in Worlds
  BY <1>1, PlayFacts DEF IsGame
<1>3. g.frame = FrameCount /\ s.world.frame = FrameCount
  BY <1>1, <1>2 DEF Boundaries
<1>4. FrameCount \in FrameNumbers /\ Position(FrameCount) = FrameCount
  BY <1>1, <1>3, BoundariesFit, PositionIsFrame
<1>5. ASSUME NEW f \in FrameNumbers
      PROVE  IF Position(f) < Position(FrameCount)
             THEN g.inputs[f] = s.world.inputs[f]
             ELSE s.world.inputs[f] = NoPair /\ g.inputs[f] = NoPair
  <2>1. Position(f) = f /\ f \in Nat
    BY PositionIsFrame, ModulusAssumption DEF FrameNumbers
  <2>2. CASE f < FrameCount
    BY <1>1, <1>4, <2>1, <2>2 DEF Settled
  <2>3. CASE ~ f < FrameCount
    <3>1. Elapsed(s) <= Position(f)
      BY <1>2, <1>3, <2>1, <2>3
    <3>2. s.world.inputs[f] = NoPair
      BY <1>1, <3>1 DEF Sound, WorldFits
    <3>3. g.inputs[f] = NoPair
      BY <1>3, <2>3 DEF IsGame
    <3> QED
      BY <1>4, <2>1, <2>3, <3>2, <3>3
  <2> QED
    BY <2>2, <2>3
<1>6. Prefix(g, FrameCount) = s.world
  BY <1>2, <1>3, <1>5, PrefixWhole
<1>7. Prefix(g, FrameCount) = g
  BY <1>2, <1>3, <1>5, PrefixWhole
<1> QED
  BY <1>3, <1>6, <1>7

-----------------------------------------------------------------------------
(* What the packets of canonical peers say *)

(* A game that any packet may tell. *)
Playable(g) ==
  /\ IsGame(g)
  /\ \A f \in FrameNumbers : f < g.frame =>
       \A p \in Players : g.inputs[f][p] \in Buttons \ InvalidButtons

(* An input of player q in the game, and a hash of the game. *)
IsInput(input, q, g) ==
  /\ input.player = q
  /\ input.frame \in FrameNumbers
  /\ input.frame < g.frame
  /\ input.buttons = g.inputs[input.frame][q]

IsHash(h, g) ==
  /\ h.frame \in FrameNumbers
  /\ h.frame <= g.frame
  /\ h.hash = CanonicalHash(Prefix(g, h.frame))

(* A datagram that can be read and says nothing but what is in the game. *)
Truthful(d, g) ==
  /\ DecodeError(d) = "ok"
  /\ d.sender \in Players
  /\ d.size \in Nat
  /\ \E n \in Nat : DOMAIN d.inputs = 1 .. n
  /\ \A i \in DOMAIN d.inputs : IsInput(d.inputs[i], d.sender, g)
  /\ \A i \in DOMAIN d.hashes : IsHash(d.hashes[i], g)

(* None of its inputs is too old for a peer that has played so far. *)
Recent(d, at) ==
  \A i \in DOMAIN d.inputs : at <= d.inputs[i].frame + MaxRollback

(* It stays true as the game goes on. *)
LEMMA TruthfulOn ==
  ASSUME NEW g, IsGame(g), NEW more, Continues(more, g), NEW d, Truthful(d, g)
  PROVE  Truthful(d, more)
<1>1. /\ g.frame \in Nat /\ more.frame \in Nat /\ g.frame <= more.frame
      /\ \A f \in FrameNumbers : f \in Nat
      /\ \A f \in FrameNumbers : f < g.frame => more.inputs[f] = g.inputs[f]
  <2>1. g.frame \in Boundaries /\ more.frame \in Boundaries
    BY DEF IsGame, Continues
  <2>2. \A f \in FrameNumbers : f \in Nat
    BY ModulusAssumption DEF FrameNumbers
  <2> QED
    BY <2>1, <2>2, BoundariesFit DEF Continues
<1>2. ASSUME NEW i \in DOMAIN d.inputs
      PROVE  IsInput(d.inputs[i], d.sender, more)
  <2>1. IsInput(d.inputs[i], d.sender, g)
    BY DEF Truthful
  <2> QED
    BY <1>1, <2>1 DEF IsInput
<1>3. ASSUME NEW i \in DOMAIN d.hashes
      PROVE  IsHash(d.hashes[i], more)
  <2>1. IsHash(d.hashes[i], g)
    BY DEF Truthful
  <2> DEFINE b == d.hashes[i].frame
  <2>2. b \in FrameNumbers /\ b <= g.frame /\ b \in Nat
    BY <1>1, <2>1 DEF IsHash
  <2>3. b <= more.frame /\ Prefix(more, b) = Prefix(g, b)
    <3> HIDE DEF b
    <3> QED
      BY <1>1, <2>2, PrefixContinues
  <2> QED
    BY <2>1, <2>3 DEF IsHash
<1> QED
  BY <1>2, <1>3 DEF Truthful

(* The inputs of a packet are taken, or one of them is too old. *)
LEMMA PlaysIngestAll ==
  ASSUME RingsReach, NEW g, IsGame(g), NEW d, Truthful(d, g),
         NEW p, p = OtherPlayer(d.sender), NEW s, Plays(p, s, g),
         NEW r, r = IngestAll(s, d.inputs)
  PROVE  /\ Plays(p, r.session, g) /\ r.session.world = s.world
         /\ r.error \in {"ok", "rollback_window_exceeded"}
         /\ Recent(d, s.world.frame) => r.error = "ok"
<1> DEFINE inputs == d.inputs
           base == Result(s, "ok")
           recent == Recent(d, s.world.frame)
           Fine(x) == /\ Plays(p, x.session, g) /\ x.session.world = s.world
                      /\ x.error \in {"ok", "rollback_window_exceeded"}
                      /\ recent => x.error = "ok"
<1>1. /\ d.sender \in Players /\ p \in Players /\ OtherPlayer(p) = d.sender
      /\ \A i \in DOMAIN inputs : IsInput(inputs[i], d.sender, g)
  BY OpponentFacts DEF Truthful
<1>2. PICK n \in Nat : DOMAIN inputs = 1 .. n
  BY DEF Truthful
<1>3. r = Folded(TRUE, base, inputs)
  BY LoopsAreFolds
<1>4. Fine(base)
  BY DEF Result
<1>5. ASSUME NEW x, Fine(x), NEW i \in DOMAIN inputs
      PROVE  Fine(IngestNext(x, inputs[i]))
  <2> DEFINE y == IngestNext(x, inputs[i])
             t == x.session
             frame == inputs[i].frame
  <2>1. CASE x.error # "ok"
    BY <1>5, <2>1 DEF IngestNext
  <2>2. CASE x.error = "ok"
    <3>1. /\ inputs[i].player = OtherPlayer(p) /\ frame \in FrameNumbers /\ frame < g.frame
          /\ inputs[i].buttons = g.inputs[frame][OtherPlayer(p)]
      BY <1>1 DEF IsInput
    <3>2. y = IngestRemote(t, OtherPlayer(p), frame, g.inputs[frame][OtherPlayer(p)])
      BY <2>2, <3>1 DEF IngestNext
    <3>3. Plays(p, t, g) /\ t.world = s.world
      BY <1>5
    <3>4. recent => t.world.frame <= frame + MaxRollback
      BY <3>3 DEF Recent
    <3> HIDE DEF y, t, frame, recent, inputs
    <3>5. /\ Plays(p, y.session, g) /\ y.session.world = t.world
          /\ y.error \in {"ok", "rollback_window_exceeded"}
          /\ t.world.frame <= frame + MaxRollback => y.error = "ok"
      BY <1>1, <3>1, <3>2, <3>3, PlaysIngest
    <3>6. Fine(y)
      BY <3>3, <3>4, <3>5
    <3> QED
      BY <3>6 DEF y
  <2> QED
    BY <2>1, <2>2
<1> HIDE DEF base, Fine, inputs
<1>6. PICK v : Runs(v, n, TRUE, base, inputs)
  BY <1>2, FoldRuns
<1>7. /\ v[0] = base
      /\ \A k \in 1 .. n : v[k] = IngestNext(v[k - 1], inputs[k])
      /\ r = v[n]
  BY <1>3, <1>6 DEF Runs, Turn
<1> DEFINE bad == {k \in 0 .. n : ~ Fine(v[k])}
<1>8. bad = {}
  <2> SUFFICES ASSUME bad # {}
               PROVE  FALSE
    OBVIOUS
  <2>1. PICK k \in bad : \A i \in bad : k <= i
    <3>1. bad \in SUBSET Nat
      OBVIOUS
    <3> HIDE DEF bad
    <3> QED
      BY <3>1, LeastElement
  <2>2. k \in 0 .. n /\ ~ Fine(v[k]) /\ k # 0
    BY <1>4, <1>7
  <2>3. k \in 1 .. n /\ k - 1 \in 0 .. n /\ k - 1 < k
    BY <2>2
  <2>4. Fine(v[k - 1])
    BY <2>1, <2>3
  <2>5. v[k] = IngestNext(v[k - 1], inputs[k]) /\ k \in DOMAIN inputs
    BY <1>2, <1>7, <2>3
  <2> QED
    BY <1>5, <2>2, <2>4, <2>5
<1>9. Fine(v[n])
  BY <1>8
<1> QED
  BY <1>7, <1>9 DEF Fine

(* Peers of which none is faulty differ about no hash. *)
LEMMA NothingDiverges ==
  ASSUME faulty = {}, NEW g, IsGame(g), NEW p \in Players, NEW s, Plays(p, s, g),
         NEW hashes, \A i \in DOMAIN hashes : IsHash(hashes[i], g)
  PROVE  Divergent(p, s, hashes) = {}
<1>1. ASSUME NEW h \in Lists!ToSet(hashes), HashAt(s, h.frame).error = "ok"
      PROVE  HashOf(p, HashAt(s, h.frame).value) = h.hash
  <2>1. IsHash(h, g)
    BY DEF Lists!ToSet
  <2>2. h.frame \in FrameNumbers /\ h.hash = CanonicalHash(Prefix(g, h.frame))
    BY <2>1 DEF IsHash
  <2>3. HashAt(s, h.frame).value = Prefix(g, h.frame)
    BY <1>1, <2>2, HashGiven
  <2> QED
    BY <2>2, <2>3 DEF HashOf, CanonicalHash
<1> QED
  BY <1>1 DEF Divergent

(* The hashes that are sent: of consecutive boundaries up to the confirmed *)
(* one, none of them from before the game.                                 *)
LEMMA HashesSent ==
  ASSUME faulty = {}, NEW g, IsGame(g), NEW p \in Players, NEW s, Plays(p, s, g), InGame(s),
         NEW hashes, hashes = ConfirmedHashes(p, s)
  PROVE  \E n \in Nat :
           /\ n <= Redundancy
           /\ DOMAIN hashes = 1 .. n /\ Len(hashes) = n
           /\ \A i \in 1 .. n : IsHash(hashes[i], g)
           /\ HashesAreOrdered(hashes)
<1> DEFINE c == s.confirmed
           Boundary(k) == FrameOffset(c, -k)
           AtHand(k) == HashAt(s, Boundary(k)).error = "ok"
           sent == {k \in 0 .. Redundancy - 1 : \A j \in 0 .. k : AtHand(j)}
           gone == {k \in Nat : k \notin sent}
           last == Modulus - 1
<1>1. /\ c \in Boundaries /\ c \in Nat /\ FrameCount \in Nat \ {0} /\ 2 * FrameCount < Modulus
      /\ Modulus \in Nat /\ c < Modulus /\ c <= FrameCount
  <2>1. Sound(s) /\ s.world.frame <= g.frame /\ g.frame \in Boundaries
    BY DEF Plays, IsGame
  <2>2. c \in Boundaries /\ c \in Nat
    BY <2>1, PlayFacts
  <2>3. c <= FrameCount
    BY <2>2, LiveAssumption DEF Boundaries
  <2>4. FrameCount \in Nat \ {0} /\ 2 * FrameCount < Modulus /\ Modulus \in Nat
    BY LiveAssumption, ModulusAssumption
  <2> HIDE DEF c
  <2> QED
    BY <2>2, <2>3, <2>4
<1>2. Redundancy \in Nat
  BY CodecAssumption
<1>3. ASSUME NEW k \in Nat, k <= c
      PROVE  Boundary(k) = c - k /\ c - k \in Boundaries
  <2> HIDE DEF c
  <2> DEFINE x == c + -k
  <2>1. x \in Nat /\ x < Modulus /\ x = c - k /\ x \in 0 .. FrameCount
    BY <1>1, <1>3
  <2> HIDE DEF x
  <2>2. x % Modulus = x
    BY <1>1, <2>1
  <2> QED
    BY <2>1, <2>2 DEF FrameOffset, Boundaries, x
<1>4. Boundary(c + 1) = last
  <2> HIDE DEF c
  <2>1. 0 \in FrameNumbers /\ 1 \in FrameNumbers
    BY <1>1 DEF FrameNumbers
  <2>2. FrameDistance(1, 0) = 0 - 1 + Modulus
    BY <2>1, DistanceValue
  <2>3. c + -(c + 1) = 0 - 1
    BY <1>1
  <2> QED
    BY <1>1, <2>2, <2>3 DEF FrameOffset, FrameDistance
<1>5. ~ AtHand(c + 1)
  <2>1. last \in FrameNumbers /\ last \notin Boundaries
    BY <1>1 DEF FrameNumbers, Boundaries
  <2>2. ~ Contains(s.hashes, last)
    BY <2>1, HeldIsOfGame DEF InGame
  <2> HIDE DEF last
  <2> QED
    BY <1>4, <2>2 DEF HashAt
<1> HIDE DEF c, last, AtHand, Boundary
<1>6. ASSUME NEW k \in sent
      PROVE  k \in Nat /\ k <= c /\ AtHand(k) /\ k < Redundancy
  <2>1. k \in Nat /\ k < Redundancy /\ \A j \in 0 .. k : AtHand(j)
    BY <1>2, <1>6
  <2>2. k <= c
    <3> SUFFICES ASSUME ~ k <= c
                 PROVE  FALSE
      OBVIOUS
    <3>1. c + 1 \in 0 .. k
      BY <1>1, <2>1
    <3> QED
      BY <1>5, <2>1, <3>1
  <2> QED
    BY <2>1, <2>2
<1>7. c + 1 \in gone
  <2>1. c + 1 \in Nat /\ ~ c + 1 <= c
    BY <1>1
  <2> QED
    BY <1>6, <2>1
<1>8. PICK n \in gone : \A k \in gone : n <= k
  <2>1. gone \in SUBSET Nat
    OBVIOUS
  <2> HIDE DEF gone
  <2> QED
    BY <1>7, <2>1, LeastElement
<1>9. n \in Nat /\ n \notin sent
  OBVIOUS
<1>10. sent = 0 .. n - 1
  <2>1. ASSUME NEW k \in 0 .. n - 1
        PROVE  k \in sent
    <3>1. k \in Nat /\ ~ n <= k
      BY <1>9
    <3> QED
      BY <1>8, <3>1
  <2>2. ASSUME NEW k \in sent
        PROVE  k \in 0 .. n - 1
    <3>1. k \in Nat /\ k < Redundancy /\ \A j \in 0 .. k : AtHand(j)
      BY <1>6, <2>2
    <3>2. ~ n <= k
      <4> SUFFICES ASSUME n <= k
                   PROVE  FALSE
        OBVIOUS
      <4>1. n \in 0 .. Redundancy - 1
        BY <1>2, <1>9, <3>1
      <4>2. \A j \in 0 .. n : j \in 0 .. k
        BY <1>9, <3>1
      <4>3. \A j \in 0 .. n : AtHand(j)
        BY <3>1, <4>2
      <4>4. n \in sent
        BY <4>1, <4>3
      <4> QED
        BY <1>9, <4>4
    <3> QED
      BY <1>9, <3>1, <3>2
  <2> HIDE DEF sent
  <2> QED
    BY <2>1, <2>2
<1>11. n <= Redundancy
  <2> SUFFICES ASSUME ~ n <= Redundancy
               PROVE  FALSE
    OBVIOUS
  <2>1. Redundancy \in 0 .. n - 1
    BY <1>2, <1>9
  <2>2. Redundancy \in sent
    BY <1>10, <2>1
  <2>3. Redundancy < Redundancy
    BY <1>6, <2>2
  <2> QED
    BY <1>2, <2>3
<1>12. Cardinality(sent) = n
  <2> HIDE DEF sent
  <2>1. 0 \in Int /\ n - 1 \in Int
    BY <1>9
  <2>2. Cardinality(0 .. n - 1) = IF 0 > n - 1 THEN 0 ELSE n - 1 - 0 + 1
    BY <2>1, FS_Interval
  <2>3. Cardinality(0 .. n - 1) = n
    BY <1>9, <2>2
  <2> QED
    BY <1>10, <2>3
<1>13. hashes = [i \in 1 .. n |-> LET frame == Boundary(n - i)
                                 IN  [frame |-> frame, hash |-> HashOf(p, HashAt(s, frame).value)]]
  BY <1>12 DEF ConfirmedHashes, Boundary, AtHand, c
<1>14. ASSUME NEW i \in 1 .. n
       PROVE  /\ hashes[i].frame = c - (n - i) /\ hashes[i].frame \in Boundaries
              /\ IsHash(hashes[i], g)
  <2> DEFINE k == n - i
             b == Boundary(k)
  <2>1. k \in 0 .. n - 1 /\ k \in Nat
    BY <1>9
  <2>2. k \in sent
    BY <1>10, <2>1
  <2> HIDE DEF k
  <2>3. k <= c /\ AtHand(k)
    BY <1>6, <2>2
  <2>4. b = c - k /\ b \in Boundaries
    BY <1>3, <2>1, <2>3
  <2>5. hashes[i].frame = b /\ hashes[i].hash = HashOf(p, HashAt(s, b).value)
    BY <1>13 DEF k
  <2>6. HashAt(s, b).error = "ok" /\ b \in FrameNumbers
    BY <2>3, <2>4, BoundariesFit DEF AtHand
  <2> HIDE DEF b
  <2>7. b <= g.frame /\ HashAt(s, b).value = Prefix(g, b)
    BY <2>6, HashGiven
  <2>8. HashOf(p, HashAt(s, b).value) = CanonicalHash(Prefix(g, b))
    BY <2>7 DEF HashOf, CanonicalHash
  <2> QED
    BY <2>4, <2>5, <2>6, <2>7, <2>8 DEF IsHash, k
<1>15. Len(hashes) = n /\ DOMAIN hashes = 1 .. n
  <2>1. DOMAIN hashes = 1 .. n
    BY <1>13
  <2> DEFINE S == {hashes[i] : i \in 1 .. n}
  <2>2. hashes \in [1 .. n -> S]
    <3>1. hashes = [i \in 1 .. n |-> hashes[i]]
      BY <1>13
    <3> HIDE DEF sent, gone
    <3> QED
      BY <3>1
  <2> HIDE DEF S
  <2> QED
    BY <1>9, <2>1, <2>2
<1>16. HashesAreOrdered(hashes)
  <2> SUFFICES ASSUME NEW i \in 2 .. Len(hashes)
               PROVE  FrameBefore(hashes[i - 1].frame, hashes[i].frame)
    BY DEF HashesAreOrdered
  <2> DEFINE j == i - 1
             x == hashes[j].frame
             y == hashes[i].frame
  <2>1. i \in 1 .. n /\ j \in 1 .. n /\ i \in Nat /\ j \in Nat
    BY <1>9, <1>15
  <2>2. /\ x = c - (n - j) /\ x \in Boundaries /\ y = c - (n - i) /\ y \in Boundaries
    BY <1>14, <2>1
  <2>3. x < y
    <3> HIDE DEF x, y
    <3>1. j < i
      BY <2>1
    <3> HIDE DEF j
    <3> QED
      BY <1>1, <1>9, <2>1, <2>2, <3>1
  <2> HIDE DEF x, y
  <2>4. FrameBefore(x, y)
    BY <2>2, <2>3, BoundariesFit
  <2> QED
    BY <2>4 DEF x, y, j
<1> QED
  BY <1>9, <1>11, <1>14, <1>15, <1>16

(* The inputs recorded of player p. *)
Records(h, p, g) ==
  /\ IsList(h)
  /\ Len(h) = g.frame
  /\ \A n \in 1 .. Len(h) : h[n] = g.inputs[n - 1][p]

(* The inputs that are sent: the last ones that were recorded. *)
LEMMA InputsSent ==
  ASSUME NEW g, Playable(g), NEW p \in Players, NEW h, Records(h, p, g),
         NEW inputs, inputs = WindowFrom(p, h)
  PROVE  \E n \in Nat :
           /\ n <= Redundancy
           /\ DOMAIN inputs = 1 .. n /\ Len(inputs) = n
           /\ \A i \in 1 .. n : /\ IsInput(inputs[i], p, g)
                                /\ inputs[i].buttons \notin InvalidButtons
                                /\ g.frame <= inputs[i].frame + Redundancy
<1> DEFINE at == g.frame
           n == Min({Len(h), Redundancy})
<1>1. /\ at \in Boundaries /\ at \in Nat /\ FrameCount \in Nat /\ at <= FrameCount
      /\ Len(h) = at /\ Redundancy \in Nat /\ StartFrame = 0
  <2>1. at \in Boundaries
    BY DEF Playable, IsGame
  <2>2. FrameCount \in Nat /\ StartFrame = 0 /\ Redundancy \in Nat
    BY LiveAssumption, CodecAssumption
  <2>3. at <= FrameCount /\ at \in Nat
    BY <2>1, <2>2 DEF Boundaries
  <2> QED
    BY <2>1, <2>2, <2>3 DEF Records
<1>2. n = IF at <= Redundancy THEN at ELSE Redundancy
  BY <1>1 DEF Min
<1>3. inputs = [i \in 1 .. n |-> [frame |-> FrameOffset(StartFrame, Len(h) - n + i - 1),
                                  player |-> p, buttons |-> h[Len(h) - n + i]]]
  BY DEF WindowFrom
<1> HIDE DEF n
<1>4. n \in Nat /\ n <= Redundancy /\ n <= at
  <2> HIDE DEF at
  <2> QED
    BY <1>1, <1>2
<1>5. ASSUME NEW i \in 1 .. n
      PROVE  /\ IsInput(inputs[i], p, g)
             /\ inputs[i].buttons \notin InvalidButtons
             /\ at <= inputs[i].frame + Redundancy
  <2> DEFINE f == at - n + i - 1
             m == at - n + i
  <2>1. /\ f \in Nat /\ f < at /\ f \in 0 .. FrameCount /\ at <= f + Redundancy
        /\ m \in 1 .. at /\ m - 1 = f
    <3> HIDE DEF at
    <3> QED
      BY <1>1, <1>4
  <2>2. inputs[i] = [frame |-> FrameOffset(0, f), player |-> p, buttons |-> h[m]]
    BY <1>1, <1>3
  <2> HIDE DEF f, m, at
  <2>3. f \in Boundaries /\ 0 \in Boundaries
    BY <1>1, <2>1 DEF Boundaries
  <2>4. FrameOffset(0, f) = f /\ f \in FrameNumbers
    <3>1. 0 + f <= FrameCount /\ 0 + f = f
      BY <1>1, <2>1
    <3> QED
      BY <2>1, <2>3, <3>1, BoundariesFit
  <2>5. h[m] = g.inputs[f][p]
    BY <1>1, <2>1 DEF Records
  <2>6. g.inputs[f][p] \notin InvalidButtons
    BY <2>1, <2>4 DEF Playable, at
  <2> QED
    BY <2>1, <2>2, <2>4, <2>5, <2>6 DEF IsInput, at
<1>6. Len(inputs) = n /\ DOMAIN inputs = 1 .. n
  <2>1. DOMAIN inputs = 1 .. n
    BY <1>3
  <2> DEFINE S == {inputs[i] : i \in 1 .. n}
  <2>2. inputs \in [1 .. n -> S]
    BY <1>3
  <2> HIDE DEF S
  <2> QED
    BY <1>4, <2>1, <2>2
<1> QED
  BY <1>4, <1>5, <1>6 DEF at

(* A canonical peer's packet becomes a datagram that is truthful. *)
LEMMA MadeTruthful ==
  ASSUME faulty = {}, NEW l, NEW g, Playable(g), NEW p \in Players,
         Plays(p, l.peer[p], g), InGame(l.peer[p]), Records(l.history[p], p, g),
         NEW packet, packet = MakePacket(l, p)
  PROVE  /\ EncodeError(packet) = "ok" /\ Truthful(Encoded(packet), g)
         /\ \A i \in DOMAIN Encoded(packet).inputs :
              g.frame <= Encoded(packet).inputs[i].frame + Redundancy
<1> DEFINE inputs == WindowFrom(p, l.history[p])
           hashes == ConfirmedHashes(p, l.peer[p])
           d == Encoded(packet)
<1>1. PICK n \in Nat :
        /\ n <= Redundancy
        /\ DOMAIN inputs = 1 .. n /\ Len(inputs) = n
        /\ \A i \in 1 .. n : /\ IsInput(inputs[i], p, g)
                             /\ inputs[i].buttons \notin InvalidButtons
                             /\ g.frame <= inputs[i].frame + Redundancy
  BY InputsSent
<1>2. PICK k \in Nat :
        /\ k <= Redundancy
        /\ DOMAIN hashes = 1 .. k /\ Len(hashes) = k
        /\ \A i \in 1 .. k : IsHash(hashes[i], g)
        /\ HashesAreOrdered(hashes)
  BY HashesSent DEF Playable
<1>3. /\ packet.version = "current" /\ packet.type = "input" /\ packet.sender = p
      /\ packet.inputs = inputs /\ packet.hashes = hashes /\ packet.hello = FALSE
  BY DEF MakePacket
<1> HIDE DEF inputs, hashes
<1> DEFINE bytes == PayloadSize("input", n, k)
<1>4. /\ HeaderSize = 32 /\ ChecksumSize = 4 /\ LargestPacket = 1200
      /\ bytes \in Nat /\ HeaderSize + bytes + ChecksumSize <= LargestPacket
  <2>1. 10 * Redundancy + 12 * Redundancy + 36 <= 1200
    <3>1. PayloadSize("input", Redundancy, Redundancy) = 10 * Redundancy + 12 * Redundancy + 0
      BY DEF PayloadSize
    <3>2. HeaderSize + PayloadSize("input", Redundancy, Redundancy) + ChecksumSize <= LargestPacket
      BY LiveAssumption
    <3> QED
      BY <3>1, <3>2, CodecAssumption DEF HeaderSize, ChecksumSize, LargestPacket
  <2>2. bytes = 10 * n + 12 * k + 0
    BY DEF PayloadSize
  <2> HIDE DEF bytes
  <2>3. bytes \in Nat /\ 32 + bytes + 4 <= 1200
    BY <1>1, <1>2, <2>1, <2>2, CodecAssumption
  <2> QED
    BY <2>3 DEF HeaderSize, ChecksumSize, LargestPacket
<1>5. /\ d.magic = TRUE /\ d.version = "current" /\ d.type = "input" /\ d.sender = p
      /\ d.inputCount = n /\ d.hashCount = k /\ d.payload = bytes
      /\ d.inputs = inputs /\ d.hashes = hashes /\ d.intact = TRUE
      /\ d.size = HeaderSize + bytes + ChecksumSize
  BY <1>1, <1>2, <1>3 DEF Encoded
<1>6. \A i \in 1 .. n : inputs[i].player = p
  BY <1>1 DEF IsInput
<1>7. EncodeError(packet) = "ok"
  <2>1. "input" \in PacketTypes /\ "input" # "hello"
    BY DEF PacketTypes
  <2>2. ~ n > Redundancy /\ ~ k > Redundancy /\ ~ HeaderSize + bytes + ChecksumSize > LargestPacket
    <3> HIDE DEF bytes
    <3> QED
      BY <1>1, <1>2, <1>4, CodecAssumption DEF HeaderSize, ChecksumSize, LargestPacket
  <2> QED
    BY <1>1, <1>2, <1>3, <1>6, <2>1, <2>2 DEF EncodeError
<1> HIDE DEF d
<1>8. DecodeError(d) = "ok" /\ d.size \in Nat
  <2>1. "input" \in PacketTypes /\ "input" # "hello"
    BY DEF PacketTypes
  <2>2. /\ ~ n > Redundancy /\ ~ k > Redundancy /\ d.size \in Nat
        /\ ~ d.size < HeaderSize + ChecksumSize /\ ~ d.size > LargestPacket
    <3> HIDE DEF bytes
    <3> QED
      BY <1>1, <1>2, <1>4, <1>5, CodecAssumption DEF HeaderSize, ChecksumSize, LargestPacket
  <2>3. p \in {"a", "b"}
    BY DEF Players
  <2> QED
    BY <1>1, <1>2, <1>5, <1>6, <2>1, <2>2, <2>3 DEF DecodeError
<1>9. Truthful(d, g)
  BY <1>1, <1>2, <1>5, <1>8 DEF Truthful
<1> QED
  BY <1>1, <1>5, <1>7, <1>9 DEF d

-----------------------------------------------------------------------------
(* Bytes of packets that are due *)

SizeOf(c) == c.size
AnyOf(s) == CHOOSE x \in s : TRUE

(* The equation of the recursive function that adds sizes. *)
Sums(g, D) ==
  g = [s \in D |-> IF s = {} THEN 0 ELSE SizeOf(AnyOf(s)) + g[s \ {AnyOf(s)}]]

(* The parts of S that are no larger than n. *)
Small(S, n) == {s \in SUBSET S : Cardinality(s) <= n}

(* A part of S without one of its elements is a smaller one. *)
LEMMA RestIsSmaller ==
  ASSUME NEW S, IsFiniteSet(S), NEW s \in SUBSET S, s # {}
  PROVE  /\ s \ {AnyOf(s)} \in SUBSET S /\ AnyOf(s) \in s
         /\ Cardinality(s) \in Nat /\ Cardinality(s \ {AnyOf(s)}) \in Nat
         /\ Cardinality(s \ {AnyOf(s)}) = Cardinality(s) - 1
<1>1. AnyOf(s) \in s /\ IsFiniteSet(s)
  BY FS_Subset DEF AnyOf
<1> QED
  BY <1>1, OneFewer

(* There is such a function, on the parts of each size. *)
LEMMA SumsExist ==
  ASSUME NEW S, IsFiniteSet(S)
  PROVE  \E g : Sums(g, SUBSET S)
<1> DEFINE bad == {n \in Nat : ~ \E g : Sums(g, Small(S, n))}
<1>1. bad = {}
  <2> SUFFICES ASSUME bad # {}
               PROVE  FALSE
    OBVIOUS
  <2>1. PICK n \in bad : \A m \in bad : n <= m
    <3>1. bad \in SUBSET Nat
      OBVIOUS
    <3> HIDE DEF bad
    <3> QED
      BY <3>1, LeastElement
  <2>2. n \in Nat /\ ~ \E g : Sums(g, Small(S, n))
    OBVIOUS
  <2>3. n # 0
    <3> SUFFICES ASSUME n = 0
                 PROVE  FALSE
      OBVIOUS
    <3>1. \A s \in Small(S, n) : s = {}
      BY FS_Subset, FS_EmptySet, FS_CardinalityType DEF Small
    <3> DEFINE g == [s \in Small(S, n) |-> 0]
    <3>2. Sums(g, Small(S, n))
      BY <3>1 DEF Sums
    <3> QED
      BY <2>2, <3>2
  <2>4. n - 1 \in Nat /\ n - 1 \notin bad
    BY <2>1, <2>2, <2>3
  <2>5. PICK g : Sums(g, Small(S, n - 1))
    BY <2>4
  <2> DEFINE More(f, s) == SizeOf(AnyOf(s)) + f[s \ {AnyOf(s)}]
             h == [s \in Small(S, n) |-> IF s = {} THEN 0 ELSE More(g, s)]
  <2>6. \A s \in Small(S, n) : s # {} => s \ {AnyOf(s)} \in Small(S, n - 1)
    <3> TAKE s \in Small(S, n)
    <3> HAVE s # {}
    <3>1. s \in SUBSET S /\ Cardinality(s) <= n
      BY DEF Small
    <3>2. /\ s \ {AnyOf(s)} \in SUBSET S
          /\ Cardinality(s) \in Nat /\ Cardinality(s \ {AnyOf(s)}) = Cardinality(s) - 1
      BY <3>1, RestIsSmaller
    <3>3. Cardinality(s \ {AnyOf(s)}) <= n - 1
      BY <2>2, <3>1, <3>2
    <3> QED
      BY <3>2, <3>3 DEF Small
  <2>7. \A u \in Small(S, n - 1) : u \in Small(S, n) /\ h[u] = g[u]
    <3> TAKE u \in Small(S, n - 1)
    <3>1. Cardinality(u) \in Nat /\ Cardinality(u) <= n - 1 /\ u \in SUBSET S
      BY FS_Subset, FS_CardinalityType DEF Small
    <3>2. u \in Small(S, n)
      BY <2>2, <3>1 DEF Small
    <3>3. g[u] = IF u = {} THEN 0 ELSE More(g, u)
      BY <2>5 DEF Sums
    <3> HIDE DEF More
    <3> QED
      BY <3>2, <3>3
  <2>8. \A s \in Small(S, n) : s # {} => More(h, s) = More(g, s)
    <3> TAKE s \in Small(S, n)
    <3> HAVE s # {}
    <3>1. h[s \ {AnyOf(s)}] = g[s \ {AnyOf(s)}]
      BY <2>6, <2>7
    <3> HIDE DEF h
    <3> QED
      BY <3>1
  <2>9. Sums(h, Small(S, n))
    <3>1. \A s \in Small(S, n) :
            (IF s = {} THEN 0 ELSE More(g, s)) = (IF s = {} THEN 0 ELSE More(h, s))
      BY <2>8
    <3>2. h = [s \in Small(S, n) |-> IF s = {} THEN 0 ELSE More(h, s)]
      <4> HIDE DEF More
      <4> QED
        BY <3>1
    <3> HIDE DEF h
    <3> QED
      BY <3>2 DEF Sums
  <2> QED
    BY <2>2, <2>9
<1>2. Cardinality(S) \in Nat
  BY FS_CardinalityType
<1>3. Small(S, Cardinality(S)) = SUBSET S
  BY FS_Subset DEF Small
<1>4. \E g : Sums(g, Small(S, Cardinality(S)))
  BY <1>1, <1>2
<1> QED
  BY <1>3, <1>4

(* Packets that are no larger than a packet may be. *)
Packed(S) == IsFiniteSet(S) /\ \A c \in S : c.size \in Nat /\ c.size <= LargestPacket

(* So many packets have at most so many bytes. *)
LEMMA BytesBounded ==
  ASSUME NEW S, Packed(S)
  PROVE  /\ BytesOf(S) \in Nat
         /\ BytesOf(S) <= LargestPacket * Cardinality(S)
<1> DEFINE g == CHOOSE g : Sums(g, SUBSET S)
           Bounded(s) == g[s] \in Nat /\ g[s] <= LargestPacket * Cardinality(s)
           bad == {s \in SUBSET S : ~ Bounded(s)}
<1>1. Sums(g, SUBSET S)
  BY SumsExist DEF Packed
<1>2. BytesOf(S) = g[S]
  BY DEF BytesOf, MapThenSumSet, MapThenFoldSet, Sums, SizeOf, AnyOf
<1> HIDE DEF g
<1>3. \A s \in SUBSET S : g[s] = IF s = {} THEN 0 ELSE SizeOf(AnyOf(s)) + g[s \ {AnyOf(s)}]
  BY <1>1 DEF Sums
<1>4. bad = {}
  <2> SUFFICES ASSUME bad # {}
               PROVE  FALSE
    OBVIOUS
  <2>1. \A s \in bad : IsFiniteSet(s)
    BY FS_Subset DEF Packed
  <2>2. PICK s \in bad : \A u \in bad : Cardinality(s) <= Cardinality(u)
    <3> HIDE DEF bad
    <3> QED
      BY <2>1, FewestExist
  <2>3. s \in SUBSET S /\ ~ Bounded(s)
    OBVIOUS
  <2>4. s # {}
    <3> SUFFICES ASSUME s = {}
                 PROVE  FALSE
      OBVIOUS
    <3>1. g[s] = 0 /\ Cardinality(s) = 0
      BY <1>3, <2>3, FS_EmptySet
    <3> QED
      BY <2>3, <3>1 DEF LargestPacket
  <2> DEFINE c == AnyOf(s)
             rest == s \ {c}
             n == Cardinality(s)
             bytes == g[rest]
             size == c.size
  <2>5. /\ rest \in SUBSET S /\ c \in S /\ n \in Nat /\ Cardinality(rest) = n - 1
        /\ Cardinality(rest) \in Nat
    BY <2>3, <2>4, RestIsSmaller DEF Packed
  <2>6. g[s] = size + bytes
    BY <1>3, <2>3, <2>4 DEF SizeOf
  <2> HIDE DEF rest, c
  <2>7. rest \notin bad
    <3> HIDE DEF bad
    <3>1. ~ n <= Cardinality(rest)
      BY <2>5
    <3> QED
      BY <2>2, <3>1
  <2>8. bytes \in Nat /\ bytes <= LargestPacket * (n - 1)
    <3>1. Bounded(rest)
      BY <2>5, <2>7
    <3> QED
      BY <2>5, <3>1
  <2>9. size \in Nat /\ size <= LargestPacket
    BY <2>5 DEF Packed
  <2> HIDE DEF n, bytes, size
  <2>10. g[s] \in Nat /\ g[s] <= LargestPacket * n
    BY <2>5, <2>6, <2>8, <2>9 DEF LargestPacket
  <2> QED
    BY <2>3, <2>10 DEF n
<1>5. Bounded(S)
  BY <1>4
<1> QED
  BY <1>2, <1>5

(* Where the budget is enough for all that is due, all of it is taken. *)
LEMMA AllDueTaken ==
  ASSUME NEW t, NEW now, NEW due,
         due = {c \in t.queue \ Expired(t, now) : c.scheduled <= now},
         Packed(due), \A c \in due : ~ Before(c, c),
         LargestPacket * Cardinality(due) <= Bandwidth
  PROVE  TakenFrom(t, now) = due
<1> DEFINE Ahead(g, c) == {q \in due : Before(q, c) /\ g[q]}
           InBudget(g, c) == c.size + BytesOf(Ahead(g, c)) <= Bandwidth
           taken == CHOOSE g : g = [c \in due |-> InBudget(g, c)]
<1>1. TakenFrom(t, now) = {c \in due : taken[c]}
  BY DEF TakenFrom
<1>2. ASSUME NEW g, NEW c \in due
      PROVE  InBudget(g, c)
  <2> DEFINE ahead == Ahead(g, c)
             all == ahead \union {c}
  <2>1. ahead \subseteq due /\ c \notin ahead
    OBVIOUS
  <2>2. IsFiniteSet(due)
    BY DEF Packed
  <2> HIDE DEF ahead
  <2>3. Packed(ahead) /\ IsFiniteSet(ahead)
    BY <2>1, <2>2, FS_Subset DEF Packed
  <2>4. Cardinality(all) = Cardinality(ahead) + 1 /\ Cardinality(ahead) \in Nat
    BY <2>1, <2>3, FS_AddElement, FS_CardinalityType
  <2>5. Cardinality(all) <= Cardinality(due) /\ Cardinality(due) \in Nat
    <3>1. all \in SUBSET due
      BY <2>1
    <3> HIDE DEF all
    <3> QED
      BY <2>2, <3>1, FS_Subset, FS_CardinalityType
  <2> DEFINE n == Cardinality(ahead)
             m == Cardinality(due)
             bytes == BytesOf(ahead)
             size == c.size
  <2>6. bytes \in Nat /\ bytes <= LargestPacket * n
    BY <2>3, BytesBounded
  <2>7. size \in Nat /\ size <= LargestPacket
    BY DEF Packed
  <2>8. n \in Nat /\ m \in Nat /\ n + 1 <= m /\ LargestPacket * m <= Bandwidth
    BY <2>4, <2>5
  <2>9. Bandwidth \in Nat
    BY TransportAssumption
  <2> HIDE DEF n, m, bytes, size
  <2>10. size + bytes <= Bandwidth
    BY <2>6, <2>7, <2>8, <2>9 DEF LargestPacket
  <2> QED
    BY <2>10 DEF size, bytes, ahead
<1> HIDE DEF InBudget
<1>3. \E g : g = [c \in due |-> InBudget(g, c)]
  <2> DEFINE g == [c \in due |-> TRUE]
  <2>1. g = [c \in due |-> InBudget(g, c)]
    <3>1. \A c \in due : InBudget(g, c) = TRUE
      <4> TAKE c \in due
      <4>1. InBudget(g, c)
        BY <1>2
      <4>2. InBudget(g, c) \in BOOLEAN
        BY DEF InBudget
      <4> QED
        BY <4>1, <4>2
    <3> QED
      BY <3>1
  <2> QED
    BY <2>1
<1>4. taken = [c \in due |-> InBudget(taken, c)]
  BY <1>3
<1> HIDE DEF taken
<1>5. \A c \in due : taken[c]
  BY <1>2, <1>4
<1> QED
  BY <1>1, <1>5

-----------------------------------------------------------------------------
(* The packets that are on their way between canonical peers *)

(* Max of numbers up to a bound. *)
LEMMA MaxOfBounded ==
  ASSUME NEW b \in Nat, NEW S \in SUBSET (0 .. b), S # {}
  PROVE  Max(S) \in S /\ \A y \in S : y <= Max(S)
<1> DEFINE below == {b - x : x \in S}
<1>a. ASSUME NEW x \in S
      PROVE  x \in Nat /\ x <= b /\ x \in Int /\ b - x \in Nat
  <2>1. x \in 0 .. b
    OBVIOUS
  <2> QED
    BY <2>1
<1>1. below \in SUBSET Nat /\ below # {}
  BY <1>a
<1>2. PICK k \in below : \A i \in below : k <= i
  <2> HIDE DEF below
  <2> QED
    BY <1>1, LeastElement
<1>3. PICK m \in S : k = b - m
  OBVIOUS
<1>4. \A y \in S : m >= y
  <2> TAKE y \in S
  <2>1. b - m <= b - y /\ m \in Int /\ y \in Int
    <3>1. b - y \in below
      OBVIOUS
    <3> HIDE DEF below
    <3>2. k <= b - y
      BY <1>2, <3>1
    <3> QED
      BY <1>3, <1>a, <3>2
  <2>2. m \in Int
    BY <1>3, <1>a
  <2> QED
    BY <2>1, <2>2
<1>5. \E x \in S : \A y \in S : x >= y
  BY <1>4
<1>6. Max(S) \in S /\ \A y \in S : Max(S) >= y
  BY <1>5 DEF Max
<1>7. \A y \in S : y \in Int /\ Max(S) \in Int
  BY <1>6, <1>a
<1> QED
  BY <1>6, <1>7

(* No copy waits longer than the longest delay. *)
LEMMA ScheduledInTime ==
  /\ MaxDelay \in Nat
  /\ \A now \in Nat, d \in CopyDraws :
       /\ ScheduledFor(now, d) \in Nat
       /\ ScheduledFor(now, d) <= now + MaxDelay
       /\ now <= LastTick => now <= ScheduledFor(now, d)
<1> DEFINE ranks == {0} \union RankDraws
           top == Max(ranks)
           high == Jitter + 2
           most == Max({2, high})
<1>1. Latency \in Nat /\ Jitter \in Nat /\ LastTick \in Nat
  BY TransportAssumption
<1>2. most \in Nat
  <2>1. high \in Nat
    BY <1>1
  <2> HIDE DEF high
  <2>2. most = IF 2 <= high THEN high ELSE 2
    BY <2>1 DEF Max
  <2> QED
    BY <2>1, <2>2
<1>3. RankDraws = UNION {IF reordered THEN 1 .. most ELSE {0} : reordered \in Chance(ReorderPercent)}
  BY DEF RankDraws
<1> HIDE DEF most
<1>4. ranks \in SUBSET (0 .. most) /\ ranks # {}
  <2>1. 1 .. most \in SUBSET (0 .. most) /\ {0} \in SUBSET (0 .. most)
    BY <1>2
  <2> QED
    BY <1>3, <2>1
<1>5. top \in Nat /\ (\A y \in RankDraws : y \in Nat /\ y <= top)
  <2> HIDE DEF ranks
  <2>1. top \in ranks /\ \A y \in ranks : y <= top
    BY <1>2, <1>4, MaxOfBounded
  <2> QED
    BY <1>4, <2>1 DEF ranks
<1>6. MaxDelay = Latency + Jitter + top
  BY DEF MaxDelay
<1> HIDE DEF top
<1>7. ASSUME NEW now \in Nat, NEW d \in CopyDraws
      PROVE  /\ ScheduledFor(now, d) \in Nat
             /\ ScheduledFor(now, d) <= now + (Latency + Jitter + top)
             /\ now <= LastTick => now <= ScheduledFor(now, d)
  <2> DEFINE wait == Latency + d.jitter - Jitter
             rank == d.rank
             delay == Max({0, wait})
             until == now + (delay + rank)
  <2>1. d.jitter \in 0 .. 2 * Jitter /\ rank \in RankDraws
    BY DEF CopyDraws
  <2>2. wait \in Int /\ wait <= Latency + Jitter
    <3> DEFINE j == d.jitter
    <3>1. j \in Nat /\ j <= 2 * Jitter
      BY <1>1, <2>1
    <3> HIDE DEF j
    <3>2. Latency + j - Jitter \in Int /\ Latency + j - Jitter <= Latency + Jitter
      BY <1>1, <3>1
    <3> QED
      BY <3>2 DEF j
  <2>3. rank \in Nat /\ rank <= top
    BY <1>5, <2>1
  <2>4. ScheduledFor(now, d) = Min({until, LastTick})
    BY DEF ScheduledFor, Delay
  <2> HIDE DEF wait, rank
  <2>5. delay = IF 0 <= wait THEN wait ELSE 0
    BY <2>2 DEF Max
  <2>6. delay \in Nat /\ delay <= Latency + Jitter
    <3> HIDE DEF delay
    <3> QED
      BY <1>1, <2>2, <2>5
  <2> HIDE DEF delay
  <2>7. until \in Nat /\ now <= until /\ until <= now + (Latency + Jitter + top)
    BY <1>1, <1>5, <2>3, <2>6
  <2> HIDE DEF until
  <2>8. Min({until, LastTick}) = IF until <= LastTick THEN until ELSE LastTick
    BY <1>1, <2>7 DEF Min
  <2> QED
    BY <1>1, <1>5, <2>4, <2>7, <2>8
<1> QED
  BY <1>1, <1>5, <1>6, <1>7

(* An input is sent again as long as it is one of the last ones. *)
Timely(d, now) ==
  \A i \in DOMAIN d.inputs :
    \/ now + 1 <= d.inputs[i].frame + Redundancy
    \/ FrameCount <= d.inputs[i].frame + Redundancy

(* A copy in the queue. *)
Mail(c, g) ==
  /\ Truthful(c.packet, g)
  /\ Timely(c.packet, c.enqueued)
  /\ c.size = c.packet.size
  /\ c.enqueued \in Nat
  /\ c.scheduled <= c.enqueued + MaxDelay

(* n bounds the copies that were made since the game began: four a tick.   *)
(* So the ordinal of a copy tells when it was made.                        *)
Post(t, g, now, n) ==
  \A c \in t.queue :
    /\ Mail(c, g)
    /\ t.ordinal + 4 * c.enqueued <= c.ordinal + n
    /\ InTime => now <= c.scheduled

(* The game goes on, and copies leave. *)
LEMMA PostOn ==
  ASSUME NEW g, IsGame(g), NEW more, Continues(more, g), NEW t, NEW now, NEW n, Post(t, g, now, n)
  PROVE  Post(t, more, now, n)
BY TruthfulOn DEF Post, Mail

(* Copies leave, and others may follow. *)
LEMMA PostKept ==
  ASSUME NEW g, NEW t, InOrder(t), NEW now, NEW n \in Nat, Post(t, g, now, n),
         NEW u, u.queue \subseteq t.queue, u.ordinal = t.ordinal, NEW k \in Nat
  PROVE  Post(u, g, now, n + k)
<1> SUFFICES ASSUME NEW c \in u.queue
             PROVE  u.ordinal + 4 * c.enqueued <= c.ordinal + (n + k)
  BY DEF Post
<1> DEFINE x == t.ordinal
           y == c.ordinal
           e == c.enqueued
<1>1. x \in Nat /\ y \in Nat /\ e \in Nat /\ x + 4 * e <= y + n
  BY DEF InOrder, Waits, Post, Mail
<1> HIDE DEF x, y, e
<1>2. x + 4 * e <= y + (n + k)
  BY <1>1
<1> QED
  BY <1>2 DEF x, y, e

(* The copies of a packet. *)
LEMMA EnqueuePosts ==
  ASSUME NEW g, NEW t, InOrder(t), NEW now \in Nat, now <= LastTick,
         NEW n \in Nat, 4 * now <= n, Post(t, g, now, n),
         NEW packet, Truthful(packet, g), Timely(packet, now), NEW draw \in Draws
  PROVE  Post(Enqueue(t, packet, now, draw), g, now, n + 2)
<1> DEFINE copies == IF draw.duplicate THEN 1 .. 2 ELSE {1}
           Copy(i) == Scheduled(packet, now, draw.copies[i], t.ordinal + i - 1, i = 2)
           added == {Copy(i) : i \in copies}
           u == Enqueue(t, packet, now, draw)
<1>1. t.ordinal \in Nat
  BY DEF InOrder
<1>2. copies \subseteq 1 .. 2 /\ (copies = {1} \/ copies = {1, 2})
  OBVIOUS
<1>3. Cardinality(copies) \in 1 .. 2
  <2>1. IsFiniteSet({1}) /\ Cardinality({1}) = 1
    BY FS_Singleton
  <2>2. Cardinality({1, 2}) = 2
    <3>1. {1, 2} = {1} \union {2} /\ 2 \notin {1}
      OBVIOUS
    <3> QED
      BY <2>1, <3>1, FS_AddElement
  <2> HIDE DEF copies
  <2> QED
    BY <1>2, <2>1, <2>2
<1>4. /\ u.queue = t.queue \union added
      /\ u.ordinal = t.ordinal + Cardinality(copies)
  BY DEF Enqueue, InOrder, TransportFields
<1> HIDE DEF copies, u
<1>5. ASSUME NEW i \in copies
      PROVE  /\ Mail(Copy(i), g)
             /\ u.ordinal + 4 * Copy(i).enqueued <= Copy(i).ordinal + (n + 2)
             /\ now <= Copy(i).scheduled
  <2> DEFINE d == draw.copies[i]
             at == ScheduledFor(now, d)
             c == Copy(i)
  <2>1. i \in 1 .. 2 /\ d \in CopyDraws
    BY <1>2 DEF Draws
  <2>2. at <= now + MaxDelay /\ now <= at
    BY <2>1, ScheduledInTime
  <2>3. /\ c.packet = packet /\ c.size = packet.size /\ c.enqueued = now
        /\ c.scheduled = at /\ c.ordinal = t.ordinal + i - 1
    BY DEF Scheduled
  <2> HIDE DEF c, at, d
  <2>4. Mail(c, g)
    BY <2>2, <2>3 DEF Mail
  <2>5. u.ordinal + 4 * now <= t.ordinal + i - 1 + (n + 2)
    <3> DEFINE x == t.ordinal
               m == Cardinality(copies)
    <3>1. x \in Nat /\ m \in 1 .. 2 /\ u.ordinal = x + m
      BY <1>1, <1>3, <1>4
    <3> HIDE DEF x, m
    <3>2. x + m + 4 * now <= x + i - 1 + (n + 2)
      BY <2>1, <3>1
    <3> QED
      BY <3>1, <3>2 DEF x
  <2>6. /\ Mail(c, g) /\ u.ordinal + 4 * c.enqueued <= c.ordinal + (n + 2)
        /\ now <= c.scheduled
    BY <2>2, <2>3, <2>4, <2>5
  <2> QED
    BY <2>6 DEF c
<1> HIDE DEF Copy
<1>6. ASSUME NEW c \in t.queue
      PROVE  u.ordinal + 4 * c.enqueued <= c.ordinal + (n + 2)
  <2> DEFINE x == t.ordinal
             y == c.ordinal
             e == c.enqueued
             m == Cardinality(copies)
  <2>1. x \in Nat /\ y \in Nat /\ e \in Nat /\ x + 4 * e <= y + n
    BY <1>1 DEF InOrder, Waits, Post, Mail
  <2>2. u.ordinal = x + m /\ m \in 1 .. 2
    BY <1>3, <1>4
  <2> HIDE DEF x, y, e, m
  <2>3. x + m + 4 * e <= y + (n + 2)
    BY <2>1, <2>2
  <2> QED
    BY <2>2, <2>3 DEF y, e
<1>7. Post(u, g, now, n + 2)
  BY <1>4, <1>5, <1>6 DEF Post
<1> QED
  BY <1>7 DEF u

(* A packet of the game is sent, or the queue is full. *)
LEMMA SendPosts ==
  ASSUME ~ InvalidPercent, NEW g, NEW t, InOrder(t), NEW now \in Nat, now <= LastTick,
         NEW n \in Nat, 4 * now <= n, Post(t, g, now, n),
         NEW packet, Truthful(packet, g), Timely(packet, now), NEW draw \in Draws,
         NEW r, r = Send(t, packet, now, draw)
  PROVE  /\ Post(r.transport, g, now, n + 2)
         /\ r.error \in {"ok", "queue_overflow"}
<1> DEFINE counted == [t EXCEPT !.metrics.sent = @ + 1]
           drawn == [counted EXCEPT !.burst = Burst(t, draw)]
           lost == [drawn EXCEPT !.metrics.loss = @ + 1]
           copies == IF draw.duplicate THEN 2 ELSE 1
           bytes == packet.size * copies
           room == EnsureCapacity(drawn, copies, bytes)
<1>1. /\ DOMAIN counted = TransportFields /\ counted.ordinal = t.ordinal
      /\ counted.queue = t.queue
  BY DEF InOrder, TransportFields
<1> HIDE DEF counted
<1>2. /\ DOMAIN drawn = TransportFields /\ drawn.ordinal = t.ordinal /\ drawn.queue = t.queue
  BY <1>1 DEF TransportFields
<1> HIDE DEF drawn
<1>3. /\ DOMAIN lost = TransportFields /\ lost.ordinal = t.ordinal /\ lost.queue = t.queue
  BY <1>2 DEF TransportFields
<1> HIDE DEF lost
<1>4. ~ packet.size > MaxPacketBytes
  <2>1. MaxPacketBytes = LargestPacket
    BY LiveAssumption
  <2>2. ~ packet.size > LargestPacket
    BY DEF Truthful, DecodeError
  <2> QED
    BY <2>1, <2>2
<1>5. r = IF Lost(t, draw) THEN SendResult(lost, "ok")
          ELSE IF room.error # "ok" THEN room
          ELSE SendResult(Enqueue(room.transport, packet, now, draw), "ok")
  BY <1>4 DEF Send, counted, drawn, lost
<1> HIDE DEF copies, bytes
<1>6. /\ room.transport.queue \subseteq t.queue /\ room.transport.ordinal = t.ordinal
      /\ InOrder(room.transport) /\ room.error \in {"ok", "queue_overflow"}
  <2>1. InOrder(drawn)
    BY <1>2, RemovalInOrder
  <2>2. ASSUME NEW k
        PROVE  LET w == WithoutOldest(drawn, k)
               IN  w.queue \subseteq t.queue /\ w.ordinal = t.ordinal
    BY <1>2 DEF WithoutOldest, TransportFields
  <2>3. \/ room.transport = drawn
        \/ \E k : room.transport = WithoutOldest(drawn, k)
    BY DEF EnsureCapacity, SendResult
  <2>4. room.error \in {"ok", "queue_overflow"}
    BY DEF EnsureCapacity, SendResult
  <2>5. InOrder(room.transport)
    BY <2>1, RoomInOrder
  <2> HIDE DEF room
  <2> QED
    BY <1>2, <2>2, <2>3, <2>4, <2>5
<1> HIDE DEF room
<1>7. Post(lost, g, now, n + 2) /\ Post(room.transport, g, now, n + 2)
  BY <1>3, <1>6, PostKept
<1>8. Post(Enqueue(room.transport, packet, now, draw), g, now, n + 2)
  <2>1. Post(room.transport, g, now, n + 0)
    BY <1>6, PostKept
  <2>2. Post(room.transport, g, now, n)
    BY <2>1
  <2> QED
    BY <1>6, <2>2, EnqueuePosts
<1> QED
  BY <1>5, <1>6, <1>7, <1>8 DEF SendResult

(* All that is due is taken, and no copy that is taken comes too late. *)
LEMMA DeliverPosts ==
  ASSUME NEW g, NEW t, InOrder(t), NEW now \in Nat, Post(t, g, now, 4 * (now + 1))
  PROVE  /\ Post(Deliver(t, now), g, now + 1, 4 * (now + 1))
         /\ \A c \in TakenFrom(t, now) :
              /\ Truthful(c.packet, g)
              /\ InTime => \A at \in Nat : at <= now /\ at <= FrameCount => Recent(c.packet, at)
<1> DEFINE due == {c \in t.queue \ Expired(t, now) : c.scheduled <= now}
           taken == TakenFrom(t, now)
           u == Deliver(t, now)
           n == 4 * (now + 1)
<1>1. MaxDelay \in Nat
  BY ScheduledInTime
<1>2. ASSUME NEW c \in t.queue
      PROVE  /\ Mail(c, g) /\ c.enqueued \in Nat /\ c.scheduled \in Nat /\ c.ordinal \in Nat
             /\ c.ordinal < t.ordinal /\ t.ordinal + 4 * c.enqueued <= c.ordinal + n
             /\ InTime => now <= c.scheduled
             /\ c.scheduled <= c.enqueued + MaxDelay
             /\ c.size \in Nat /\ c.size <= LargestPacket
  <2>1. /\ Mail(c, g) /\ t.ordinal + 4 * c.enqueued <= c.ordinal + n
        /\ InTime => now <= c.scheduled
    BY DEF Post
  <2>2. c.size \in Nat /\ c.size <= LargestPacket
    <3>1. c.size = c.packet.size /\ c.size \in Nat /\ ~ c.packet.size > LargestPacket
      BY <2>1 DEF Mail, Truthful, DecodeError
    <3> QED
      BY <3>1 DEF LargestPacket
  <2> QED
    BY <2>1, <2>2 DEF InOrder, Waits, Mail
<1>3. taken \subseteq due
  BY DEF TakenFrom
<1>4. /\ u.queue = t.queue \ (Expired(t, now) \union taken) /\ u.ordinal = t.ordinal
      /\ t.ordinal \in Nat
  BY DEF Deliver, InOrder, TransportFields
<1>5. ASSUME InTime
      PROVE  taken = due
  <2> DEFINE m == 4 * (MaxDelay + 1)
             Back(c) == t.ordinal - c.ordinal
             f == [c \in due |-> Back(c)]
  <2>1. m \in Nat
    BY <1>1
  <2>2. ASSUME NEW c \in due
        PROVE  Back(c) \in 1 .. m
    <3> DEFINE x == t.ordinal
               y == c.ordinal
               e == c.enqueued
               s == c.scheduled
    <3>1. /\ x \in Nat /\ y \in Nat /\ e \in Nat /\ s \in Nat /\ y < x /\ x + 4 * e <= y + n
          /\ now <= s /\ s <= e + MaxDelay
      BY <1>2, <1>4, <1>5
    <3> HIDE DEF x, y, e, s
    <3>2. now <= e + MaxDelay
      BY <1>1, <3>1
    <3>3. x - y >= 1 /\ x - y <= 4 * (MaxDelay + 1) /\ x - y \in Int
      BY <1>1, <3>1, <3>2
    <3> HIDE DEF m
    <3>4. x - y \in 1 .. m
      BY <2>1, <3>3 DEF m
    <3> QED
      BY <3>4 DEF x, y
  <2>3. f \in Injection(due, 1 .. m)
    <3> HIDE DEF m
    <3>1. f \in [due -> 1 .. m]
      BY <2>2
    <3>2. ASSUME NEW c \in due, NEW d \in due, f[c] = f[d]
          PROVE  c = d
      <4>1. t.ordinal - c.ordinal = t.ordinal - d.ordinal
        BY <3>2
      <4>2. c.ordinal = d.ordinal
        BY <1>2, <1>4, <4>1
      <4> QED
        BY <4>2 DEF InOrder, Numbered
    <3> HIDE DEF f
    <3> QED
      BY <3>1, <3>2 DEF Injection, IsInjective
  <2> HIDE DEF f
  <2>4. IsFiniteSet(due) /\ Cardinality(due) <= m
    <3> HIDE DEF m, due
    <3>1. 1 \in Int /\ m \in Int /\ m \in Nat
      BY <2>1
    <3>2. IsFiniteSet(1 .. m) /\ Cardinality(1 .. m) = m
      <4>1. IsFiniteSet(1 .. m) /\ Cardinality(1 .. m) = IF 1 > m THEN 0 ELSE m - 1 + 1
        BY <3>1, FS_Interval
      <4>2. (IF 1 > m THEN 0 ELSE m - 1 + 1) = m
        BY <3>1
      <4> QED
        BY <4>1, <4>2
    <3> QED
      BY <2>3, <3>2, FS_Injection
  <2>5. Packed(due) /\ (\A c \in due : ~ Before(c, c))
    <3>1. \A c \in due : c.size \in Nat /\ c.size <= LargestPacket
      BY <1>2
    <3>2. \A c \in due : ~ Before(c, c)
      <4>1. \A c \in due : c.scheduled \in Nat /\ c.rank \in Nat /\ c.ordinal \in Nat
        BY DEF InOrder, Waits
      <4> QED
        BY <4>1 DEF Before
    <3> QED
      BY <2>4, <3>1, <3>2 DEF Packed
  <2>6. LargestPacket * Cardinality(due) <= Bandwidth
    <3> DEFINE k == Cardinality(due)
    <3>1. 4 * LargestPacket * (MaxDelay + 1) <= Bandwidth /\ Bandwidth \in Nat
      BY <1>5, TransportAssumption DEF InTime
    <3>2. k \in Nat /\ k <= m
      BY <2>4, FS_CardinalityType
    <3> HIDE DEF k
    <3>3. LargestPacket * k <= Bandwidth
      BY <1>1, <3>1, <3>2 DEF LargestPacket
    <3> QED
      BY <3>3 DEF k
  <2> HIDE DEF m
  <2> QED
    BY <2>5, <2>6, AllDueTaken
<1>6. ASSUME NEW c \in u.queue, InTime
      PROVE  now + 1 <= c.scheduled
  <2>1. c \in t.queue /\ ~ c.scheduled <= now
    BY <1>4, <1>5, <1>6
  <2> QED
    BY <1>2, <2>1
<1>7. Post(u, g, now + 1, n)
  <2> HIDE DEF u, n
  <2> QED
    BY <1>2, <1>4, <1>6 DEF Post
<1>8. ASSUME NEW c \in taken, InTime, NEW at \in Nat, at <= now, at <= FrameCount
      PROVE  Recent(c.packet, at)
  <2> SUFFICES ASSUME NEW i \in DOMAIN c.packet.inputs
               PROVE  at <= c.packet.inputs[i].frame + MaxRollback
    BY DEF Recent
  <2> DEFINE f == c.packet.inputs[i].frame
             e == c.enqueued
             s == c.scheduled
  <2>1. /\ c \in t.queue /\ now <= s /\ s <= e + MaxDelay /\ e \in Nat /\ s \in Nat
    BY <1>2, <1>3, <1>8
  <2>2. f \in Nat /\ (e + 1 <= f + Redundancy \/ FrameCount <= f + Redundancy)
    <3>1. Mail(c, g)
      BY <1>2, <2>1
    <3>2. f \in FrameNumbers
      BY <3>1 DEF Mail, Truthful, IsInput
    <3> QED
      BY <3>1, <3>2, ModulusAssumption DEF Mail, Timely, FrameNumbers
  <2>3. /\ Redundancy \in Nat /\ MaxRollback \in Nat /\ FrameCount \in Nat
        /\ Redundancy <= MaxRollback /\ Redundancy + MaxDelay <= MaxRollback + 1
    BY <1>8, CodecAssumption, SessionAssumption, LiveAssumption DEF InTime
  <2> HIDE DEF f, e, s
  <2>4. at <= f + MaxRollback
    <3>1. CASE e + 1 <= f + Redundancy
      <4>1. at + 1 <= f + Redundancy + MaxDelay
        BY <1>1, <1>8, <2>1, <2>2, <2>3, <3>1
      <4> QED
        BY <1>1, <1>8, <2>2, <2>3, <4>1
    <3>2. CASE FrameCount <= f + Redundancy
      BY <1>8, <2>2, <2>3, <3>2
    <3> QED
      BY <2>2, <3>1, <3>2
  <2> QED
    BY <2>4 DEF f
<1>9. \A c \in taken : Truthful(c.packet, g)
  BY <1>2, <1>3 DEF Mail
<1> HIDE DEF u, n, taken
<1> QED
  BY <1>7, <1>8, <1>9 DEF u, n, taken

-----------------------------------------------------------------------------
(* A scenario of canonical peers *)

(* What the checkpoints of the replay say is of the game. *)
OfGame(checkpoints, g) ==
  \A c \in checkpoints :
    /\ c.frame \in Boundaries
    /\ c.frame <= g.frame
    /\ c.hash = CanonicalHash(Prefix(g, c.frame))

(* Both peers have played frame at of the game g that is recorded, and the *)
(* packets on their way are about it.                                      *)
Agrees(l, g, at, now, n) ==
  /\ l.direct = g
  /\ Playable(g)
  /\ \A p \in Players : /\ Plays(p, l.peer[p], g)
                        /\ l.peer[p].world.frame = at
                        /\ Records(l.history[p], p, g)
  /\ OfGame(l.checkpoints, g)
  /\ l.divergent = {}
  /\ Post(l.transport, g, now, n)

Excusable == {"ok", "timeout", "queue_overflow"}
               \union (IF InTime THEN {} ELSE {"rollback_window_exceeded"})

(* As long as nothing has failed, they agree. *)
Honest(l, g, at, now, n) ==
  /\ l.divergent = {}
  /\ l.failure \in Excusable
  /\ l.failure = "ok" => Agrees(l, g, at, now, n)

(* The game is the world that its inputs lead to. *)
LEMMA GamePrefix ==
  ASSUME NEW g, IsGame(g)
  PROVE  Prefix(g, g.frame) = g
<1>1. g \in Worlds /\ g.frame \in FrameNumbers /\ g.frame \in Boundaries
  BY BoundariesFit DEF IsGame
<1>2. ASSUME NEW f \in FrameNumbers
      PROVE  IF Position(f) < Position(g.frame) THEN g.inputs[f] = g.inputs[f]
             ELSE g.inputs[f] = NoPair /\ g.inputs[f] = NoPair
  BY <1>1, PositionIsFrame DEF IsGame
<1> QED
  BY <1>1, <1>2, PrefixWhole

(* A frame is recorded: the game goes on. *)
LEMMA RecordAgrees ==
  ASSUME SimulationIsTotal, NEW l, Whole(l), Ready(l), l.failure = "ok",
         NEW g, NEW at, NEW now, NEW n, Agrees(l, g, at, now, n), g.frame < FrameCount,
         NEW pair \in [Players -> Buttons \ InvalidButtons],
         NEW u, u = RecordFrame(l, pair)
  PROVE  \E more : /\ u.failure = "ok" /\ Agrees(u, more, at, now, n)
                   /\ more.frame = g.frame + 1 /\ more.inputs[g.frame] = pair
<1> DEFINE more == SimulateFrame(l.direct, pair)
           history == [p \in Players |-> Append(l.history[p], pair[p])]
           kept == IF more.frame % CheckpointEvery = 0 \/ more.frame = FrameCount
                   THEN l.checkpoints \union {[frame |-> more.frame, hash |-> CanonicalHash(more)]}
                   ELSE l.checkpoints
           recorded == [l EXCEPT !.history = history]
           played == [recorded EXCEPT !.direct = more, !.checkpoints = kept]
<1>1. /\ l.direct = g /\ Playable(g) /\ IsGame(g) /\ pair \in Pairs
      /\ g.frame \in Boundaries /\ g.frame \in FrameNumbers /\ g.frame \in Nat
  <2>1. pair \in Pairs
    BY DEF Pairs
  <2>2. l.direct = g /\ Playable(g) /\ IsGame(g) /\ g.frame \in Boundaries
    BY DEF Agrees, Playable, IsGame
  <2> QED
    BY <2>1, <2>2, BoundariesFit
<1>2. more = SimulateFrame(g, pair)
  BY <1>1
<1> HIDE DEF more
<1>3. /\ Continues(more, g) /\ more.frame = g.frame + 1 /\ more.inputs[g.frame] = pair
      /\ IsGame(more)
  BY <1>1, <1>2, NextContinues DEF Continues
<1>4. /\ DOMAIN recorded = LiveFields /\ recorded.checkpoints = l.checkpoints
      /\ recorded.failure = "ok" /\ recorded.peer = l.peer /\ recorded.divergent = l.divergent
      /\ recorded.history = history /\ recorded.transport = l.transport
  <2> HIDE DEF history
  <2> QED
    BY DEF Whole, LiveFields
<1>5. recorded = [l EXCEPT !.history = [p \in Players |-> Append(@[p], pair[p])]]
  OBVIOUS
<1> HIDE DEF recorded
<1>6. u = played
  <2>1. [recorded EXCEPT
          !.direct = more,
          !.checkpoints =
             IF more.frame % CheckpointEvery = 0 \/ more.frame = FrameCount
             THEN @ \union {[frame |-> more.frame, hash |-> CanonicalHash(more)]} ELSE @]
        = played
    BY <1>4
  <2>2. ~ SimulateFails(l.direct, pair)
    BY DEF SimulationIsTotal
  <2> HIDE DEF played
  <2> QED
    BY <1>5, <2>1, <2>2 DEF RecordFrame, more
<1>7. /\ u.direct = more /\ u.checkpoints = kept /\ u.failure = "ok" /\ u.peer = l.peer
      /\ u.divergent = l.divergent /\ u.history = history /\ u.transport = l.transport
  <2> HIDE DEF kept, history
  <2> QED
    BY <1>4, <1>6 DEF LiveFields
<1>8. Playable(more)
  <2> SUFFICES ASSUME NEW f \in FrameNumbers, f < more.frame, NEW p \in Players
               PROVE  more.inputs[f][p] \in Buttons \ InvalidButtons
    BY <1>3 DEF Playable
  <2>1. CASE f < g.frame
    BY <1>1, <1>3, <2>1 DEF Playable, Continues
  <2>2. CASE f = g.frame
    BY <1>3, <2>2
  <2>3. f < g.frame \/ f = g.frame
    BY <1>1, <1>3, ModulusAssumption DEF FrameNumbers
  <2> QED
    BY <2>1, <2>2, <2>3
<1>9. ASSUME NEW p \in Players
      PROVE  /\ Plays(p, u.peer[p], more) /\ u.peer[p].world.frame = at
             /\ Records(u.history[p], p, more)
  <2>1. /\ Plays(p, l.peer[p], g) /\ l.peer[p].world.frame = at
        /\ Records(l.history[p], p, g)
    BY DEF Agrees
  <2>2. Plays(p, u.peer[p], more) /\ u.peer[p].world.frame = at
    BY <1>1, <1>3, <1>7, <2>1, PlaysOn
  <2> DEFINE h == l.history[p]
             x == pair[p]
             e == Append(h, x)
  <2>3. u.history[p] = e
    BY <1>7
  <2>4. IsList(h) /\ Len(h) = g.frame /\ \A k \in 1 .. Len(h) : h[k] = g.inputs[k - 1][p]
    BY <2>1 DEF Records
  <2>5. x = more.inputs[g.frame][p]
    BY <1>3
  <2> HIDE DEF h, x
  <2>6. IsList(e)
    BY <2>4, AppendedIsList
  <2>7. PICK S : h \in Seq(S)
    BY <2>4 DEF IsList
  <2>8. /\ Len(e) = Len(h) + 1
        /\ \A k \in 1 .. Len(h) : e[k] = h[k]
        /\ e[Len(h) + 1] = x
    BY <2>7
  <2> HIDE DEF e
  <2>9. ASSUME NEW k \in 1 .. Len(e)
        PROVE  e[k] = more.inputs[k - 1][p]
    <3>1. CASE k = Len(e)
      <4>1. k - 1 = g.frame
        BY <1>1, <2>4, <2>8, <3>1
      <4> QED
        BY <2>4, <2>5, <2>8, <3>1, <4>1
    <3>2. CASE k # Len(e)
      <4>1. k \in 1 .. Len(h) /\ k - 1 \in Nat /\ k - 1 < g.frame
        BY <1>1, <2>4, <2>8, <3>2
      <4>2. k - 1 \in FrameNumbers
        BY <1>1, <4>1, ModulusAssumption DEF FrameNumbers
      <4> QED
        BY <1>3, <2>4, <2>8, <4>1, <4>2 DEF Continues
    <3> QED
      BY <3>1, <3>2
  <2>10. Records(e, p, more)
    BY <1>3, <2>4, <2>6, <2>8, <2>9 DEF Records
  <2> QED
    BY <2>2, <2>3, <2>10
<1>10. OfGame(u.checkpoints, more)
  <2>1. more.frame \in Boundaries /\ more.frame \in Nat /\ g.frame <= more.frame
    BY <1>1, <1>3 DEF IsGame
  <2>2. Prefix(more, more.frame) = more
    BY <1>3, GamePrefix
  <2> DEFINE last == [frame |-> more.frame, hash |-> CanonicalHash(more)]
  <2>3. last.frame = more.frame /\ last.hash = CanonicalHash(Prefix(more, more.frame))
    BY <2>2
  <2>4. u.checkpoints \subseteq l.checkpoints \union {last}
    BY <1>7
  <2> HIDE DEF last
  <2>5. ASSUME NEW c \in l.checkpoints
        PROVE  /\ c.frame \in Boundaries /\ c.frame <= more.frame
               /\ c.hash = CanonicalHash(Prefix(more, c.frame))
    <3>1. /\ c.frame \in Boundaries /\ c.frame <= g.frame
          /\ c.hash = CanonicalHash(Prefix(g, c.frame))
      BY DEF Agrees, OfGame
    <3>2. c.frame \in FrameNumbers /\ c.frame \in Nat
      BY <3>1, BoundariesFit
    <3>3. Prefix(more, c.frame) = Prefix(g, c.frame)
      BY <1>1, <1>3, <3>1, <3>2, PrefixContinues
    <3> QED
      BY <1>1, <2>1, <3>1, <3>2, <3>3
  <2>6. last.frame \in Boundaries /\ last.frame <= more.frame
    BY <2>1, <2>3
  <2> QED
    BY <2>3, <2>4, <2>5, <2>6 DEF OfGame
<1>11. u.divergent = {} /\ Post(u.transport, more, now, n)
  BY <1>1, <1>3, <1>7, PostOn DEF Agrees
<1>12. Agrees(u, more, at, now, n)
  BY <1>7, <1>8, <1>9, <1>10, <1>11 DEF Agrees
<1> QED
  BY <1>3, <1>7, <1>12

(* The packets of a tick are of the game, and only a full queue refuses    *)
(* one of them.                                                            *)
LEMMA SendBothAgrees ==
  ASSUME faulty = {}, ~ InvalidPercent, NEW l, Whole(l), Ready(l), l.failure = "ok",
         l.tick \in Nat, l.tick <= LastTick,
         NEW g, NEW at, Agrees(l, g, at, l.tick, 4 * l.tick),
         g.frame = l.tick + 1 \/ g.frame = FrameCount, NEW u \in SendBoth(l)
  PROVE  /\ u.failure \in {"ok", "queue_overflow"}
         /\ Agrees(u, g, at, l.tick, 4 * (l.tick + 1))
<1> DEFINE packetA == MakePacket(l, "a")
           packetB == MakePacket(l, "b")
           sequence == (l.sequence + 1) % SequenceModulus
           After(t, e) == [l EXCEPT !.sequence = sequence, !.transport = t, !.failure = e]
           now == l.tick
           Proper(packet) == /\ EncodeError(packet) = "ok" /\ Truthful(Encoded(packet), g)
                             /\ Timely(Encoded(packet), now)
           Posted(t, k) == InOrder(t) /\ Post(t, g, now, k)
<1>1. ASSUME NEW p \in Players, NEW packet, packet = MakePacket(l, p)
      PROVE  Proper(packet)
  <2>1. /\ Playable(g) /\ Plays(p, l.peer[p], g) /\ InGame(l.peer[p])
        /\ Records(l.history[p], p, g)
    BY DEF Agrees, Ready, Clean
  <2> DEFINE d == Encoded(packet)
  <2>2. /\ EncodeError(packet) = "ok" /\ Truthful(d, g)
        /\ \A i \in DOMAIN d.inputs : g.frame <= d.inputs[i].frame + Redundancy
    BY <1>1, <2>1, MadeTruthful
  <2> HIDE DEF d
  <2>3. Timely(d, now)
    BY <2>2 DEF Timely
  <2> QED
    BY <2>2, <2>3 DEF d
<1>2. Proper(packetA) /\ Proper(packetB)
  <2>1. "a" \in Players /\ "b" \in Players
    BY DEF Players
  <2> HIDE DEF Proper
  <2> QED
    BY <1>1, <2>1
<1> HIDE DEF packetA, packetB
<1>3. ASSUME NEW t, NEW k \in Nat, 4 * now <= k, Posted(t, k), NEW packet, Proper(packet),
             NEW r \in SendPacket(t, packet, now)
      PROVE  Posted(r.transport, k + 2) /\ r.error \in {"ok", "queue_overflow"}
  <2>1. PICK draw \in Draws : r = Send(t, Encoded(packet), now, draw)
    BY <1>3 DEF SendPacket
  <2> DEFINE d == Encoded(packet)
  <2>2. Truthful(d, g) /\ Timely(d, now)
    BY <1>3
  <2>3. Carries(d)
    BY <2>2, BoundariesFit DEF Truthful, Carries, IsInput, IsHash
  <2>4. r = Send(t, d, now, draw)
    BY <2>1
  <2> HIDE DEF d
  <2>5. InOrder(r.transport)
    BY <1>3, <2>3, <2>4, SendInOrder
  <2>6. /\ Post(r.transport, g, now, k + 2)
        /\ r.error \in {"ok", "queue_overflow"}
    BY <1>3, <2>2, <2>4, SendPosts
  <2> QED
    BY <2>5, <2>6
<1>4. PICK first \in SendPacket(l.transport, packetA, now) :
        \E second \in SendPacket(first.transport, packetB, now) :
          u = After(second.transport, IF first.error # "ok" THEN first.error ELSE second.error)
  <2>1. u \in UNION {{After(second.transport,
                            IF first.error # "ok" THEN first.error ELSE second.error) :
                        second \in SendPacket(first.transport, packetB, now)} :
                     first \in SendPacket(l.transport, packetA, now)}
    BY DEF SendBoth, packetA, packetB
  <2> HIDE DEF After
  <2> QED
    BY <2>1
<1>5. PICK second \in SendPacket(first.transport, packetB, now) :
        u = After(second.transport, IF first.error # "ok" THEN first.error ELSE second.error)
  BY <1>4
<1> DEFINE t == second.transport
           e == IF first.error # "ok" THEN first.error ELSE second.error
           m == 4 * now
<1>6. m \in Nat /\ m + 2 \in Nat /\ 4 * now <= m /\ 4 * now <= m + 2 /\ m + 2 + 2 = 4 * (now + 1)
  <2> HIDE DEF now
  <2>1. now \in Nat
    BY DEF now
  <2> QED
    BY <2>1
<1>7. u = After(t, e)
  BY <1>5
<1>8. Posted(l.transport, m)
  BY DEF Agrees, Ready
<1> HIDE DEF Posted, Proper, m
<1>9. Posted(first.transport, m + 2) /\ first.error \in {"ok", "queue_overflow"}
  BY <1>2, <1>3, <1>6, <1>8
<1>10. Posted(t, m + 2 + 2) /\ second.error \in {"ok", "queue_overflow"}
  BY <1>2, <1>3, <1>6, <1>9
<1>11. e \in {"ok", "queue_overflow"}
  BY <1>9, <1>10
<1>12. Post(t, g, now, 4 * (now + 1))
  BY <1>6, <1>10 DEF Posted
<1> HIDE DEF t, e, sequence
<1>13. /\ u.peer = l.peer /\ u.divergent = l.divergent /\ u.history = l.history
       /\ u.transport = t /\ u.direct = l.direct /\ u.checkpoints = l.checkpoints
       /\ u.failure = e
  BY <1>7 DEF Whole, LiveFields
<1>14. Agrees(u, g, at, now, 4 * (now + 1))
  BY <1>12, <1>13 DEF Agrees
<1> QED
  BY <1>11, <1>13, <1>14

(* A packet of the game is delivered. *)
LEMMA DeliveryAgrees ==
  ASSUME SimulationIsTotal, RingsReach, faulty = {},
         NEW l, Whole(l), Ready(l), l.failure = "ok",
         NEW g, NEW at, NEW now, NEW n, Agrees(l, g, at, now, n),
         NEW datagram, Truthful(datagram, g), InTime => Recent(datagram, at)
  PROVE  Honest(ProcessDelivery(l, datagram), g, at, now, n)
<1> DEFINE packet == Decoded(datagram)
           p == OtherPlayer(packet.sender)
           seen == Observe(l.window[p], packet.sequence)
           windowed == [l EXCEPT !.window[p] = seen.window]
           ingested == IngestAll(l.peer[p], packet.inputs)
           flushed == FlushCorrections(ingested.session)
           kept == [windowed EXCEPT !.peer[p] = flushed.session]
           partly == [windowed EXCEPT !.peer[p] = ingested.session]
           frames == Divergent(p, flushed.session, packet.hashes)
           corrected == Reported(l, p, ingested.session, flushed.session)
           done == [kept EXCEPT !.corrected = corrected,
                                !.tracker[p] = ObserveDesync(@, frames),
                                !.divergent = @ \union frames]
           u == ProcessDelivery(l, datagram)
           s == l.peer[p]
<1>1. DecodeError(datagram) = "ok" /\ datagram.sender \in Players
  BY DEF Truthful
<1>2. /\ packet.inputs = datagram.inputs /\ packet.hashes = datagram.hashes
      /\ packet.sender = datagram.sender
  BY DEF Decoded
<1>3. p \in Players /\ p = OtherPlayer(datagram.sender)
  BY <1>1, <1>2, OpponentFacts
<1>4. u = IF DecodeError(datagram) # "ok" THEN Fail(l, DecodeError(datagram))
          ELSE IF seen.disposition \notin Accepting THEN windowed
          ELSE IF ingested.error # "ok" THEN Fail(partly, ingested.error)
          ELSE IF flushed.error # "ok" THEN Fail(kept, flushed.error)
          ELSE done
  BY DEF ProcessDelivery
<1>5. /\ IsGame(g) /\ Plays(p, s, g) /\ s.world.frame = at
  BY <1>3 DEF Agrees, Playable
<1> HIDE DEF s
<1>6. ingested = IngestAll(s, datagram.inputs)
  BY <1>2 DEF s
<1> HIDE DEF p, ingested
<1>7. /\ Plays(p, ingested.session, g) /\ ingested.session.world = s.world
      /\ ingested.error \in {"ok", "rollback_window_exceeded"}
      /\ InTime => ingested.error = "ok"
  <2>1. /\ Plays(p, ingested.session, g) /\ ingested.session.world = s.world
        /\ ingested.error \in {"ok", "rollback_window_exceeded"}
        /\ Recent(datagram, s.world.frame) => ingested.error = "ok"
    BY <1>3, <1>5, <1>6, PlaysIngestAll
  <2> QED
    BY <1>5, <2>1
<1> DEFINE i == ingested.session
<1>8. flushed = FlushCorrections(i)
  OBVIOUS
<1> HIDE DEF flushed
<1>9. /\ flushed.error = "ok" /\ Plays(p, flushed.session, g)
      /\ flushed.session.world.frame = at
  BY <1>3, <1>5, <1>7, <1>8, PlaysFlush
<1>10. frames = {}
  <2>1. \A k \in DOMAIN packet.hashes : IsHash(packet.hashes[k], g)
    BY <1>2 DEF Truthful
  <2> QED
    BY <1>3, <1>5, <1>9, <2>1, NothingDiverges
<1> HIDE DEF i, frames, corrected
<1>11. /\ DOMAIN windowed = LiveFields /\ windowed.peer = l.peer /\ windowed.direct = l.direct
       /\ windowed.history = l.history /\ windowed.checkpoints = l.checkpoints
       /\ windowed.divergent = l.divergent /\ windowed.transport = l.transport
       /\ windowed.failure = "ok"
  <2> HIDE DEF seen
  <2> QED
    BY DEF Whole, LiveFields
<1> HIDE DEF windowed
<1>12. l.divergent = {} /\ Agrees(windowed, g, at, now, n)
  BY <1>11 DEF Agrees
<1>13. CASE seen.disposition \notin Accepting
  <2>1. u = windowed
    BY <1>1, <1>4, <1>13
  <2> HIDE DEF u
  <2>2. Honest(u, g, at, now, n)
    BY <1>11, <1>12, <2>1 DEF Honest, Excusable
  <2> QED
    BY <2>2 DEF u
<1>14. CASE seen.disposition \in Accepting /\ ingested.error # "ok"
  <2> DEFINE e == ingested.error
  <2>1. u = Fail(partly, e)
    BY <1>1, <1>4, <1>14
  <2>2. e \in Excusable /\ e # "ok"
    BY <1>7, <1>14 DEF Excusable
  <2> HIDE DEF u, e
  <2>3. DOMAIN partly = LiveFields /\ partly.divergent = {}
    BY <1>11, <1>12 DEF LiveFields
  <2> HIDE DEF partly
  <2>4. u.divergent = {} /\ u.failure = e
    BY <2>1, <2>3 DEF Fail, LiveFields
  <2>5. Honest(u, g, at, now, n)
    BY <2>2, <2>4 DEF Honest
  <2> QED
    BY <2>5 DEF u
<1>15. CASE seen.disposition \in Accepting /\ ingested.error = "ok"
  <2>1. u = done
    BY <1>1, <1>4, <1>9, <1>15
  <2> DEFINE peer == [l.peer EXCEPT ![p] = flushed.session]
  <2>2. /\ DOMAIN kept = LiveFields /\ kept.peer = peer /\ kept.direct = l.direct
        /\ kept.history = l.history /\ kept.checkpoints = l.checkpoints
        /\ kept.divergent = l.divergent /\ kept.transport = l.transport
        /\ kept.failure = "ok"
    BY <1>11 DEF LiveFields
  <2> HIDE DEF kept, peer
  <2>3. /\ done.peer = peer /\ done.direct = l.direct
        /\ done.history = l.history /\ done.checkpoints = l.checkpoints
        /\ done.divergent = l.divergent \union frames /\ done.transport = l.transport
        /\ done.failure = "ok"
    BY <2>2 DEF LiveFields
  <2> HIDE DEF done
  <2>4. \A q \in Players : peer[q] = IF q = p THEN flushed.session ELSE l.peer[q]
    BY DEF peer, Whole
  <2>5. \A q \in Players : Plays(q, peer[q], g) /\ peer[q].world.frame = at
    BY <1>9, <2>4 DEF Agrees
  <2>6. done.divergent = {}
    BY <1>10, <1>12, <2>3
  <2>7. Agrees(done, g, at, now, n)
    BY <2>3, <2>5, <2>6 DEF Agrees
  <2>8. Honest(done, g, at, now, n)
    BY <2>3, <2>6, <2>7 DEF Honest, Excusable
  <2> HIDE DEF u
  <2>9. Honest(u, g, at, now, n)
    BY <2>1, <2>8
  <2> QED
    BY <2>9 DEF u
<1> QED
  BY <1>13, <1>14, <1>15

(* So are all packets of a tick. *)
LEMMA DeliveriesAgree ==
  ASSUME SimulationIsTotal, RingsReach, faulty = {},
         NEW l, NEW m, Goes(l, m), l.failure = "ok",
         NEW g, NEW at \in Nat, at <= l.tick, at <= FrameCount,
         Agrees(l, g, at, l.tick, 4 * (l.tick + 1))
  PROVE  Honest(Delivered(l), g, at, l.tick + 1, 4 * (l.tick + 1))
<1> DEFINE now == l.tick
           k == 4 * (now + 1)
           t == Deliver(l.transport, now)
           base == [l EXCEPT !.transport = t]
           deliveries == Deliverable(l.transport, now)
           u == Delivered(l)
           Fine(x) == Goes(x, m) /\ Honest(x, g, at, now + 1, k)
           Given(d) == Carries(d) /\ Truthful(d, g) /\ (InTime => Recent(d, at))
<1>1. /\ Whole(l) /\ Ready(l) /\ Reports(l, m) /\ InOrder(l.transport) /\ now \in Nat
      /\ l.direct.frame <= m.tick + 1
  BY DEF Goes, Ready
<1>2. u = Folded(FALSE, base, deliveries)
  BY LoopsAreFolds DEF Delivered
<1>3. /\ Post(t, g, now + 1, k)
      /\ \A c \in TakenFrom(l.transport, now) :
           /\ Truthful(c.packet, g)
           /\ InTime => \A a \in Nat : a <= now /\ a <= FrameCount => Recent(c.packet, a)
  BY <1>1, DeliverPosts DEF Agrees
<1>4. PICK n \in Nat : /\ DOMAIN deliveries = 1 .. n
                       /\ \A i \in 1 .. n : /\ deliveries[i] \in TakenFrom(l.transport, now)
                                            /\ Carries(deliveries[i].packet)
  BY <1>1, DeliverableFacts
<1>5. \A i \in 1 .. n : Given(deliveries[i].packet)
  BY <1>3, <1>4
<1>6. InOrder(t)
  BY <1>1, DeliverInOrder
<1> HIDE DEF t, deliveries, u, k, Given
<1>7. Fine(base)
  <2>1. /\ DOMAIN base = LiveFields /\ base.tick = l.tick /\ base.report = l.report
        /\ base.finished = l.finished /\ base.peer = l.peer /\ base.window = l.window
        /\ base.tracker = l.tracker /\ base.divergent = l.divergent
        /\ base.corrected = l.corrected /\ base.history = l.history
        /\ base.transport = t /\ base.direct = l.direct /\ base.failure = "ok"
        /\ base.checkpoints = l.checkpoints
    BY <1>1 DEF Whole, LiveFields
  <2> HIDE DEF base
  <2>2. Whole(base) /\ Ready(base) /\ Reports(base, m)
    BY <1>1, <1>6, <2>1 DEF Whole, Ready, Tracked, Reports
  <2>3. Goes(base, m)
    BY <1>1, <2>1, <2>2 DEF Goes
  <2>4. Agrees(base, g, at, now + 1, k)
    BY <1>3, <2>1 DEF Agrees
  <2>5. base.divergent = {}
    BY <2>4 DEF Agrees
  <2> QED
    BY <2>1, <2>3, <2>4, <2>5 DEF Honest, Excusable
<1> HIDE DEF base
<1>8. PICK v : Runs(v, n, FALSE, base, deliveries)
  BY <1>4, FoldRuns
<1>9. /\ v[0] = base
      /\ \A j \in 1 .. n : v[j] = DeliverNext(v[j - 1], deliveries[j])
      /\ u = v[n]
  BY <1>2, <1>8 DEF Runs, Turn
<1>10. ASSUME NEW x, NEW delivery, Fine(x), Given(delivery.packet)
       PROVE  Fine(DeliverNext(x, delivery))
  <2>1. CASE x.failure # "ok"
    BY <1>10, <2>1 DEF DeliverNext
  <2>2. CASE x.failure = "ok"
    <3> DEFINE y == DeliverNext(x, delivery)
    <3>1. y = ProcessDelivery(x, delivery.packet)
      BY <2>2 DEF DeliverNext
    <3>2. Whole(x) /\ Ready(x) /\ Agrees(x, g, at, now + 1, k) /\ Goes(x, m)
      BY <1>10, <2>2 DEF Goes, Honest
    <3>3. /\ Carries(delivery.packet) /\ Truthful(delivery.packet, g)
          /\ InTime => Recent(delivery.packet, at)
      BY <1>10 DEF Given
    <3> HIDE DEF y
    <3>4. Goes(y, m)
      BY <2>2, <3>1, <3>2, <3>3, DeliveryGoes
    <3>5. Honest(y, g, at, now + 1, k)
      BY <2>2, <3>1, <3>2, <3>3, DeliveryAgrees
    <3> QED
      BY <3>4, <3>5 DEF y
  <2> QED
    BY <2>1, <2>2
<1> DEFINE bad == {j \in 0 .. n : ~ Fine(v[j])}
<1> HIDE DEF Fine
<1>11. bad = {}
  <2> SUFFICES ASSUME bad # {}
               PROVE  FALSE
    OBVIOUS
  <2>1. PICK j \in bad : \A i \in bad : j <= i
    <3>1. bad \in SUBSET Nat
      OBVIOUS
    <3> HIDE DEF bad
    <3> QED
      BY <3>1, LeastElement
  <2>2. j \in 0 .. n /\ ~ Fine(v[j]) /\ j # 0
    BY <1>7, <1>9
  <2>3. j \in 1 .. n /\ j - 1 \in 0 .. n /\ j - 1 < j
    BY <2>2
  <2>4. Fine(v[j - 1])
    BY <2>1, <2>3
  <2> QED
    BY <1>5, <1>9, <1>10, <2>2, <2>3, <2>4
<1>12. Fine(v[n])
  BY <1>11
<1>13. Honest(u, g, at, now + 1, k)
  BY <1>9, <1>12 DEF Fine
<1> QED
  BY <1>13 DEF u, k

(* Both peers play the frame that was recorded. *)
LEMMA AdvanceBothAgrees ==
  ASSUME SimulationIsTotal, NEW l, Whole(l), Ready(l), l.failure = "ok",
         NEW g, NEW at \in Nat, NEW now, NEW n, Agrees(l, g, at, now, n), g.frame = at + 1,
         NEW u, u = AdvanceBoth(l, g.inputs[at])
  PROVE  u.failure = "ok" /\ Agrees(u, g, at + 1, now, n)
<1> DEFINE pair == g.inputs[at]
           R(p) == Advance(l.peer[p], p, l.direct.frame - 1, pair[p])
           advanced == [p \in Players |-> R(p)]
           peer == [p \in Players |-> advanced[p].session]
           e == IF advanced["a"].error # "ok" THEN advanced["a"].error ELSE advanced["b"].error
<1>1. l.direct = g /\ IsGame(g) /\ l.direct.frame - 1 = at /\ at < g.frame
  BY DEF Agrees, Playable
<1>2. ASSUME NEW p \in Players
      PROVE  /\ R(p).error = "ok" /\ Plays(p, R(p).session, g)
             /\ R(p).session.world.frame = at + 1
  <2> DEFINE s == l.peer[p]
             r == R(p)
  <2>1. Plays(p, s, g) /\ s.world.frame = at /\ s.dirty = NoFrame
    BY DEF Agrees, Ready, Clean
  <2>2. r = Advance(s, p, at, g.inputs[at][p])
    BY <1>1
  <2> HIDE DEF s, r
  <2>3. r.error = "ok" /\ Plays(p, r.session, g) /\ r.session.world.frame = at + 1
    BY <1>1, <2>1, <2>2, PlaysAdvance
  <2> QED
    BY <2>3 DEF r
<1>3. u = [l EXCEPT !.peer = peer, !.failure = e]
  BY DEF AdvanceBoth
<1> HIDE DEF R
<1>4. e = "ok" /\ \A p \in Players : peer[p] = R(p).session
  BY <1>2 DEF Players
<1> HIDE DEF peer, e
<1>5. /\ u.peer = peer /\ u.divergent = l.divergent
      /\ u.history = l.history /\ u.transport = l.transport /\ u.direct = l.direct
      /\ u.checkpoints = l.checkpoints /\ u.failure = "ok"
  BY <1>3, <1>4 DEF Whole, LiveFields
<1>6. \A p \in Players : Plays(p, u.peer[p], g) /\ u.peer[p].world.frame = at + 1
  BY <1>2, <1>4, <1>5
<1>7. Agrees(u, g, at + 1, now, n)
  BY <1>5, <1>6 DEF Agrees
<1> QED
  BY <1>5, <1>7

-----------------------------------------------------------------------------
(* The report of canonical peers *)

(* f plays a recorded history from the initial state. *)
Played(f, history) ==
  f = [n \in 0 .. FrameCount |->
         IF n = 0 THEN InitialWorld
         ELSE SimulateFrame(f[n - 1], [p \in Players |-> history[p][n]])]

(* One frame more of the game. *)
LEMMA PrefixStep ==
  ASSUME NEW g, IsGame(g), NEW n \in Nat, n < g.frame, NEW pair, pair = g.inputs[n]
  PROVE  SimulateFrame(Prefix(g, n), pair) = Prefix(g, n + 1)
<1> DEFINE world == Prefix(g, n)
           next == Prefix(g, n + 1)
<1>1. /\ n \in Boundaries /\ n + 1 \in Boundaries /\ n \in FrameNumbers /\ n + 1 \in FrameNumbers
      /\ NextFrame(n) = n + 1
  <2>1. FrameCount \in Nat /\ g.frame \in 0 .. FrameCount
    BY LiveAssumption DEF IsGame, Boundaries
  <2>2. n \in 0 .. FrameCount /\ n + 1 \in 0 .. FrameCount /\ n + 1 <= FrameCount
    BY <2>1
  <2>3. n \in Boundaries /\ n + 1 \in Boundaries
    BY <2>2 DEF Boundaries
  <2> QED
    BY <2>2, <2>3, BoundariesFit DEF NextFrame
<1>2. ASSUME NEW f \in FrameNumbers
      PROVE  Position(f) = f /\ f \in Nat
  BY PositionIsFrame, ModulusAssumption DEF FrameNumbers
<1>3. /\ world.frame = n
      /\ world.inputs = [f \in FrameNumbers |-> IF Position(f) < Position(n) THEN g.inputs[f] ELSE NoPair]
      /\ next = [frame |-> n + 1,
                 inputs |-> [f \in FrameNumbers |->
                               IF Position(f) < Position(n + 1) THEN g.inputs[f] ELSE NoPair]]
  BY DEF Prefix
<1>4. SimulateFrame(world, pair) = [frame |-> n + 1, inputs |-> [world.inputs EXCEPT ![n] = pair]]
  BY <1>1, <1>3 DEF SimulateFrame
<1> HIDE DEF world, next
<1> DEFINE x == [world.inputs EXCEPT ![n] = pair]
           y == [f \in FrameNumbers |-> IF Position(f) < Position(n + 1) THEN g.inputs[f] ELSE NoPair]
<1>5. x = y
  <2>1. ASSUME NEW f \in FrameNumbers
        PROVE  x[f] = y[f]
    <3>1. x[f] = IF f = n THEN pair ELSE IF f < n THEN g.inputs[f] ELSE NoPair
      BY <1>1, <1>2, <1>3
    <3>2. y[f] = IF f < n + 1 THEN g.inputs[f] ELSE NoPair
      BY <1>1, <1>2
    <3>3. f \in Nat
      BY <1>2
    <3> HIDE DEF x, y
    <3>4. CASE f = n
      BY <3>1, <3>2, <3>3, <3>4
    <3>5. CASE f < n
      BY <3>1, <3>2, <3>3, <3>5
    <3>6. CASE n < f
      BY <3>1, <3>2, <3>3, <3>6
    <3> QED
      BY <3>3, <3>4, <3>5, <3>6
  <2>2. DOMAIN x = FrameNumbers /\ DOMAIN y = FrameNumbers
    BY <1>3
  <2>3. x = [f \in DOMAIN x |-> x[f]] /\ y = [f \in DOMAIN y |-> y[f]]
    BY <1>3
  <2> HIDE DEF x, y
  <2> QED
    BY <2>1, <2>2, <2>3
<1> QED
  BY <1>3, <1>4, <1>5 DEF world, next

(* What the recorded inputs lead to is the game up to there. *)
LEMMA ReplayIsGame ==
  ASSUME NEW g, Playable(g), g.frame = FrameCount, NEW history,
         \A p \in Players : Records(history[p], p, g)
  PROVE  /\ \E f : Played(f, history)
         /\ \A f : Played(f, history) => \A n \in 0 .. FrameCount : f[n] = Prefix(g, n)
<1> DEFINE P(n) == Prefix(g, n)
           Pair(n) == [p \in Players |-> history[p][n]]
           h == [n \in 0 .. FrameCount |-> P(n)]
<1>1. FrameCount \in Nat /\ IsGame(g)
  BY LiveAssumption DEF Playable
<1>2. P(0) = InitialWorld
  <2>1. /\ StartFrame = 0 /\ 0 \in FrameNumbers /\ Position(0) = 0
        /\ \A f \in FrameNumbers : Position(f) = f /\ ~ f < 0
    <3>1. 0 \in FrameNumbers /\ StartFrame = 0
      BY LiveAssumption, ModulusAssumption DEF FrameNumbers
    <3>2. \A f \in FrameNumbers : ~ f < 0
      BY ModulusAssumption DEF FrameNumbers
    <3> QED
      BY <3>1, <3>2, PositionIsFrame
  <2> QED
    BY <2>1 DEF Prefix, InitialWorld
<1>3. ASSUME NEW n \in 1 .. FrameCount
      PROVE  SimulateFrame(P(n - 1), Pair(n)) = P(n) /\ n - 1 \in 0 .. FrameCount /\ n # 0
  <2>1. n - 1 \in Nat /\ n - 1 < g.frame /\ n - 1 + 1 = n /\ n - 1 \in 0 .. FrameCount /\ n # 0
    BY <1>1
  <2>2. Pair(n) = g.inputs[n - 1]
    <3>1. n - 1 \in FrameNumbers
      <4>1. n - 1 \in Boundaries
        BY <2>1 DEF Boundaries
      <4> QED
        BY <4>1, BoundariesFit
    <3>2. g.inputs[n - 1] \in Pairs
      BY <1>1, <2>1, <3>1 DEF IsGame
    <3>3. \A p \in Players : history[p][n] = g.inputs[n - 1][p]
      BY DEF Records
    <3> QED
      BY <3>2, <3>3 DEF Pairs
  <2> DEFINE m == n - 1
  <2>3. m \in Nat /\ m < g.frame /\ m + 1 = n /\ Pair(n) = g.inputs[m]
    BY <2>1, <2>2
  <2> HIDE DEF m, P, Pair
  <2>4. SimulateFrame(Prefix(g, m), Pair(n)) = Prefix(g, m + 1)
    BY <1>1, <2>3, PrefixStep
  <2>5. SimulateFrame(P(m), Pair(n)) = P(n)
    BY <2>3, <2>4 DEF P
  <2> QED
    BY <2>1, <2>5 DEF m
<1> HIDE DEF P
<1>4. Played(h, history)
  <2> DEFINE k == [n \in 0 .. FrameCount |->
                     IF n = 0 THEN InitialWorld ELSE SimulateFrame(h[n - 1], Pair(n))]
  <2>1. ASSUME NEW n \in 0 .. FrameCount
        PROVE  P(n) = IF n = 0 THEN InitialWorld ELSE SimulateFrame(h[n - 1], Pair(n))
    <3>1. CASE n = 0
      BY <1>2, <3>1
    <3>2. CASE n # 0
      <4>1. n \in 1 .. FrameCount
        BY <1>1, <3>2
      <4>2. h[n - 1] = P(n - 1)
        BY <1>3, <4>1
      <4> HIDE DEF h, Pair
      <4> QED
        BY <1>3, <3>2, <4>1, <4>2
    <3> QED
      BY <3>1, <3>2
  <2>2. h = k
    BY <2>1
  <2>3. Played(h, history) <=> h = k
    BY DEF Played
  <2> HIDE DEF h, k
  <2> QED
    BY <2>2, <2>3
<1>5. ASSUME NEW f, Played(f, history)
      PROVE  \A n \in 0 .. FrameCount : f[n] = P(n)
  <2> DEFINE bad == {n \in 0 .. FrameCount : f[n] # P(n)}
  <2>1. \A n \in 0 .. FrameCount : f[n] = IF n = 0 THEN InitialWorld ELSE SimulateFrame(f[n - 1], Pair(n))
    <3> DEFINE k == [n \in 0 .. FrameCount |->
                       IF n = 0 THEN InitialWorld ELSE SimulateFrame(f[n - 1], Pair(n))]
    <3>1. f = k
      BY <1>5 DEF Played
    <3>2. \A n \in 0 .. FrameCount : k[n] = IF n = 0 THEN InitialWorld ELSE SimulateFrame(f[n - 1], Pair(n))
      OBVIOUS
    <3> HIDE DEF k
    <3> QED
      BY <3>1, <3>2
  <2>2. bad = {}
    <3> SUFFICES ASSUME bad # {}
                 PROVE  FALSE
      OBVIOUS
    <3>1. PICK n \in bad : \A i \in bad : n <= i
      <4>1. bad \in SUBSET Nat
        OBVIOUS
      <4> HIDE DEF bad
      <4> QED
        BY <4>1, LeastElement
    <3>2. n \in 0 .. FrameCount /\ f[n] # P(n)
      OBVIOUS
    <3> HIDE DEF Pair
    <3>3. n # 0
      BY <1>2, <2>1, <3>2
    <3>4. n \in 1 .. FrameCount /\ n - 1 < n
      BY <1>1, <3>2, <3>3
    <3>5. f[n - 1] = P(n - 1)
      <4>1. n - 1 \in 0 .. FrameCount
        BY <1>3, <3>4
      <4> QED
        BY <3>1, <3>4, <4>1
    <3> QED
      BY <1>3, <2>1, <3>2, <3>3, <3>4, <3>5
  <2> QED
    BY <2>2
<1> QED
  BY <1>4, <1>5 DEF P

(* So the replay verifies. *)
LEMMA ReplayVerifies ==
  ASSUME NEW l, NEW g, NEW at, NEW now, NEW n, Agrees(l, g, at, now, n), g.frame = FrameCount
  PROVE  ReplayVerified(l)
<1> DEFINE f == CHOOSE x : Played(x, l.history)
<1>1. /\ Playable(g) /\ (\A p \in Players : Records(l.history[p], p, g)) /\ l.direct = g
      /\ OfGame(l.checkpoints, g)
  BY DEF Agrees
<1>2. ReplayVerified(l) <=>
        /\ \A c \in l.checkpoints : CanonicalHash(f[c.frame]) = c.hash
        /\ CanonicalHash(f[FrameCount]) = CanonicalHash(l.direct)
  BY DEF ReplayVerified, Played
<1>3. Played(f, l.history)
  <2>1. \E x : Played(x, l.history)
    BY <1>1, ReplayIsGame
  <2> QED
    BY <2>1
<1> HIDE DEF f
<1>4. \A k \in 0 .. FrameCount : f[k] = Prefix(g, k)
  BY <1>1, <1>3, ReplayIsGame
<1>5. f[FrameCount] = g
  <2>1. FrameCount \in 0 .. FrameCount
    BY LiveAssumption
  <2>2. Prefix(g, g.frame) = g
    BY <1>1, GamePrefix DEF Playable
  <2> QED
    BY <1>4, <2>1, <2>2
<1>6. \A c \in l.checkpoints : CanonicalHash(f[c.frame]) = c.hash
  BY <1>1, <1>4 DEF OfGame, Boundaries
<1> QED
  BY <1>1, <1>2, <1>5, <1>6

(* Canonical peers succeed unless one of them has not confirmed the whole  *)
(* game.                                                                   *)
LEMMA FinalizeAgrees ==
  ASSUME SimulationIsTotal, faulty = {}, NEW l, Whole(l), Ready(l), l.failure = "ok",
         NEW g, NEW at, NEW now, NEW n, Agrees(l, g, at, now, n), g.frame = FrameCount,
         NEW u, u = Finalize(l)
  PROVE  u.divergent = {} /\ u.failure \in {"ok", "timeout"}
<1> DEFINE flushed == [p \in Players |-> FlushCorrections(l.peer[p])]
           peer == [p \in Players |-> flushed[p].session]
           hash == [p \in Players |-> HashOf(p, peer[p].world)]
           confirmed == IF FrameBefore(peer["a"].confirmed, peer["b"].confirmed)
                        THEN peer["a"].confirmed ELSE peer["b"].confirmed
           diagnostic == Diagnostic(l)
           success == /\ confirmed = FrameCount
                      /\ hash["a"] = hash["b"]
                      /\ hash["a"] = CanonicalHash(l.direct)
                      /\ ReplayVerified(l)
                      /\ diagnostic = NoFrame
           report == [success |-> success, diagnostic |-> diagnostic]
           written == [l EXCEPT !.peer = peer, !.report = report]
           error == IF confirmed # FrameCount THEN "timeout" ELSE "replay_mismatch"
           refused == {p \in Players : flushed[p].error # "ok"}
<1>1. l.direct = g /\ IsGame(g) /\ l.divergent = {}
  BY DEF Agrees, Playable
<1>2. \A p \in Players : flushed[p].error = "ok" /\ Plays(p, flushed[p].session, g)
  <2> TAKE p \in Players
  <2> DEFINE s == l.peer[p]
             r == FlushCorrections(s)
  <2>1. Plays(p, s, g)
    BY DEF Agrees
  <2>2. flushed[p] = r
    OBVIOUS
  <2> HIDE DEF flushed, s
  <2>3. r.error = "ok" /\ Plays(p, r.session, g)
    <3> HIDE DEF r
    <3>1. r = FlushCorrections(s)
      BY DEF r
    <3> QED
      BY <1>1, <2>1, <3>1, PlaysFlush
  <2> QED
    BY <2>2, <2>3
<1>3. refused = {} /\ \A p \in Players : Plays(p, peer[p], g)
  BY <1>2
<1>4. diagnostic = NoFrame
  <2>1. \A p \in Players : l.tracker[p] = NoFrame
    BY <1>1 DEF Ready, Tracked
  <2> QED
    BY <2>1 DEF Diagnostic, Players
<1>5. u = IF success \/ diagnostic # NoFrame THEN [written EXCEPT !.finished = TRUE]
          ELSE Fail(written, error)
  BY <1>3 DEF Finalize
<1>6. ASSUME confirmed = FrameCount
      PROVE  success
  <2> DEFINE x == peer["a"].confirmed
             y == peer["b"].confirmed
  <2>1. /\ x \in Boundaries /\ y \in Boundaries
    <3>1. ASSUME NEW p \in Players
          PROVE  peer[p].confirmed \in Boundaries
      <4> DEFINE s == peer[p]
      <4>1. Sound(s) /\ s.world.frame <= g.frame /\ g.frame \in Boundaries
        BY <1>1, <1>3 DEF Plays, IsGame
      <4> HIDE DEF s
      <4>2. s.confirmed \in Boundaries
        BY <4>1, PlayFacts
      <4> QED
        BY <4>2 DEF s
    <3> HIDE DEF peer
    <3> QED
      BY <3>1 DEF Players
  <2>2. confirmed = IF FrameBefore(x, y) THEN x ELSE y
    OBVIOUS
  <2> HIDE DEF x, y, confirmed
  <2>3. x \in 0 .. FrameCount /\ y \in 0 .. FrameCount /\ (FrameBefore(x, y) <=> x < y)
        /\ FrameCount \in Nat
    BY <2>1, BoundariesFit, LiveAssumption DEF Boundaries
  <2>4. x = FrameCount /\ y = FrameCount
    BY <1>6, <2>2, <2>3
  <2>5. ASSUME NEW p \in Players
        PROVE  hash[p] = CanonicalHash(g)
    <3> DEFINE s == peer[p]
    <3>1. Plays(p, s, g) /\ s.confirmed = FrameCount
      BY <1>3, <2>4 DEF x, y, Players
    <3>2. hash[p] = HashOf(p, s.world)
      OBVIOUS
    <3> HIDE DEF s, hash
    <3>3. s.world = g
      BY <1>1, <3>1, WholePlayed
    <3> QED
      BY <3>2, <3>3 DEF HashOf, CanonicalHash
  <2> HIDE DEF hash
  <2>6. ReplayVerified(l)
    BY ReplayVerifies
  <2>7. hash["a"] = CanonicalHash(g) /\ hash["b"] = CanonicalHash(g)
    BY <2>5 DEF Players
  <2> QED
    BY <1>1, <1>4, <1>6, <2>6, <2>7
<1>7. error = "timeout" \/ success
  BY <1>6
<1> HIDE DEF success, error, peer, diagnostic
<1> HIDE DEF report
<1>8. /\ DOMAIN written = LiveFields /\ written.divergent = {} /\ written.failure = "ok"
  BY <1>1 DEF Whole, LiveFields
<1> HIDE DEF written
<1>9. CASE success
  <2>1. u = [written EXCEPT !.finished = TRUE]
    BY <1>5, <1>9
  <2> QED
    BY <1>8, <2>1 DEF LiveFields
<1>10. CASE ~ success
  <2>1. u = [written EXCEPT !.failure = error]
    BY <1>4, <1>5, <1>10 DEF Fail
  <2> QED
    BY <1>7, <1>8, <1>10, <2>1 DEF LiveFields
<1> QED
  BY <1>9, <1>10

-----------------------------------------------------------------------------
(* Ticks of canonical peers *)

(* The frames that have been recorded when a tick begins. *)
RecordedBy(tick) == IF tick <= FrameCount THEN tick ELSE FrameCount

(* What holds of canonical peers between two steps. *)
AgreesAtRest(l) ==
  /\ l.divergent = {}
  /\ l.failure \in Excusable
  /\ Running(l) => /\ Agrees(l, l.direct, RecordedBy(l.tick), l.tick, 4 * l.tick)
                   /\ l.direct.frame = RecordedBy(l.tick)

(* A tick ends. *)
LEMMA TickedAgrees ==
  ASSUME SimulationIsTotal, faulty = {}, NEW l, NEW m, Goes(l, m), l.tick \in Nat,
         NEW g, g.frame = RecordedBy(l.tick + 1),
         Honest(l, g, RecordedBy(l.tick + 1), l.tick + 1, 4 * (l.tick + 1)),
         NEW u, u = Ticked(l)
  PROVE  AgreesAtRest(u)
<1>1. CASE l.failure # "ok"
  <2>1. u = l
    BY <1>1 DEF Ticked
  <2> QED
    BY <1>1, <2>1 DEF Honest, AgreesAtRest, Running
<1>2. CASE l.failure = "ok"
  <2> DEFINE tick == l.tick + 1
             next == [l EXCEPT !.tick = tick]
             at == RecordedBy(tick)
  <2>1. Whole(l) /\ Ready(l) /\ Agrees(l, g, at, tick, 4 * tick)
    BY <1>2 DEF Goes, Honest
  <2>2. u = IF next.tick = LastStep THEN Finalize(next) ELSE next
    BY <1>2 DEF Ticked
  <2>3. g.frame = at
    OBVIOUS
  <2> HIDE DEF tick, at
  <2>4. /\ DOMAIN next = LiveFields /\ next.tick = tick /\ next.peer = l.peer
        /\ next.window = l.window /\ next.tracker = l.tracker
        /\ next.divergent = l.divergent /\ next.corrected = l.corrected
        /\ next.history = l.history /\ next.transport = l.transport
        /\ next.direct = l.direct /\ next.failure = "ok" /\ next.checkpoints = l.checkpoints
    BY <1>2, <2>1 DEF Whole, LiveFields
  <2> HIDE DEF next
  <2>5. Whole(next) /\ Ready(next) /\ Agrees(next, g, at, tick, 4 * tick)
    BY <2>1, <2>4 DEF Whole, Ready, Tracked, Agrees
  <2>6. CASE next.tick = LastStep
    <3>1. u = Finalize(next)
      BY <2>2, <2>6
    <3>2. g.frame = FrameCount
      <4>1. tick = FrameCount + TailTicks + DrainTicks
        BY <2>4, <2>6 DEF LastStep
      <4>2. FrameCount \in Nat /\ TailTicks \in Nat /\ DrainTicks \in Nat
        BY LiveAssumption
      <4>3. tick <= FrameCount => tick = FrameCount
        BY <4>1, <4>2
      <4> QED
        BY <2>3, <4>3 DEF at, RecordedBy
    <3>3. u.divergent = {} /\ u.failure \in {"ok", "timeout"}
      BY <2>4, <2>5, <3>1, <3>2, FinalizeAgrees
    <3>4. ~ Running(u)
      BY <2>4, <2>5, <3>1, FinalizeEnds
    <3> QED
      BY <3>3, <3>4 DEF AgreesAtRest, Excusable
  <2>7. CASE next.tick # LastStep
    <3>1. u = next
      BY <2>2, <2>7
    <3>2. next.direct = g /\ next.divergent = {}
      BY <2>5 DEF Agrees
    <3> QED
      BY <2>3, <2>4, <2>5, <3>1, <3>2 DEF AgreesAtRest, Excusable, at
  <2> QED
    BY <2>6, <2>7
<1> QED
  BY <1>2, <1>1

(* The deliveries of a tick and what follows, with the frame that is       *)
(* played.                                                                 *)
LEMMA DeliveredAgrees ==
  ASSUME SimulationIsTotal, RingsReach, faulty = {}, NEW l, NEW m, Goes(l, m),
         l.tick \in Nat, NEW g, NEW at \in Nat, at <= l.tick, at <= FrameCount,
         Honest(l, g, at, l.tick, 4 * (l.tick + 1))
  PROVE  Honest(Delivered(l), g, at, l.tick + 1, 4 * (l.tick + 1))
<1>1. CASE l.failure # "ok"
  BY <1>1 DEF Honest, Delivered
<1>2. CASE l.failure = "ok"
  BY <1>2, DeliveriesAgree DEF Honest
<1> QED
  BY <1>1, <1>2

(* A tick that sends what was recorded. *)
LEMMA SentAgrees ==
  ASSUME SimulationIsTotal, RingsReach, faulty = {}, ~ InvalidPercent,
         NEW l, NEW m, Goes(l, m), l.failure = "ok", l.tick \in Nat, l.tick <= LastTick,
         NEW g, NEW at \in Nat, at <= l.tick, at <= FrameCount,
         Agrees(l, g, at, l.tick, 4 * l.tick),
         g.frame = l.tick + 1 \/ g.frame = FrameCount, NEW sent \in SendBoth(l)
  PROVE  /\ Goes(Delivered(sent), m)
         /\ Honest(Delivered(sent), g, at, l.tick + 1, 4 * (l.tick + 1))
<1>1. Goes(sent, m)
  BY SendBothGoes
<1>2. sent.tick = l.tick
  BY <1>1 DEF Goes
<1>3. /\ sent.failure \in {"ok", "queue_overflow"}
      /\ Agrees(sent, g, at, l.tick, 4 * (l.tick + 1))
  <2>1. Whole(l) /\ Ready(l)
    BY DEF Goes
  <2> QED
    BY <2>1, SendBothAgrees
<1>4. Honest(sent, g, at, sent.tick, 4 * (sent.tick + 1))
  BY <1>2, <1>3 DEF Honest, Excusable, Agrees
<1>5. Honest(Delivered(sent), g, at, sent.tick + 1, 4 * (sent.tick + 1))
  BY <1>1, <1>2, <1>4, DeliveredAgrees
<1> QED
  BY <1>1, <1>2, <1>5, DeliveriesGo

(* Canonical peers agree between two steps. *)
LiveAgrees == faulty = {} /\ ~ InvalidPercent => AgreesAtRest(live)

(* A new scenario of canonical peers agrees with the game not begun. *)
LEMMA StartAgrees ==
  Init => LiveAgrees
<1> SUFFICES ASSUME Init
             PROVE  AgreesAtRest(live)
  BY DEF LiveAgrees
<1> DEFINE g == InitialWorld
<1>1. /\ live.peer = [p \in Players |-> NewSession(p)] /\ live.divergent = {}
      /\ live.history = [p \in Players |-> <<>>] /\ live.direct = g
      /\ live.checkpoints = {} /\ live.transport = NewTransport /\ live.tick = 0
      /\ live.failure = "ok"
  BY DEF Init, NewLive
<1>2. IsGame(g) /\ g.frame = 0
  BY NewGame
<1> HIDE DEF g
<1>3. Playable(g)
  <2>1. \A f \in FrameNumbers : ~ f < 0
    BY ModulusAssumption DEF FrameNumbers
  <2> QED
    BY <1>2, <2>1 DEF Playable
<1>4. ASSUME NEW p \in Players
      PROVE  /\ Plays(p, live.peer[p], g) /\ live.peer[p].world.frame = 0
             /\ Records(live.history[p], p, g)
  <2>1. Plays(p, live.peer[p], g) /\ live.peer[p].world.frame = 0
    BY <1>1, NewGame DEF g
  <2>2. <<>> \in Seq({}) /\ Len(<<>>) = 0
    OBVIOUS
  <2>3. live.history[p] = <<>>
    BY <1>1
  <2>4. IsList(live.history[p])
    BY <2>2, <2>3 DEF IsList
  <2>5. \A n \in 1 .. 0 : FALSE
    OBVIOUS
  <2>6. Records(live.history[p], p, g)
    BY <1>2, <2>2, <2>3, <2>4, <2>5 DEF Records
  <2> QED
    BY <2>1, <2>6
<1>5. OfGame(live.checkpoints, g)
  BY <1>1 DEF OfGame
<1>6. \A now, n : Post(live.transport, g, now, n)
  BY <1>1 DEF Post, NewTransport
<1>7. Agrees(live, g, 0, 0, 0)
  BY <1>1, <1>3, <1>4, <1>5, <1>6 DEF Agrees
<1>8. RecordedBy(0) = 0
  BY LiveAssumption DEF RecordedBy
<1>9. 4 * live.tick = 0
  BY <1>1
<1> QED
  BY <1>1, <1>2, <1>7, <1>8, <1>9 DEF AgreesAtRest, Excusable

(* A tick of canonical peers. *)
LEMMA StepAgrees ==
  ASSUME SimulationIsTotal, RingsReach, LiveRests, LiveAgrees, Step
  PROVE  LiveAgrees'
<1> SUFFICES ASSUME faulty = {}, ~ InvalidPercent
             PROVE  AgreesAtRest(live)'
  <2>1. faulty' = faulty
    BY StepRests
  <2> QED
    BY <2>1 DEF LiveAgrees
<1> DEFINE m == live
           tick == live.tick
           g == live.direct
           l == Begun(live)
           at == RecordedBy(tick)
<1>1. Running(live) /\ Whole(live) /\ Ready(live) /\ tick \in Nat /\ live.failure = "ok"
  BY StepRests DEF LiveRests, Rests, Running
<1>2. /\ Agrees(live, g, at, tick, 4 * tick) /\ g.frame = at
  BY <1>1 DEF LiveAgrees, AgreesAtRest
<1>3. /\ FrameCount \in Nat /\ TailTicks \in Nat /\ DrainTicks \in Nat /\ LastTick \in Nat
      /\ FrameCount + TailTicks + DrainTicks <= LastTick
  BY LiveAssumption, TransportAssumption
<1>4. /\ at \in Nat /\ at <= FrameCount /\ at <= tick
      /\ tick < FrameCount => at = tick /\ RecordedBy(tick + 1) = at + 1
      /\ FrameCount <= tick => at = FrameCount /\ RecordedBy(tick + 1) = FrameCount
  <2> HIDE DEF tick
  <2> QED
    BY <1>1, <1>3 DEF RecordedBy
<1>5. g.frame <= tick + 1
  BY <1>1, <1>2, <1>4
<1>6. Goes(l, live)
  BY <1>1, <1>5, BegunGoes
<1>7. l.failure = "ok" /\ l.tick = tick /\ Agrees(l, g, at, tick, 4 * tick)
  <2>1. /\ l.direct = live.direct /\ l.peer = live.peer /\ l.history = live.history
        /\ l.checkpoints = live.checkpoints /\ l.divergent = live.divergent
        /\ l.transport = live.transport /\ l.failure = live.failure /\ l.tick = live.tick
    BY <1>1 DEF Begun, Whole, LiveFields
  <2> QED
    BY <1>1, <1>2, <2>1 DEF Agrees
<1> HIDE DEF l, g, at, tick
<1>8. \E x, more : /\ Goes(x, live) /\ x.tick = tick /\ live' = Ticked(x)
                   /\ more.frame = RecordedBy(tick + 1)
                   /\ Honest(x, more, RecordedBy(tick + 1), tick + 1, 4 * (tick + 1))
  <2>1. ASSUME NEW buttons \in Buttons \ InvalidButtons, PlayFrame(buttons)
        PROVE  \E x, more : /\ Goes(x, live) /\ x.tick = tick /\ live' = Ticked(x)
                            /\ more.frame = RecordedBy(tick + 1)
                            /\ Honest(x, more, RecordedBy(tick + 1), tick + 1, 4 * (tick + 1))
    <3> DEFINE pair == [p \in Players |-> IF p = "a" THEN buttons ELSE Script(p, live.tick)]
               Onward(x) == IF x.failure # "ok" THEN x ELSE AdvanceBoth(x, pair)
               recorded == RecordFrame(l, pair)
    <3>1. /\ tick < FrameCount
          /\ \E sent \in SendBoth(recorded) : live' = Ticked(Onward(Delivered(sent)))
      BY <2>1 DEF PlayFrame, tick, l
    <3>2. pair \in [Players -> Buttons \ InvalidButtons]
      <4>1. tick \in 0 .. FrameCount - 1
        BY <1>1, <1>3, <3>1
      <4>2. \A p \in Players : Script(p, tick) \in Buttons \ InvalidButtons
        BY <4>1, LiveAssumption
      <4> QED
        BY <4>2 DEF tick
    <3> HIDE DEF pair
    <3>3. l.direct = g /\ Whole(l) /\ Ready(l)
      BY <1>6, <1>7 DEF Agrees, Goes
    <3>4. at = tick /\ RecordedBy(tick + 1) = tick + 1 /\ g.frame = tick /\ g.frame < FrameCount
      BY <1>2, <1>4, <3>1 DEF g
    <3>5. Goes(recorded, live)
      <4>1. l.direct.frame <= live.tick /\ live.tick < FrameCount
        BY <1>1, <3>1, <3>3, <3>4 DEF tick
      <4> QED
        BY <1>6, <1>7, <4>1, RecordGoes
    <3>6. PICK more : /\ recorded.failure = "ok" /\ Agrees(recorded, more, at, tick, 4 * tick)
                      /\ more.frame = g.frame + 1 /\ more.inputs[g.frame] = pair
      BY <1>7, <3>2, <3>3, <3>4, RecordAgrees
    <3>7. recorded.tick = tick
      BY <3>5 DEF Goes, tick
    <3> HIDE DEF recorded
    <3>8. PICK sent \in SendBoth(recorded) : live' = Ticked(Onward(Delivered(sent)))
      BY <3>1
    <3> DEFINE d == Delivered(sent)
    <3>9. Goes(d, live) /\ Honest(d, more, at, tick + 1, 4 * (tick + 1))
      <4>1. tick <= LastTick
        BY <1>1, <1>3, <3>1
      <4> QED
        BY <1>1, <1>4, <3>4, <3>5, <3>6, <3>7, <4>1, SentAgrees
    <3> HIDE DEF d
    <3>10. /\ Goes(Onward(d), live)
           /\ Honest(Onward(d), more, tick + 1, tick + 1, 4 * (tick + 1))
      <4>1. CASE d.failure # "ok"
        BY <3>9, <4>1 DEF Honest
      <4>2. CASE d.failure = "ok"
        <5> DEFINE y == AdvanceBoth(d, pair)
        <5>1. Goes(y, live)
          BY <3>9, <4>2, AdvanceBothGoes
        <5>2. /\ Whole(d) /\ Ready(d) /\ Agrees(d, more, at, tick + 1, 4 * (tick + 1))
              /\ more.frame = at + 1 /\ more.inputs[at] = pair
          BY <3>4, <3>6, <3>9, <4>2 DEF Goes, Honest
        <5>3. y = AdvanceBoth(d, more.inputs[at])
          BY <5>2
        <5> HIDE DEF y
        <5>4. y.failure = "ok" /\ Agrees(y, more, at + 1, tick + 1, 4 * (tick + 1))
          BY <1>4, <4>2, <5>2, <5>3, AdvanceBothAgrees
        <5>5. Honest(y, more, tick + 1, tick + 1, 4 * (tick + 1))
          BY <3>4, <5>4 DEF Honest, Excusable, Agrees
        <5> QED
          BY <4>2, <5>1, <5>5 DEF y
      <4> QED
        BY <4>1, <4>2
    <3> DEFINE x == Onward(d)
    <3>11. live' = Ticked(x) /\ Goes(x, live) /\ Honest(x, more, tick + 1, tick + 1, 4 * (tick + 1))
      BY <3>8, <3>10 DEF d
    <3> HIDE DEF x
    <3>12. x.tick = tick /\ more.frame = RecordedBy(tick + 1)
      BY <3>4, <3>6, <3>11 DEF Goes, tick
    <3> QED
      BY <3>4, <3>11, <3>12
  <2>2. CASE SendAgain
    <3>1. PICK sent \in SendBoth(l) : live' = Ticked(Delivered(sent))
      BY <2>2 DEF SendAgain, l
    <3>2. FrameCount <= tick /\ tick <= LastTick
      <4>1. tick \in FrameCount .. FrameCount + TailTicks - 1
        BY <2>2 DEF SendAgain, tick
      <4> QED
        BY <1>1, <1>3, <4>1
    <3>3. at = FrameCount /\ RecordedBy(tick + 1) = FrameCount /\ g.frame = FrameCount
      BY <1>2, <1>4, <3>2
    <3> DEFINE x == Delivered(sent)
    <3>4. Goes(x, live) /\ Honest(x, g, at, tick + 1, 4 * (tick + 1))
      BY <1>1, <1>4, <1>6, <1>7, <3>2, <3>3, SentAgrees
    <3>5. live' = Ticked(x)
      BY <3>1
    <3> HIDE DEF x
    <3>6. x.tick = tick
      BY <3>4 DEF Goes, tick
    <3> QED
      BY <3>3, <3>4, <3>5, <3>6
  <2>3. CASE DrainOnly
    <3>1. live' = Ticked(Delivered(l)) /\ FrameCount <= tick
      <4>1. live' = Ticked(Delivered(l)) /\ tick >= FrameCount + TailTicks
        BY <2>3 DEF DrainOnly, l, tick
      <4> QED
        BY <1>1, <1>3, <4>1
    <3>2. at = FrameCount /\ RecordedBy(tick + 1) = FrameCount /\ g.frame = FrameCount
      BY <1>2, <1>4, <3>1
    <3>3. Agrees(l, g, at, tick, 4 * (tick + 1))
      <4> DEFINE k == 4 * tick
      <4>1. k \in Nat /\ k + 4 = 4 * (tick + 1)
        BY <1>1
      <4>2. Post(l.transport, g, tick, k) /\ InOrder(l.transport)
        BY <1>6, <1>7 DEF Agrees, Goes, Ready
      <4> HIDE DEF k
      <4>3. Post(l.transport, g, tick, k + 4)
        BY <4>1, <4>2, PostKept
      <4> QED
        BY <1>7, <4>1, <4>3 DEF Agrees
    <3> DEFINE x == Delivered(l)
    <3>4. Goes(x, live) /\ Honest(x, g, at, tick + 1, 4 * (tick + 1))
      <4>1. Honest(l, g, at, l.tick, 4 * (l.tick + 1))
        BY <1>7, <3>3 DEF Honest, Excusable, Agrees
      <4> QED
        BY <1>1, <1>4, <1>6, <1>7, <4>1, DeliveredAgrees, DeliveriesGo
    <3>5. live' = Ticked(x)
      BY <3>1
    <3> HIDE DEF x
    <3>6. x.tick = tick
      BY <3>4 DEF Goes, tick
    <3> QED
      BY <3>2, <3>4, <3>5, <3>6
  <2> QED
    BY <2>1, <2>2, <2>3 DEF Step
<1>9. PICK x, more : /\ Goes(x, live) /\ x.tick = tick /\ live' = Ticked(x)
                     /\ more.frame = RecordedBy(tick + 1)
                     /\ Honest(x, more, RecordedBy(tick + 1), tick + 1, 4 * (tick + 1))
  BY <1>8
<1> DEFINE u == live'
<1>10. u = Ticked(x)
  BY <1>9
<1> HIDE DEF u
<1>11. AgreesAtRest(u)
  BY <1>1, <1>9, <1>10, TickedAgrees
<1>12. AgreesAtRest(u) <=> AgreesAtRest(live)'
  BY DEF u, AgreesAtRest, Agrees, OfGame, Playable, IsGame, Running
<1> QED
  BY <1>11, <1>12

(* A run of two canonical peers whose simulation does not overflow reports *)
(* nothing but inputs that were lost too often and a queue that overflows; *)
(* and an input that comes too late only if it was not in time (step_once, *)
(* finalize).                                                              *)
THEOREM HonestRunsOnlyTimeOutAlways ==
  ASSUME SimulationIsTotal, RingsReach
  PROVE  Spec => []HonestRunsOnlyTimeOut
<1>1. LiveAgrees => HonestRunsOnlyTimeOut
  BY DEF LiveAgrees, AgreesAtRest, Excusable, HonestRunsOnlyTimeOut
<1>2. LiveRests /\ LiveAgrees /\ [Next]_vars => LiveAgrees'
  <2> SUFFICES ASSUME LiveRests, LiveAgrees, [Next]_vars
               PROVE  LiveAgrees'
    OBVIOUS
  <2>1. CASE Step
    BY <2>1, StepAgrees
  <2>2. CASE UNCHANGED vars
    BY <2>2 DEF vars, LiveAgrees, AgreesAtRest, Agrees, Running
  <2> QED
    BY <2>1, <2>2 DEF Next, RefuseButtons, RepeatResult
<1> QED
  BY <1>1, <1>2, StartAgrees, AlwaysRests, PTL DEF Spec
====
