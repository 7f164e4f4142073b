---- MODULE UdpProofs ----
(***************************************************************************)
(* Theorems about UdpPeers for every value of its constants: for any       *)
(* length of the game, any script, any redundancy, and however many faults *)
(* the network makes.                                                      *)
(*                                                                         *)
(* The inductive invariant says of each peer that its session is sound and *)
(* plays its own script; and, of what it knows of the other peer, from its *)
(* rings and from the packets on their way to it, that the other has       *)
(* produced it or confirmed it.  What a peer has produced and confirmed    *)
(* only grows, so that what is on its way stays true.                      *)
(***************************************************************************)
EXTENDS UdpPeers, SessionLemmas, SequenceTheorems

(* In this game positions are frame numbers. *)
LEMMA PositionIsFrame ==
  ASSUME NEW f \in FrameNumbers
  PROVE  Position(f) = f
BY PeersAssumption, SessionAssumption, DistanceValue DEF Position, FrameNumbers

(* The numbers of the game. *)
LEMMA GameFacts ==
  /\ FrameCount \in Nat \ {0} /\ FrameCount <= Capacity /\ FrameCount \in FrameNumbers
  /\ 2 * (FrameCount + 1) < Modulus /\ Capacity \in Nat /\ MaxRollback \in Nat
  /\ \A player \in Players : \A position \in 0 .. FrameCount - 1 :
       Script(player, position) \in Buttons
BY PeersAssumption, CapacityAssumption, SessionAssumption, ModulusAssumption
   DEF FrameNumbers

(* The frame of a position of the game. *)
LEMMA FrameOfPosition ==
  ASSUME NEW k \in 0 .. FrameCount - 1
  PROVE  /\ FrameOffset(StartFrame, k) = k /\ k \in FrameNumbers
         /\ Position(k) = k /\ 2 * k < Modulus
<1>1. k \in FrameNumbers /\ 0 \in FrameNumbers /\ k \in Nat /\ k < Modulus /\ 2 * k < Modulus
  BY GameFacts, ModulusAssumption DEF FrameNumbers
<1>2. FrameOffset(0, k) = IF 0 + k < Modulus THEN 0 + k ELSE 0 + k - Modulus
  BY <1>1, OffsetValue
<1>3. QED
  BY <1>1, <1>2, PeersAssumption, PositionIsFrame

(* There are two players. *)
LEMMA Opponents ==
  ASSUME NEW p \in Players
  PROVE  /\ OtherPlayer(p) \in Players /\ OtherPlayer(p) # p
         /\ OtherPlayer(OtherPlayer(p)) = p
         /\ \A q \in Players : q = p \/ q = OtherPlayer(p)
BY DEF Players, OtherPlayer

-----------------------------------------------------------------------------
(* A peer's session *)

(* The inputs of a ring are a player's script, of frames before a limit. *)
Scripted(ring, player, limit) ==
  \A f \in FrameNumbers :
    Contains(ring, f) => /\ Position(f) < limit
                         /\ Get(ring, f) = Script(player, Position(f))

(* The session of p, when the other player has produced so many inputs. *)
SessionFits(p, s, made) ==
  /\ Sound(s)
  /\ s.peer = p
  /\ Elapsed(s) <= FrameCount
  /\ Scripted(s.local, p, Elapsed(s))
  /\ Scripted(s.remote, OtherPlayer(p), made)

(* The world after the first inputs of the script. *)
ScriptWorld(boundary) ==
  [frame  |-> boundary,
   inputs |-> [f \in FrameNumbers |->
                IF Position(f) < Position(boundary) THEN Truth(Position(f)) ELSE NoPair]]

(* The numbers of a fitting session: small ones that do not wrap. *)
LEMMA SessionFacts ==
  ASSUME NEW p \in Players, NEW s, NEW made, SessionFits(p, s, made)
  PROVE  /\ s \in Sessions /\ s.world \in Worlds /\ s.world.frame \in FrameNumbers
         /\ s.confirmed \in FrameNumbers /\ Position(s.confirmed) \in Nat
         /\ Elapsed(s) = s.world.frame /\ Position(s.confirmed) = s.confirmed
         /\ Elapsed(s) \in Nat /\ Elapsed(s) <= FrameCount
         /\ Position(s.confirmed) <= Elapsed(s)
         /\ 2 * Elapsed(s) < Modulus /\ InReach(s)
<1>1. /\ s \in Sessions /\ s.world \in Worlds /\ s.world.frame \in FrameNumbers
      /\ s.confirmed \in FrameNumbers /\ Elapsed(s) <= FrameCount
      /\ Position(s.confirmed) <= Elapsed(s) /\ 2 * Elapsed(s) < Modulus
  BY DEF SessionFits, Sound, Sessions, Worlds, ConfirmedFits, WorldFits
<1>2. /\ Elapsed(s) = s.world.frame /\ Position(s.confirmed) = s.confirmed
      /\ Elapsed(s) \in Nat /\ Position(s.confirmed) \in Nat
  BY <1>1, PositionFacts, PositionIsFrame DEF Elapsed
<1>3. InReach(s)
  BY <1>1, <1>2, GameFacts DEF InReach
<1>4. QED
  BY <1>1, <1>2, <1>3

(* No frame of the game displaces another: what confirmed a frame is still *)
(* in the ring.                                                            *)
LEMMA ConfirmedIsKnown ==
  ASSUME NEW p \in Players, NEW s, NEW made \in Nat, made <= FrameCount,
         SessionFits(p, s, made), NEW f \in FrameNumbers,
         Position(f) < Position(s.confirmed)
  PROVE  Contains(s.remote, f)
<1>1. PICK g \in FrameNumbers : /\ Contains(s.remote, g)
                                /\ RingIndex(g) = RingIndex(f)
                                /\ Position(f) <= Position(g)
  BY DEF SessionFits, Sound, ConfirmedFits, Kept
<1>2. Position(g) < made
  BY <1>1 DEF SessionFits, Scripted
<1>3. Position(f) \in Nat /\ Position(g) \in Nat
  BY PositionFacts
<1>4. g = f
  BY <1>1, <1>2, <1>3, GameFacts, PositionsInSlot
<1>5. QED
  BY <1>1, <1>4

(* A session's confirmed frames were simulated from the script.            *)
LEMMA ConfirmedIsScripted ==
  ASSUME NEW p \in Players, NEW s, NEW made \in Nat, made <= FrameCount,
         SessionFits(p, s, made)
  PROVE  FollowsScript(s.world, s.confirmed)
<1> SUFFICES ASSUME NEW f \in FrameNumbers, Position(f) < Position(s.confirmed)
             PROVE  s.world.inputs[f] = Truth(Position(f))
  BY DEF FollowsScript
<1>1. /\ Position(f) \in Nat /\ Position(f) < Elapsed(s)
      /\ Elapsed(s) - Position(f) <= Capacity
  BY SessionFacts, GameFacts, PositionFacts
<1>2. Contains(s.remote, f)
  BY ConfirmedIsKnown
<1>3. /\ Contains(s.local, f) /\ Contains(s.used, f)
      /\ s.world.inputs[f] = MakePair(s, Get(s.local, f), Get(s.used, f))
  BY <1>1 DEF SessionFits, Sound, HistoryFits
<1>4. Get(s.used, f) = Get(s.remote, f)
  <2>1. SUFFICES ASSUME Get(s.used, f) # Get(s.remote, f) PROVE FALSE
    OBVIOUS
  <2>2. s.dirty # NoFrame /\ Position(s.dirty) <= Position(f)
    BY <1>2, <1>3, <2>1 DEF SessionFits, Sound, MistakesPending
  <2>3. Position(s.confirmed) <= Position(s.dirty)
    BY <2>2 DEF SessionFits, Sound, DirtyFits
  <2>4. Position(s.dirty) \in Nat /\ Position(s.confirmed) \in Nat
    BY <2>2, SessionFacts, PositionFacts DEF Sessions
  <2>5. QED
    BY <1>1, <2>2, <2>3, <2>4
<1>5. /\ Get(s.local, f) = Script(p, Position(f))
      /\ Get(s.used, f) = Script(OtherPlayer(p), Position(f))
      /\ s.peer = p
  BY <1>2, <1>3, <1>4 DEF SessionFits, Scripted
<1>6. MakePair(s, Script(p, Position(f)), Script(OtherPlayer(p), Position(f)))
        = Truth(Position(f))
  BY <1>5, Opponents DEF MakePair, Truth
<1>7. QED
  BY <1>3, <1>5, <1>6

(* The other player has produced what this one has confirmed. *)
LEMMA ConfirmedWasMade ==
  ASSUME NEW p \in Players, NEW s, NEW made \in Nat, made <= FrameCount,
         SessionFits(p, s, made)
  PROVE  Position(s.confirmed) <= made
<1>1. SUFFICES ASSUME Position(s.confirmed) > 0 PROVE Position(s.confirmed) <= made
  BY SessionFacts
<1> DEFINE f == s.confirmed - 1
<1>2. f \in FrameNumbers /\ f = Position(f) /\ f < Position(s.confirmed)
  BY <1>1, SessionFacts, PositionIsFrame, ModulusAssumption DEF FrameNumbers
<1>3. Contains(s.remote, f)
  BY <1>2, ConfirmedIsKnown
<1>4. f < made
  BY <1>2, <1>3 DEF SessionFits, Scripted
<1>5. QED
  BY <1>4, SessionFacts

(* hash_at gives the hashes of the scripted game only. *)
LEMMA HashIsScripted ==
  ASSUME NEW p \in Players, NEW s, NEW made \in Nat, made <= FrameCount,
         SessionFits(p, s, made), NEW b \in FrameNumbers, HashAt(s, b).error = "ok"
  PROVE  /\ Position(b) <= Position(s.confirmed)
         /\ HashAt(s, b).value = ScriptWorld(b)
<1>1. /\ ~ FrameBefore(s.confirmed, b) /\ Contains(s.hashes, b)
      /\ HashAt(s, b).value = Get(s.hashes, b)
  BY DEF HashAt
<1>2. /\ Position(b) <= Elapsed(s)
      /\ Get(s.hashes, b) = Prefix(s.world, b)
  BY <1>1 DEF SessionFits, Sound, HashesFit
<1>3. Position(b) <= Position(s.confirmed)
  <2>1. /\ Position(b) \in Nat
        /\ 2 * Position(b) < Modulus /\ 2 * Position(s.confirmed) < Modulus
    BY <1>2, SessionFacts, PositionFacts, ModulusAssumption
  <2>2. QED
    BY <1>1, <2>1, SessionFacts, PositionOrder
<1>4. \A f \in FrameNumbers :
        Position(f) < Position(b) => s.world.inputs[f] = Truth(Position(f))
  BY <1>3, ConfirmedIsScripted, SessionFacts, PositionFacts DEF FollowsScript
<1>5. Prefix(s.world, b) = ScriptWorld(b)
  BY <1>4 DEF Prefix, ScriptWorld
<1>6. QED
  BY <1>1, <1>2, <1>3, <1>5

(* A session that has confirmed the whole game is at its end. *)
LEMMA WholeGame ==
  ASSUME NEW p \in Players, NEW s, NEW made \in Nat, made <= FrameCount,
         SessionFits(p, s, made), s.confirmed = FrameCount
  PROVE  s.world = ScriptWorld(FrameCount)
<1>1. s.world.frame = FrameCount /\ Position(s.world.frame) = Elapsed(s)
  BY SessionFacts, GameFacts DEF Elapsed
<1>2. s.world.inputs = [f \in FrameNumbers |-> s.world.inputs[f]]
      /\ s.world = [frame |-> s.world.frame, inputs |-> s.world.inputs]
  BY SessionFacts DEF Worlds
<1>3. \A f \in FrameNumbers :
        s.world.inputs[f] = IF Position(f) < Position(FrameCount)
                            THEN Truth(Position(f)) ELSE NoPair
  <2>1. \A f \in FrameNumbers : Position(f) \in Nat
    BY PositionFacts
  <2>2. \A f \in FrameNumbers : Elapsed(s) <= Position(f) => s.world.inputs[f] = NoPair
    BY DEF SessionFits, Sound, WorldFits
  <2>3. QED
    BY <1>1, <2>1, <2>2, SessionFacts, ConfirmedIsScripted DEF FollowsScript
<1>4. [f \in FrameNumbers |-> s.world.inputs[f]]
        = [f \in FrameNumbers |-> IF Position(f) < Position(FrameCount)
                                  THEN Truth(Position(f)) ELSE NoPair]
  BY <1>3
<1>5. QED
  BY <1>1, <1>2, <1>4 DEF ScriptWorld

-----------------------------------------------------------------------------
(* The calls of a driver *)

(* What a call may do to a session without simulating a new frame. *)
Later(s, t) ==
  /\ Elapsed(t) = Elapsed(s)
  /\ Position(s.confirmed) <= Position(t.confirmed)

(* A ring that holds the script still does with one more of its inputs. *)
LEMMA PutScripted ==
  ASSUME NEW ring \in RingOf(Buttons), NEW player \in Players, NEW limit \in Nat,
         NEW more \in Nat, limit <= more,
         Scripted(ring, player, limit), NEW f \in FrameNumbers, Position(f) < more,
         Script(player, Position(f)) \in Buttons
  PROVE  Scripted(Put(ring, f, Script(player, Position(f))), player, more)
<1> DEFINE new == Put(ring, f, Script(player, Position(f)))
<1>1. /\ Contains(new, f) => Get(new, f) = Script(player, Position(f))
      /\ \A g \in FrameNumbers \ {f} :
           Contains(new, g) => Contains(ring, g) /\ Get(new, g) = Get(ring, g)
  BY PutFacts
<1> HIDE DEF new
<1>2. \A g \in FrameNumbers : Position(g) \in Nat
  BY PositionFacts
<1>3. Scripted(new, player, more)
  BY <1>1, <1>2 DEF Scripted
<1>4. QED
  BY <1>3 DEF new

(* An input of the other player, accepted or refused. *)
LEMMA IngestFits ==
  ASSUME NEW p \in Players, NEW s, NEW made \in Nat, made <= FrameCount,
         SessionFits(p, s, made), NEW k \in 0 .. made - 1
  PROVE  LET q == OtherPlayer(p)
             r == IngestRemote(s, q, FrameOffset(StartFrame, k), Script(q, k))
         IN  /\ SessionFits(p, r.session, made) /\ Later(s, r.session)
             /\ r \in [session : Sessions, error : Errors]
<1> DEFINE q == OtherPlayer(p)
           r == IngestRemote(s, q, k, Script(q, k))
           t == r.session
<1>1. /\ FrameOffset(StartFrame, k) = k /\ k \in FrameNumbers
      /\ Position(k) = k /\ 2 * Position(k) < Modulus /\ k \in Nat /\ k < made
  BY GameFacts, FrameOfPosition
<1>2. q \in Players /\ Script(q, k) \in Buttons
  BY <1>1, GameFacts, Opponents
<1>3. InReach(s) /\ Sound(s)
  BY SessionFacts DEF SessionFits
<1>4. Same(s, k, Script(q, k))
  <2>1. SUFFICES ASSUME Position(k) < Position(s.confirmed)
                 PROVE  Contains(s.remote, k) /\ Get(s.remote, k) = Script(q, k)
    BY DEF Same
  <2>2. Contains(s.remote, k)
    BY <1>1, <2>1, ConfirmedIsKnown
  <2>3. QED
    BY <1>1, <2>2 DEF SessionFits, Scripted
<1>5. /\ Sound(t) /\ t.peer = s.peer /\ t.world = s.world /\ t.local = s.local
      /\ t = s \/ t.remote = Put(s.remote, k, Script(q, k))
      /\ Position(s.confirmed) <= Position(t.confirmed)
  BY <1>1, <1>2, <1>3, <1>4, IngestSound
<1>6. r = [session |-> t, error |-> r.error] /\ r.error \in Errors
  BY DEF IngestRemote, Result, Errors
<1> HIDE DEF r
<1>7. Elapsed(t) = Elapsed(s)
  BY <1>5 DEF Elapsed
<1>8. Scripted(t.remote, q, made)
  <2>1. CASE t = s
    BY <2>1 DEF SessionFits
  <2>2. CASE t.remote = Put(s.remote, k, Script(q, k))
    <3>1. s.remote \in RingOf(Buttons) /\ Scripted(s.remote, q, made)
      BY DEF SessionFits, Sound, Sessions
    <3>2. Scripted(Put(s.remote, k, Script(q, Position(k))), q, made)
      BY <1>1, <1>2, <3>1, PutScripted
    <3>3. QED
      BY <1>1, <2>2, <3>2
  <2>3. QED
    BY <1>5, <2>1, <2>2
<1>9. SessionFits(p, t, made) /\ Later(s, t)
  BY <1>5, <1>7, <1>8 DEF SessionFits, Later
<1>10. r \in [session : Sessions, error : Errors]
  BY <1>5, <1>6 DEF Sound
<1>11. QED
  BY <1>1, <1>9, <1>10 DEF r

(* A correction succeeds. *)
LEMMA FlushFits ==
  ASSUME SimulationIsTotal, NEW p \in Players, NEW s, NEW made \in Nat,
         SessionFits(p, s, made)
  PROVE  LET r == FlushCorrections(s)
         IN  /\ r.error = "ok"
             /\ SessionFits(p, r.session, made) /\ Later(s, r.session)
<1> DEFINE r == FlushCorrections(s)
           t == r.session
<1>1. /\ r.error = "ok" /\ Sound(t) /\ t.world.frame = s.world.frame
      /\ t.peer = s.peer /\ t.remote = s.remote /\ t.local = s.local
      /\ Position(s.confirmed) <= Position(t.confirmed)
  BY FlushSound DEF SessionFits
<1> HIDE DEF r
<1>2. Elapsed(t) = Elapsed(s)
  BY <1>1 DEF Elapsed
<1>3. SessionFits(p, t, made) /\ Later(s, t)
  BY <1>1, <1>2 DEF SessionFits, Later
<1>4. QED
  BY <1>1, <1>3 DEF r

(* A driver's next frame succeeds, with a correction first if one is due.  *)
LEMMA AdvanceFits ==
  ASSUME SimulationIsTotal, NEW p \in Players, NEW s, NEW made \in Nat,
         SessionFits(p, s, made), Elapsed(s) < FrameCount
  PROVE  LET r == Advance(s, p, s.world.frame, Script(p, Elapsed(s)))
         IN  /\ r.error = "ok"
             /\ SessionFits(p, r.session, made)
             /\ Elapsed(r.session) = Elapsed(s) + 1
             /\ Position(s.confirmed) <= Position(r.session.confirmed)
<1> DEFINE local == Script(p, Elapsed(s))
           r == Advance(s, p, s.world.frame, local)
           t == r.session
<1>1. /\ Elapsed(s) \in Nat /\ Elapsed(s) <= FrameCount
      /\ s.world.frame \in FrameNumbers /\ Position(s.world.frame) = Elapsed(s)
      /\ local \in Buttons /\ 2 * (Elapsed(s) + 1) < Modulus
  BY SessionFacts, GameFacts, ModulusAssumption DEF Elapsed
<1>2. Sound(s) /\ s.peer = p
  BY DEF SessionFits
<1> HIDE DEF local
<1>3. /\ r.error = "ok" /\ Sound(t) /\ t.peer = s.peer /\ t.remote = s.remote
      /\ Elapsed(t) = Elapsed(s) + 1
      /\ t.local = Put(s.local, s.world.frame, local)
      /\ Position(s.confirmed) <= Position(t.confirmed)
  BY <1>1, <1>2, AdvanceSound
<1> HIDE DEF r
<1>4. Scripted(t.local, p, Elapsed(s) + 1)
  <2>1. s.local \in RingOf(Buttons) /\ Scripted(s.local, p, Elapsed(s))
    BY DEF SessionFits, Sound, Sessions
  <2>2. Scripted(Put(s.local, s.world.frame, Script(p, Position(s.world.frame))),
                 p, Elapsed(s) + 1)
    BY <1>1, <2>1, PutScripted DEF local
  <2>3. QED
    BY <1>1, <1>3, <2>2 DEF local
<1>5. SessionFits(p, t, made)
  BY <1>1, <1>2, <1>3, <1>4, GameFacts DEF SessionFits
<1>6. QED
  BY <1>3, <1>5 DEF r, local

(* The session's counters are nothing to the others of its parts. *)
LEMMA CountersDoNotMatter ==
  ASSUME NEW p \in Players, NEW s, NEW made, SessionFits(p, s, made)
  PROVE  LET t == [s EXCEPT !.metrics = NewSession(p).metrics]
         IN  /\ SessionFits(p, t, made) /\ Later(s, t)
             /\ t.world = s.world /\ t.confirmed = s.confirmed
<1> DEFINE m == NewSession(p).metrics
           t == [s EXCEPT !.metrics = m]
<1>1. m \in Metrics
  BY DEF NewSession, Metrics
<1> HIDE DEF m
<1>2. s \in Sessions
  BY DEF SessionFits, Sound
<1>3. /\ t \in Sessions
      /\ t.peer = s.peer /\ t.world = s.world /\ t.local = s.local
      /\ t.remote = s.remote /\ t.used = s.used /\ t.snapshots = s.snapshots
      /\ t.hashes = s.hashes /\ t.dirty = s.dirty /\ t.confirmed = s.confirmed
  BY <1>1, <1>2 DEF Sessions
<1> HIDE DEF t
<1>4. Elapsed(t) = Elapsed(s)
  BY <1>3 DEF Elapsed
<1>5. Sound(t)
  <2>1. /\ WorldFits(t) /\ HashesFit(t) /\ SnapshotsFit(t) /\ NothingAhead(t)
        /\ LeadFits(t) /\ MistakesPending(t) /\ DirtyFits(t) /\ ConfirmedFits(t)
    BY <1>3, <1>4 DEF SessionFits, Sound, WorldFits, HashesFit, SnapshotsFit,
       NothingAhead, LeadFits, MistakesPending, DirtyFits, ConfirmedFits
  <2>2. \A x, y : MakePair(t, x, y) = MakePair(s, x, y)
    BY <1>3 DEF MakePair
  <2>3. HistoryFits(t)
    BY <1>3, <1>4, <2>2 DEF SessionFits, Sound, HistoryFits
  <2>4. QED
    BY <1>3, <2>1, <2>3 DEF Sound
<1>6. SessionFits(p, t, made)
  BY <1>3, <1>4, <1>5 DEF SessionFits
<1>7. Later(s, t)
  BY <1>3, <1>4, <1>2, PositionFacts DEF Later, Sessions
<1>8. QED
  BY <1>3, <1>6, <1>7 DEF t, m

-----------------------------------------------------------------------------
(* Repetition: the loops of a driver are recursive functions over the      *)
(* numbers of their turns.                                                 *)

(* The states of n turns of F, all of them in S. *)
IsLoop(h, S, base, n, F) ==
  /\ h \in [0 .. n -> S]
  /\ h[0] = base
  /\ \A i \in 1 .. n : h[i] = F[<<h[i - 1], i>>]

(* A loop whose turns stay in a set S has such a function.                 *)
LEMMA LoopExists ==
  ASSUME NEW S, NEW base \in S, NEW n \in Nat, NEW F \in [S \X (1 .. n) -> S]
  PROVE  \E h : IsLoop(h, S, base, n, F)
<1> USE DEF IsLoop
<1> DEFINE Runs(h, m) == /\ h \in [0 .. m -> S] /\ h[0] = base
                         /\ \A i \in 1 .. m : h[i] = F[<<h[i - 1], i>>]
           Stuck == {m \in 0 .. n : ~ \E h : Runs(h, m)}
<1>1. SUFFICES ASSUME Stuck # {} PROVE FALSE
  <2>1. n \in 0 .. n
    OBVIOUS
  <2>2. \E h : Runs(h, n)
    BY <1>1, <2>1
  <2>3. QED
    BY <2>2
<1>2. PICK m \in Stuck : \A k \in Stuck : m <= k
  <2>1. Stuck \in SUBSET Nat
    OBVIOUS
  <2> HIDE DEF Stuck
  <2>2. QED
    BY <1>1, <2>1, LeastElement
<1>3. m \in 0 .. n /\ ~ \E h : Runs(h, m)
  OBVIOUS
<1>4. m # 0
  <2>1. Runs([i \in 0 .. 0 |-> base], 0)
    OBVIOUS
  <2>2. QED
    BY <1>3, <2>1
<1>5. m - 1 \in 0 .. n /\ m - 1 \notin Stuck
  BY <1>2, <1>3, <1>4
<1>6. PICK g : Runs(g, m - 1)
  BY <1>5
<1> DEFINE last == F[<<g[m - 1], m>>]
           h == [i \in 0 .. m |-> IF i < m THEN g[i] ELSE last]
<1>7. last \in S
  <2>1. g[m - 1] \in S /\ m \in 1 .. n
    BY <1>3, <1>4, <1>6
  <2>2. QED
    BY <2>1
<1> HIDE DEF Stuck
<1>8. Runs(h, m)
  <2>1. h \in [0 .. m -> S]
    BY <1>3, <1>6, <1>7
  <2>2. h[0] = base
    BY <1>3, <1>4, <1>6
  <2>3. ASSUME NEW i \in 1 .. m PROVE h[i] = F[<<h[i - 1], i>>]
    <3>1. i - 1 \in 0 .. m /\ i - 1 < m /\ h[i - 1] = g[i - 1]
      BY <1>3
    <3>2. CASE i = m
      BY <1>3, <3>1, <3>2
    <3>3. CASE i # m
      BY <1>3, <1>6, <3>1, <3>3
    <3>4. QED
      BY <3>2, <3>3
  <2>4. QED
    BY <2>1, <2>2, <2>3
<1>9. QED
  BY <1>3, <1>8

(* Two loops with one start and one next turn are the same. *)
SameTurns(g, h, n) ==
  /\ g[0] = h[0]
  /\ \A i \in 1 .. n : g[i - 1] = h[i - 1] => g[i] = h[i]

SameLoop(g, h, n) == \A i \in 0 .. n : g[i] = h[i]

(* So they are the same at every turn. *)
LEMMA LoopIs ==
  ASSUME NEW n \in Nat, NEW g, NEW h, SameTurns(g, h, n)
  PROVE  SameLoop(g, h, n)
<1> USE DEF SameTurns, SameLoop
<1> DEFINE Apart == {i \in 0 .. n : g[i] # h[i]}
<1>1. SUFFICES ASSUME Apart # {} PROVE FALSE
  OBVIOUS
<1>2. PICK i \in Apart : \A k \in Apart : i <= k
  <2>1. Apart \in SUBSET Nat
    OBVIOUS
  <2> HIDE DEF Apart
  <2>2. QED
    BY <1>1, <2>1, LeastElement
<1>3. i # 0 /\ i \in 1 .. n
  OBVIOUS
<1>4. i - 1 \in 0 .. n /\ i - 1 \notin Apart
  BY <1>2, <1>3
<1>5. QED
  BY <1>3, <1>4

(* The inputs of a packet, up to the first that is refused. *)
LEMMA IngestedFits ==
  ASSUME NEW p \in Players, NEW s, NEW made \in Nat, made <= FrameCount,
         SessionFits(p, s, made), NEW inputs \in Seq(0 .. made - 1)
  PROVE  LET r == Ingested(s, OtherPlayer(p), inputs)
         IN  /\ SessionFits(p, r.session, made) /\ Later(s, r.session)
             /\ r \in [session : Sessions, error : Errors]
<1> DEFINE q == OtherPlayer(p)
           n == Len(inputs)
           S == {r \in [session : Sessions, error : Errors] :
                   SessionFits(p, r.session, made) /\ Later(s, r.session)}
           Turn(r, i) ==
             IF r.error # "ok" THEN r
             ELSE IngestRemote(r.session, q, FrameOffset(StartFrame, inputs[i]),
                               Script(q, inputs[i]))
           base == Result(s, "ok")
           Rule(g) == [i \in 0 .. n |-> IF i = 0 THEN base ELSE Turn(g[i - 1], i)]
           after == CHOOSE g : g = Rule(g)
<1>1. Ingested(s, q, inputs) = after[n]
  BY DEF Ingested
<1>2. n \in Nat /\ \A i \in 1 .. n : inputs[i] \in 0 .. made - 1
  BY ElementOfSeq, LenProperties
<1> HIDE DEF n
<1>3. base \in S
  <2>1. s \in Sessions /\ Later(s, s)
    BY SessionFacts DEF Later
  <2>2. QED
    BY <2>1 DEF Result, Errors
<1>4. ASSUME NEW r \in S, NEW i \in 1 .. n PROVE Turn(r, i) \in S
  <2>1. CASE r.error # "ok"
    BY <2>1
  <2>2. CASE r.error = "ok"
    <3> DEFINE t == IngestRemote(r.session, q, FrameOffset(StartFrame, inputs[i]),
                                 Script(q, inputs[i]))
    <3>1. SessionFits(p, r.session, made) /\ Later(s, r.session)
      OBVIOUS
    <3>2. /\ SessionFits(p, t.session, made) /\ Later(r.session, t.session)
          /\ t \in [session : Sessions, error : Errors]
      BY <1>2, <3>1, IngestFits
    <3> HIDE DEF t
    <3>3. Later(s, t.session)
      BY <3>1, <3>2, SessionFacts DEF Later
    <3>4. t \in S
      BY <3>2, <3>3
    <3>5. QED
      BY <2>2, <3>4 DEF t
  <2>3. QED
    BY <2>1, <2>2
<1> HIDE DEF S, Turn, base
<1>5. PICK h \in [0 .. n -> S] : /\ h[0] = base
                                 /\ \A i \in 1 .. n : h[i] = Turn(h[i - 1], i)
  <2> DEFINE F == [x \in S \X (1 .. n) |-> Turn(x[1], x[2])]
  <2>1. F \in [S \X (1 .. n) -> S]
    BY <1>4
  <2>2. \A r \in S : \A i \in 1 .. n : F[<<r, i>>] = Turn(r, i)
    OBVIOUS
  <2> HIDE DEF F
  <2>3. PICK h : IsLoop(h, S, base, n, F)
    BY <1>2, <1>3, <2>1, LoopExists
  <2>4. \A i \in 1 .. n : h[i - 1] \in S
    BY <1>2, <2>3 DEF IsLoop
  <2>5. QED
    BY <2>2, <2>3, <2>4 DEF IsLoop
<1>6. h = Rule(h)
  BY <1>2, <1>5
<1>7. after = Rule(after)
  BY <1>6
<1> HIDE DEF after
<1>8. \A i \in 0 .. n : after[i] = h[i]
  <2>1. after[0] = h[0] /\ \A i \in 1 .. n : after[i] = Turn(after[i - 1], i)
    BY <1>2, <1>5, <1>7
  <2>2. \A i \in 1 .. n : after[i - 1] = h[i - 1] => after[i] = h[i]
    BY <1>5, <2>1
  <2>3. SameLoop(after, h, n)
    BY <1>2, <2>1, <2>2, LoopIs DEF SameTurns
  <2>4. QED
    BY <2>3 DEF SameLoop
<1>9. after[n] \in S
  BY <1>2, <1>5, <1>8
<1>10. QED
  BY <1>1, <1>9 DEF S

-----------------------------------------------------------------------------
(* A driver *)

Phases == {"absent", "handshake", "greeted", "running", "confirming", "resent",
           "finished", "failed"}

(* Before its first frame a driver has not heard the other's hello; in the *)
(* others it has.                                                          *)
Early == {"absent", "handshake", "greeted"}

Playing == {"running", "confirming", "resent", "finished"}

Verdicts == Errors \union {"desync", "hello_refused", "hello_identity", "timeout",
                           "replay_mismatch"}

(* HashOf with the set of faulty players given. *)
DigestOf(bad, p, world) == [world |-> world, biased |-> p \in bad /\ Hits(world)]

FinalHash(bad, p) == DigestOf(bad, p, ScriptWorld(FrameCount))

Drivers(final) ==
  [phase : Phases, session : Sessions, sequences : Windows, history : Nat,
   remoteFinal : SUBSET {final}, next : SequenceNumbers, drained : Nat,
   error : Verdicts]

(* What a peer has confirmed. *)
Agreed(e) == Position(e.session.confirmed)

Bounded(e) ==
  /\ e.history \in Nat /\ e.history <= FrameCount
  /\ Agreed(e) \in Nat /\ Agreed(e) <= FrameCount

(* A driver that finished knows the other's final hash, its own. *)
FinishedFits(p, d, bad) ==
  d.phase = "finished" =>
    /\ d.session.confirmed = FrameCount
    /\ d.remoteFinal = {DigestOf(bad, p, d.session.world)}

(* The driver of p, when the other one's is e. *)
DriverFits(p, d, e, bad, apart) ==
  /\ d \in Drivers(FinalHash(bad, OtherPlayer(p)))
  /\ SessionFits(p, d.session, e.history)
  /\ d.history = Elapsed(d.session)
  /\ d.phase \in Early => d.history = 0
  /\ d.phase = "running" => d.history < FrameCount
  /\ d.remoteFinal # {} => Agreed(e) = FrameCount
  /\ FinishedFits(p, d, bad)
  /\ bad = {} => d.error # "desync"
  /\ d.history > 0 \/ d.phase \in Playing => OtherPlayer(p) \notin apart

(* What reading may do to a driver. *)
Heard(d, t) ==
  /\ t.history = d.history
  /\ Agreed(d) <= Agreed(t)
  /\ t.phase \in {d.phase, "failed"}

(* The numbers of a fitting driver. *)
LEMMA DriverFacts ==
  ASSUME NEW p \in Players, NEW d, NEW e, NEW bad, NEW apart,
         DriverFits(p, d, e, bad, apart)
  PROVE  /\ Bounded(d) /\ d.history = Elapsed(d.session) /\ Heard(d, d)
         /\ d.history = d.session.world.frame
         /\ d.session \in Sessions /\ d.session.world.frame \in FrameNumbers
         /\ Agreed(d) = d.session.confirmed
<1>1. /\ SessionFits(p, d.session, e.history) /\ d.history = Elapsed(d.session)
  BY DEF DriverFits
<1>2. /\ d.session \in Sessions /\ d.session.world.frame \in FrameNumbers
      /\ Elapsed(d.session) = d.session.world.frame
      /\ Elapsed(d.session) \in Nat /\ Elapsed(d.session) <= FrameCount
      /\ Position(d.session.confirmed) = d.session.confirmed
      /\ Position(d.session.confirmed) \in Nat
      /\ Position(d.session.confirmed) <= Elapsed(d.session)
  BY <1>1, SessionFacts
<1>3. Position(d.session.confirmed) <= FrameCount
  BY <1>2, GameFacts
<1>4. QED
  BY <1>1, <1>2, <1>3 DEF Bounded, Agreed, Heard

(* A driver that stops with an error. *)
LEMMA FailedFits ==
  ASSUME NEW p \in Players, NEW d, NEW e, NEW bad, NEW apart,
         DriverFits(p, d, e, bad, apart),
         NEW error \in Verdicts, bad = {} => error # "desync"
  PROVE  /\ DriverFits(p, Failed(d, error), e, bad, apart)
         /\ Heard(d, Failed(d, error))
<1> DEFINE t == Failed(d, error)
<1>1. d \in Drivers(FinalHash(bad, OtherPlayer(p)))
  BY DEF DriverFits
<1>2. /\ t \in Drivers(FinalHash(bad, OtherPlayer(p)))
      /\ t.phase = "failed" /\ t.error = error /\ t.session = d.session
      /\ t.history = d.history /\ t.remoteFinal = d.remoteFinal
  BY <1>1 DEF Failed, Drivers, Phases
<1> HIDE DEF t
<1>3. DriverFits(p, t, e, bad, apart)
  BY <1>2 DEF DriverFits, FinishedFits, Early, Playing
<1>4. Heard(d, t)
  BY <1>2, DriverFacts DEF Heard, Bounded, Agreed
<1>5. QED
  BY <1>3, <1>4 DEF t

(* A driver whose session was called. *)
LEMMA WithSession ==
  ASSUME NEW p \in Players, NEW d, NEW e, NEW bad, NEW apart,
         DriverFits(p, d, e, bad, apart), d.phase # "finished",
         NEW s, SessionFits(p, s, e.history), Later(d.session, s)
  PROVE  /\ DriverFits(p, [d EXCEPT !.session = s], e, bad, apart)
         /\ Heard(d, [d EXCEPT !.session = s])
         /\ [d EXCEPT !.session = s].session = s
         /\ [d EXCEPT !.session = s].phase = d.phase
<1> DEFINE t == [d EXCEPT !.session = s]
<1>1. d \in Drivers(FinalHash(bad, OtherPlayer(p))) /\ s \in Sessions
  BY SessionFacts DEF DriverFits
<1>2. /\ t \in Drivers(FinalHash(bad, OtherPlayer(p)))
      /\ t.phase = d.phase /\ t.error = d.error /\ t.session = s
      /\ t.history = d.history /\ t.remoteFinal = d.remoteFinal
  BY <1>1 DEF Drivers
<1> HIDE DEF t
<1>3. DriverFits(p, t, e, bad, apart)
  BY <1>2 DEF DriverFits, FinishedFits, Later
<1>4. Heard(d, t)
  BY <1>2 DEF Heard, Agreed, Later
<1>5. QED
  BY <1>2, <1>3, <1>4 DEF t

(* The window only tells which packets to read. *)
LEMMA ObserveType ==
  ASSUME NEW w \in Windows, NEW n \in SequenceNumbers
  PROVE  Observe(w, n).window \in Windows
<1> DEFINE forward == (n - w.newest) % SequenceModulus
           behind  == (w.newest - n) % SequenceModulus
<1>1. 0 \in Offsets
  BY WindowAssumption DEF Offsets
<1>2. /\ [initialized |-> TRUE, newest |-> n, received |-> {0}] \in Windows
      /\ Advanced(w, n, forward) \in Windows
  BY <1>1 DEF Windows, Advanced
<1>3. behind \in Nat
  BY WindowAssumption DEF Windows, SequenceNumbers
<1>4. behind < WindowWidth => [w EXCEPT !.received = @ \union {behind}] \in Windows
  BY <1>3, WindowAssumption DEF Windows, Offsets
<1> HIDE DEF forward, behind
<1>5. ~ (behind >= WindowWidth) => behind < WindowWidth
  BY <1>3, WindowAssumption
<1>6. QED
  BY <1>2, <1>4, <1>5 DEF Observe, forward, behind

(* A driver whose window has observed a packet. *)
LEMMA WithWindow ==
  ASSUME NEW p \in Players, NEW d, NEW e, NEW bad, NEW apart,
         DriverFits(p, d, e, bad, apart), NEW w \in Windows
  PROVE  /\ DriverFits(p, [d EXCEPT !.sequences = w], e, bad, apart)
         /\ Heard(d, [d EXCEPT !.sequences = w])
         /\ [d EXCEPT !.sequences = w].session = d.session
         /\ [d EXCEPT !.sequences = w].phase = d.phase
<1> DEFINE t == [d EXCEPT !.sequences = w]
<1>1. d \in Drivers(FinalHash(bad, OtherPlayer(p)))
  BY DEF DriverFits
<1>2. /\ t \in Drivers(FinalHash(bad, OtherPlayer(p)))
      /\ t.phase = d.phase /\ t.error = d.error /\ t.session = d.session
      /\ t.history = d.history /\ t.remoteFinal = d.remoteFinal
  BY <1>1 DEF Drivers
<1> HIDE DEF t
<1>3. DriverFits(p, t, e, bad, apart)
  BY <1>2 DEF DriverFits, FinishedFits
<1>4. Heard(d, t)
  BY <1>2, DriverFacts DEF Heard, Bounded, Agreed
<1>5. QED
  BY <1>2, <1>3, <1>4 DEF t

-----------------------------------------------------------------------------
(* Packets *)

(* The hashes a peer gives away: of the scripted game, up to what it has   *)
(* confirmed.                                                              *)
ConfirmedHashes(bad, q, e) ==
  {[frame |-> b, hash |-> DigestOf(bad, q, ScriptWorld(b))] :
     b \in {b \in FrameNumbers : Position(b) <= Agreed(e)}}

(* What the driver e of q may have sent. *)
PacketsOf(bad, q, e) ==
  {HelloPacket(q)} \union
  [type : {"input"}, sender : {q}, sequence : SequenceNumbers,
   inputs : Seq(0 .. e.history - 1), hashes : SUBSET ConfirmedHashes(bad, q, e)]

(* Hashes of the scripted game that compare as equal, or whose difference  *)
(* is that of a faulty peer.                                               *)
LEMMA CompareFits ==
  ASSUME NEW p \in Players, NEW d, NEW e, Bounded(e),
         DriverFits(p, d, e, faulty, mismatched), d.phase # "finished",
         NEW hashes \in SUBSET ConfirmedHashes(faulty, OtherPlayer(p), e)
  PROVE  /\ DriverFits(p, CompareHashes(p, d, hashes), e, faulty, mismatched)
         /\ Heard(d, CompareHashes(p, d, hashes))
<1> DEFINE q == OtherPlayer(p)
           compared == Compared(d, hashes)
           differing == {h \in compared : HashOf(p, HashAt(d.session, h.frame).value) # h.hash}
           final == {h.hash : h \in {h \in compared : h.frame = FrameCount}}
           t == [d EXCEPT !.remoteFinal = final]
<1>1. ASSUME NEW h \in compared
      PROVE  /\ h.frame \in FrameNumbers /\ Position(h.frame) <= Agreed(e)
             /\ h.hash = DigestOf(faulty, q, ScriptWorld(h.frame))
             /\ HashAt(d.session, h.frame).error = "ok"
  BY DEF Compared, ConfirmedHashes
<1>2. ASSUME faulty = {} PROVE differing = {}
  <2>1. SUFFICES ASSUME NEW h \in compared
                 PROVE  HashOf(p, HashAt(d.session, h.frame).value) = h.hash
    OBVIOUS
  <2>2. HashAt(d.session, h.frame).value = ScriptWorld(h.frame)
    BY <1>1, HashIsScripted DEF DriverFits, Bounded
  <2>3. QED
    BY <1>1, <1>2, <2>2 DEF HashOf, DigestOf
<1>3. final \in SUBSET {FinalHash(faulty, q)}
  BY <1>1 DEF FinalHash
<1>4. ASSUME final # {} PROVE Agreed(e) = FrameCount
  <2>1. PICK h \in compared : h.frame = FrameCount
    BY <1>4
  <2>2. FrameCount <= Agreed(e)
    BY <1>1, <2>1, GameFacts, PositionIsFrame
  <2>3. QED
    BY <2>2, GameFacts DEF Bounded
<1>5. CompareHashes(p, d, hashes)
        = IF differing # {} THEN Failed(d, "desync") ELSE IF final # {} THEN t ELSE d
  BY DEF CompareHashes
<1>6. CASE differing # {}
  <2>1. "desync" \in Verdicts /\ faulty # {}
    BY <1>2, <1>6 DEF Verdicts
  <2>2. QED
    BY <1>5, <1>6, <2>1, FailedFits
<1>7. CASE differing = {} /\ final # {}
  <2> HIDE DEF final
  <2>1. d \in Drivers(FinalHash(faulty, q))
    BY DEF DriverFits
  <2>2. /\ t \in Drivers(FinalHash(faulty, q))
        /\ t.phase = d.phase /\ t.error = d.error /\ t.session = d.session
        /\ t.history = d.history
    BY <1>3, <2>1 DEF Drivers
  <2>3. DriverFits(p, t, e, faulty, mismatched)
    BY <1>4, <1>7, <2>2 DEF DriverFits, FinishedFits
  <2>4. Heard(d, t)
    BY <2>2, DriverFacts DEF Heard, Bounded, Agreed
  <2>5. QED
    BY <1>5, <1>7, <2>3, <2>4
<1>8. CASE differing = {} /\ final = {}
  BY <1>5, <1>8, DriverFacts
<1>9. QED
  BY <1>6, <1>7, <1>8

(* receive_one, whatever the packet. *)
LEMMA ReceiveFits ==
  ASSUME SimulationIsTotal, NEW p \in Players, NEW d, NEW e, Bounded(e),
         DriverFits(p, d, e, faulty, mismatched), d.phase # "finished",
         NEW packet \in PacketsOf(faulty, OtherPlayer(p), e)
  PROVE  /\ DriverFits(p, Receive(p, d, packet), e, faulty, mismatched)
         /\ Heard(d, Receive(p, d, packet))
<1> DEFINE q == OtherPlayer(p)
           Fits(t) == DriverFits(p, t, e, faulty, mismatched) /\ Heard(d, t)
<1>1. CASE packet = HelloPacket(q)
  <2>1. "hello_refused" \in Verdicts
    BY DEF Verdicts
  <2>2. Receive(p, d, packet) \in {d, Failed(d, "hello_refused")}
    BY <1>1 DEF Receive, HelloPacket
  <2>3. QED
    BY <2>1, <2>2, FailedFits, DriverFacts
<1>2. CASE packet # HelloPacket(q)
  <2>1. /\ packet.type = "input" /\ packet.sender = q
        /\ packet.sequence \in SequenceNumbers
        /\ packet.inputs \in Seq(0 .. e.history - 1)
        /\ packet.hashes \in SUBSET ConfirmedHashes(faulty, q, e)
    BY <1>2 DEF PacketsOf
  <2> DEFINE observed == Observe(d.sequences, packet.sequence)
             seen     == [d EXCEPT !.sequences = observed.window]
             ingested == Ingested(d.session, q, packet.inputs)
             flushed  == FlushCorrections(ingested.session)
             refused  == [seen EXCEPT !.session = ingested.session]
             taken    == [seen EXCEPT !.session = flushed.session]
  <2>2. /\ SessionFits(p, ingested.session, e.history)
        /\ Later(d.session, ingested.session)
        /\ ingested.error \in Errors
    BY <2>1, IngestedFits DEF Bounded, DriverFits
  <2>3. /\ flushed.error = "ok"
        /\ SessionFits(p, flushed.session, e.history)
        /\ Later(ingested.session, flushed.session)
    BY <2>2, FlushFits DEF Bounded
  <2>4. Receive(p, d, packet)
          = IF observed.disposition \notin Accepting THEN seen
            ELSE IF ingested.error # "ok" THEN Failed(refused, ingested.error)
            ELSE CompareHashes(p, taken, packet.hashes)
    BY <2>1, <2>3 DEF Receive, ReceiveInput
  <2>5. observed.window \in Windows
    BY <2>1, ObserveType DEF DriverFits, Drivers
  <2> HIDE DEF observed
  <2>6. Fits(seen) /\ seen.session = d.session /\ seen.phase = d.phase
    BY <2>5, WithWindow
  <2> HIDE DEF seen, flushed
  <2>7. Later(d.session, flushed.session)
    BY <2>2, <2>3, SessionFacts DEF Later, DriverFits
  <2> HIDE DEF ingested
  <2>8. /\ DriverFits(p, refused, e, faulty, mismatched) /\ Heard(seen, refused)
        /\ DriverFits(p, taken, e, faulty, mismatched) /\ Heard(seen, taken)
        /\ refused.phase = d.phase /\ taken.phase = d.phase
    BY <2>2, <2>3, <2>6, <2>7, WithSession
  <2> HIDE DEF refused, taken
  <2>9. ASSUME NEW t, NEW u, Heard(seen, t), Heard(t, u),
               DriverFits(p, t, e, faulty, mismatched),
               DriverFits(p, u, e, faulty, mismatched)
        PROVE  Fits(u)
    <3>1. Agreed(d) \in Nat /\ Agreed(seen) \in Nat /\ Agreed(t) \in Nat /\ Agreed(u) \in Nat
      BY <2>6, <2>9, DriverFacts DEF Bounded
    <3>2. QED
      BY <2>6, <2>9, <3>1 DEF Heard
  <2>10. ASSUME ingested.error # "ok" PROVE Fits(Failed(refused, ingested.error))
    <3>1. ingested.error \in Verdicts /\ ingested.error # "desync"
      BY <2>2 DEF Verdicts, Errors
    <3>2. /\ DriverFits(p, Failed(refused, ingested.error), e, faulty, mismatched)
          /\ Heard(refused, Failed(refused, ingested.error))
      BY <2>8, <3>1, FailedFits
    <3>3. QED
      BY <2>8, <2>9, <3>2
  <2>11. Fits(CompareHashes(p, taken, packet.hashes))
    <3>1. /\ DriverFits(p, CompareHashes(p, taken, packet.hashes), e, faulty, mismatched)
          /\ Heard(taken, CompareHashes(p, taken, packet.hashes))
      BY <2>1, <2>8, CompareFits
    <3>2. QED
      BY <2>8, <2>9, <3>1
  <2>12. QED
    BY <2>4, <2>6, <2>10, <2>11
<1>3. QED
  BY <1>1, <1>2

(* drain_available: what has arrived, up to a failure. *)
LEMMA DrainedFits ==
  ASSUME SimulationIsTotal, NEW p \in Players, NEW d, NEW e, Bounded(e),
         DriverFits(p, d, e, faulty, mismatched), d.phase # "finished",
         channel[p] \in Seq(PacketsOf(faulty, OtherPlayer(p), e)),
         NEW count \in 0 .. Len(channel[p])
  PROVE  /\ DriverFits(p, Drained(p, d, count), e, faulty, mismatched)
         /\ Heard(d, Drained(p, d, count))
<1> DEFINE S == {t \in Drivers(FinalHash(faulty, OtherPlayer(p))) :
                   DriverFits(p, t, e, faulty, mismatched) /\ Heard(d, t)}
           Turn(t, i) == IF t.phase = "failed" THEN t ELSE Receive(p, t, channel[p][i])
           Rule(g) == [i \in 0 .. count |-> IF i = 0 THEN d ELSE Turn(g[i - 1], i)]
           after == CHOOSE g : g = Rule(g)
<1>1. Drained(p, d, count) = after[count]
  BY DEF Drained
<1>2. count \in Nat /\ \A i \in 1 .. count : channel[p][i] \in PacketsOf(faulty, OtherPlayer(p), e)
  <2>1. Len(channel[p]) \in Nat
    BY LenProperties
  <2>2. \A i \in 1 .. Len(channel[p]) : channel[p][i] \in PacketsOf(faulty, OtherPlayer(p), e)
    BY ElementOfSeq
  <2>3. QED
    BY <2>1, <2>2
<1>3. d \in S
  BY DriverFacts DEF DriverFits
<1>4. ASSUME NEW t \in S, NEW i \in 1 .. count PROVE Turn(t, i) \in S
  <2>1. /\ DriverFits(p, t, e, faulty, mismatched) /\ Heard(d, t)
        /\ t.phase # "finished"
    BY DEF Heard
  <2> DEFINE u == Receive(p, t, channel[p][i])
  <2>2. DriverFits(p, u, e, faulty, mismatched) /\ Heard(t, u)
    BY <1>2, <2>1, ReceiveFits
  <2> HIDE DEF u
  <2>3. u \in Drivers(FinalHash(faulty, OtherPlayer(p)))
    BY <2>2 DEF DriverFits
  <2>4. Heard(d, u)
    <3>1. Agreed(d) \in Nat /\ Agreed(t) \in Nat /\ Agreed(u) \in Nat
      BY <2>1, <2>2, DriverFacts DEF Bounded
    <3>2. QED
      BY <2>1, <2>2, <3>1 DEF Heard
  <2>5. u \in S
    BY <2>2, <2>3, <2>4
  <2>6. QED
    BY <2>5 DEF u
<1> HIDE DEF S, Turn
<1>5. PICK h \in [0 .. count -> S] : /\ h[0] = d
                                     /\ \A i \in 1 .. count : h[i] = Turn(h[i - 1], i)
  <2> DEFINE F == [x \in S \X (1 .. count) |-> Turn(x[1], x[2])]
  <2>1. F \in [S \X (1 .. count) -> S]
    BY <1>4
  <2>2. \A t \in S : \A i \in 1 .. count : F[<<t, i>>] = Turn(t, i)
    OBVIOUS
  <2> HIDE DEF F
  <2>3. PICK h : IsLoop(h, S, d, count, F)
    BY <1>2, <1>3, <2>1, LoopExists
  <2>4. \A i \in 1 .. count : h[i - 1] \in S
    BY <1>2, <2>3 DEF IsLoop
  <2>5. QED
    BY <2>2, <2>3, <2>4 DEF IsLoop
<1>6. h = Rule(h)
  BY <1>2, <1>5
<1>7. after = Rule(after)
  BY <1>6
<1> HIDE DEF after
<1>8. \A i \in 0 .. count : after[i] = h[i]
  <2>1. after[0] = h[0] /\ \A i \in 1 .. count : after[i] = Turn(after[i - 1], i)
    BY <1>2, <1>5, <1>7
  <2>2. \A i \in 1 .. count : after[i - 1] = h[i - 1] => after[i] = h[i]
    BY <1>5, <2>1
  <2>3. SameLoop(after, h, count)
    BY <1>2, <2>1, <2>2, LoopIs DEF SameTurns
  <2>4. QED
    BY <2>3 DEF SameLoop
<1>9. after[count] \in S
  BY <1>2, <1>5, <1>8
<1>10. QED
  BY <1>1, <1>9 DEF S

(* What a driver with a fitting session sends: inputs that it has produced *)
(* and hashes that it has confirmed.                                       *)
LEMMA InputPacketFits ==
  ASSUME NEW p \in Players, NEW d, NEW made \in Nat, made <= FrameCount,
         SessionFits(p, d.session, made), d.history = Elapsed(d.session),
         d.next \in SequenceNumbers
  PROVE  /\ InputPacket(p, d) \in PacketsOf(faulty, p, d)
         /\ InputPacket(p, d) # HelloPacket(p)
<1> DEFINE s == d.session
           Boundary(k) == FrameOffset(s.confirmed, -k)
           Digest(k) == [frame |-> Boundary(k), hash |-> HashOf(p, HashAt(s, Boundary(k)).value)]
<1>1. d.history \in Nat /\ Redundancy \in Nat
  BY SessionFacts, PeersAssumption
<1>2. InputWindow(d) \in Seq(0 .. d.history - 1)
  <2> DEFINE count == IF d.history < Redundancy THEN d.history ELSE Redundancy
             past == 0 .. d.history - 1
             w == [i \in 1 .. count |-> d.history - count + i - 1]
  <2>1. count \in Nat /\ count <= d.history
    BY <1>1
  <2> HIDE DEF count
  <2>2. \A i \in 1 .. count : d.history - count + i - 1 \in past
    BY <1>1, <2>1
  <2> HIDE DEF past
  <2>3. w \in [1 .. count -> past]
    BY <2>2
  <2>4. w \in Seq(past)
    BY <2>1, <2>3, SeqDef
  <2>5. QED
    BY <2>4 DEF InputWindow, count, past
<1>3. \A k \in 0 .. Redundancy - 1 : Boundary(k) \in FrameNumbers
  BY <1>1, SessionFacts, ModulusAssumption DEF FrameOffset, FrameNumbers
<1>4. ASSUME NEW k \in 0 .. Redundancy - 1, HashAt(s, Boundary(k)).error = "ok"
      PROVE  Digest(k) \in ConfirmedHashes(faulty, p, d)
  <2> DEFINE b == Boundary(k)
  <2>1. b \in FrameNumbers
    BY <1>3
  <2> HIDE DEF b
  <2>2. HashAt(s, b).error = "ok"
    BY <1>4 DEF b
  <2>3. Position(b) <= Agreed(d) /\ HashAt(s, b).value = ScriptWorld(b)
    BY <2>1, <2>2, HashIsScripted DEF Agreed
  <2>4. [frame |-> b, hash |-> DigestOf(faulty, p, ScriptWorld(b))]
          \in ConfirmedHashes(faulty, p, d)
    BY <2>1, <2>3 DEF ConfirmedHashes
  <2>5. QED
    BY <2>3, <2>4 DEF b, HashOf, DigestOf
<1>5. ConfirmedHashWindow(p, d) \in SUBSET ConfirmedHashes(faulty, p, d)
  <2> DEFINE AtHand(k) == HashAt(s, Boundary(k)).error = "ok"
             sent == {k \in 0 .. Redundancy - 1 : \A j \in 0 .. k : AtHand(j)}
  <2>1. ConfirmedHashWindow(p, d) = {Digest(k) : k \in sent}
    BY DEF ConfirmedHashWindow
  <2>2. \A k \in sent : k \in 0 .. Redundancy - 1 /\ AtHand(k)
    BY <1>1
  <2> HIDE DEF sent
  <2>3. \A k \in sent : Digest(k) \in ConfirmedHashes(faulty, p, d)
    BY <1>4, <2>2
  <2>4. QED
    BY <2>1, <2>3
<1>6. QED
  BY <1>2, <1>5 DEF InputPacket, HelloPacket, PacketsOf

-----------------------------------------------------------------------------
(* The channels *)

(* Packets that wait are sent by one driver: a hello joins them. *)
LEMMA WithHelloFits ==
  ASSUME NEW p \in Players, NEW bad, NEW e, NEW packets \in Seq(PacketsOf(bad, p, e))
  PROVE  WithHello(packets, p) \in Seq(PacketsOf(bad, p, e))
<1>1. HelloPacket(p) \in PacketsOf(bad, p, e)
  BY DEF PacketsOf
<1>2. QED
  BY <1>1, AppendProperties DEF WithHello

(* And an input packet, in place of the last one when there is no room. *)
LEMMA WithInputFits ==
  ASSUME NEW p \in Players, NEW bad, NEW e, NEW packets \in Seq(PacketsOf(bad, p, e)),
         NEW packet \in PacketsOf(bad, p, e), packet # HelloPacket(p)
  PROVE  WithInput(packets, packet) \in Seq(PacketsOf(bad, p, e))
<1> DEFINE T == PacketsOf(bad, p, e)
           last == packets[Len(packets)]
           front == SubSeq(packets, 1, Len(packets) - 1)
           new == [packet EXCEPT !.sequence = last.sequence]
<1>1. ChannelCapacity \in Nat /\ ChannelCapacity > 0 /\ Len(packets) \in Nat
  BY PeersAssumption, LenProperties
<1>2. CASE Len(packets) < ChannelCapacity
  BY <1>2, AppendProperties DEF WithInput
<1>3. CASE ~ (Len(packets) < ChannelCapacity)
  <2>1. Len(packets) \in 1 .. Len(packets)
    BY <1>1, <1>3
  <2>2. last \in T
    BY <2>1, ElementOfSeq
  <2>3. front \in Seq(T)
    <3>1. \A i \in 1 .. Len(packets) - 1 : packets[i] \in T
      BY <1>1, ElementOfSeq
    <3> HIDE DEF T
    <3>2. QED
      BY <1>1, <3>1, SubSeqProperties
  <2>4. last.type # "hello" => new \in T
    <3> DEFINE I == [type : {"input"}, sender : {p}, sequence : SequenceNumbers,
                     inputs : Seq(0 .. e.history - 1), hashes : SUBSET ConfirmedHashes(bad, p, e)]
    <3>1. packet \in I /\ (last.type # "hello" => last \in I)
      BY <2>2 DEF PacketsOf, HelloPacket
    <3> HIDE DEF last
    <3>2. last \in I => new \in I
      BY <3>1
    <3>3. I \subseteq T
      BY DEF PacketsOf
    <3> QED
      BY <3>1, <3>2, <3>3
  <2>5. WithInput(packets, packet) = IF last.type = "hello" THEN packets ELSE Append(front, new)
    BY <1>3 DEF WithInput, Lists!Last, Lists!Front
  <2> HIDE DEF T, new, front, last
  <2>6. last.type # "hello" => Append(front, new) \in Seq(T)
    BY <2>3, <2>4, AppendProperties
  <2>7. QED
    BY <2>5, <2>6 DEF T
<1>4. QED
  BY <1>2, <1>3

-----------------------------------------------------------------------------
(* The inductive invariant *)

(* What a peer has produced and confirmed does not go back. *)
Grows(d, t) == d.history <= t.history /\ Agreed(d) <= Agreed(t)

(* The drivers D and the channels C, with the faulty and the mismatched    *)
(* players given.                                                          *)
Consistent(D, C, bad, apart) ==
  /\ DOMAIN D = Players /\ D = [p \in Players |-> D[p]] /\ DOMAIN C = Players
  /\ bad \subseteq Players /\ apart \subseteq Players
  /\ \A p \in Players :
       /\ DriverFits(p, D[p], D[OtherPlayer(p)], bad, apart)
       /\ C[p] \in Seq(PacketsOf(bad, OtherPlayer(p), D[OtherPlayer(p)]))

PeersFit == Consistent(driver, channel, faulty, mismatched)

(* What is known of a peer stays true when it goes on. *)
LEMMA GrowthKeepsDriver ==
  ASSUME NEW p \in Players, NEW d, NEW e, NEW f, NEW bad, NEW apart,
         DriverFits(p, d, e, bad, apart), Bounded(e), Bounded(f), Grows(e, f)
  PROVE  DriverFits(p, d, f, bad, apart)
<1>1. e.history \in Nat /\ f.history \in Nat /\ e.history <= f.history
  BY DEF Bounded, Grows
<1>2. Scripted(d.session.remote, OtherPlayer(p), f.history)
  BY <1>1, PositionFacts DEF DriverFits, SessionFits, Scripted
<1>3. SessionFits(p, d.session, f.history)
  BY <1>2 DEF DriverFits, SessionFits
<1>4. d.remoteFinal # {} => Agreed(f) = FrameCount
  BY GameFacts DEF DriverFits, Bounded, Grows
<1>5. QED
  BY <1>3, <1>4 DEF DriverFits

(* So does what it has sent. *)
LEMMA GrowthKeepsPackets ==
  ASSUME NEW q \in Players, NEW e, NEW f, NEW bad, Bounded(e), Bounded(f), Grows(e, f)
  PROVE  /\ PacketsOf(bad, q, e) \subseteq PacketsOf(bad, q, f)
         /\ Seq(PacketsOf(bad, q, e)) \subseteq Seq(PacketsOf(bad, q, f))
<1>1. ConfirmedHashes(bad, q, e) \subseteq ConfirmedHashes(bad, q, f)
  BY PositionFacts DEF ConfirmedHashes, Bounded, Grows
<1>2. Seq(0 .. e.history - 1) \subseteq Seq(0 .. f.history - 1)
  <2> DEFINE A == 0 .. e.history - 1
             B == 0 .. f.history - 1
  <2>1. A \subseteq B
    BY DEF Bounded, Grows
  <2> HIDE DEF A, B
  <2>2. Seq(A) \subseteq Seq(B)
    BY <2>1, SeqMonotonic
  <2>3. QED
    BY <2>2 DEF A, B
<1>3. PacketsOf(bad, q, e) \subseteq PacketsOf(bad, q, f)
  BY <1>1, <1>2 DEF PacketsOf
<1>4. QED
  BY <1>3, SeqMonotonic

(* One driver goes on, and the channels with it. *)
LEMMA MoveFits ==
  ASSUME NEW D, NEW C, NEW bad, NEW apart, Consistent(D, C, bad, apart),
         NEW p \in Players, NEW t,
         DriverFits(p, t, D[OtherPlayer(p)], bad, apart), Grows(D[p], t),
         NEW B, DOMAIN B = Players,
         B[p] \in Seq(PacketsOf(bad, OtherPlayer(p), D[OtherPlayer(p)])),
         B[OtherPlayer(p)] \in Seq(PacketsOf(bad, p, t))
  PROVE  Consistent([D EXCEPT ![p] = t], B, bad, apart)
<1> DEFINE q == OtherPlayer(p)
           E == [D EXCEPT ![p] = t]
<1>1. q \in Players /\ q # p /\ OtherPlayer(q) = p /\ \A x \in Players : x = p \/ x = q
  BY Opponents
<1>2. /\ DOMAIN D = Players /\ D = [x \in Players |-> D[x]]
      /\ bad \subseteq Players /\ apart \subseteq Players
      /\ DriverFits(p, D[p], D[q], bad, apart) /\ DriverFits(q, D[q], D[p], bad, apart)
  BY <1>1 DEF Consistent
<1>3. E[p] = t /\ E[q] = D[q] /\ DOMAIN E = Players /\ E = [x \in Players |-> E[x]]
  BY <1>1, <1>2
<1> HIDE DEF E, q
<1>4. Bounded(D[p]) /\ Bounded(t)
  BY <1>2, DriverFacts DEF q
<1>5. DriverFits(q, D[q], t, bad, apart)
  BY <1>1, <1>2, <1>4, GrowthKeepsDriver
<1>6. /\ DriverFits(p, E[p], E[q], bad, apart) /\ DriverFits(q, E[q], E[p], bad, apart)
      /\ B[p] \in Seq(PacketsOf(bad, q, E[q])) /\ B[q] \in Seq(PacketsOf(bad, p, E[p]))
  BY <1>3, <1>5 DEF q
<1>7. Consistent(E, B, bad, apart)
  <2>1. \A x \in Players :
          /\ DriverFits(x, E[x], E[OtherPlayer(x)], bad, apart)
          /\ B[x] \in Seq(PacketsOf(bad, OtherPlayer(x), E[OtherPlayer(x)]))
    BY <1>1, <1>6 DEF q
  <2>2. QED
    BY <1>2, <1>3, <2>1 DEF Consistent
<1>8. QED
  BY <1>7 DEF E

(* Before the first step. *)
LEMMA InitFits ==
  ASSUME Init
  PROVE  PeersFit
<1>1. /\ driver = [p \in Players |-> NewDriver(p)] /\ channel = [p \in Players |-> <<>>]
      /\ faulty \subseteq Players /\ mismatched \subseteq Players
  BY PeersAssumption DEF Init
<1>2. ASSUME NEW p \in Players, NEW e
      PROVE  DriverFits(p, NewDriver(p), e, faulty, mismatched)
  <2> DEFINE s == NewSession(p)
             d == NewDriver(p)
  <2>1. /\ Sound(s) /\ Elapsed(s) = 0
        /\ \A f \in FrameNumbers : ~ Contains(s.local, f) /\ ~ Contains(s.remote, f)
    BY NewSessionSound
  <2>2. s.peer = p
    BY DEF NewSession
  <2>3. /\ d.phase = "absent" /\ d.session = s /\ d.sequences = NewWindow
        /\ d.history = 0 /\ d.remoteFinal = {} /\ d.next = 2 /\ d.drained = 0
        /\ d.error = "ok"
        /\ d = [phase |-> d.phase, session |-> d.session, sequences |-> d.sequences,
                history |-> d.history, remoteFinal |-> d.remoteFinal, next |-> d.next,
                drained |-> d.drained, error |-> d.error]
    BY DEF NewDriver
  <2> HIDE DEF s, d
  <2>4. SessionFits(p, s, e.history)
    <3>1. Scripted(s.local, p, Elapsed(s)) /\ Scripted(s.remote, OtherPlayer(p), e.history)
      BY <2>1 DEF Scripted
    <3>2. Elapsed(s) <= FrameCount
      BY <2>1, GameFacts
    <3>3. QED
      BY <2>1, <2>2, <3>1, <3>2 DEF SessionFits
  <2>5. s \in Sessions
    BY <2>1 DEF Sound
  <2>6. NewWindow \in Windows /\ 2 \in SequenceNumbers
    BY WindowAssumption, PeersAssumption DEF NewWindow, Windows, SequenceNumbers
  <2>7. d \in Drivers(FinalHash(faulty, OtherPlayer(p)))
    BY <2>3, <2>5, <2>6 DEF Drivers, Phases, Verdicts, Errors
  <2>8. DriverFits(p, d, e, faulty, mismatched)
    BY <2>1, <2>3, <2>4, <2>7, GameFacts DEF DriverFits, FinishedFits, Playing
  <2>9. QED
    BY <2>8 DEF d
<1>3. DOMAIN driver = Players /\ DOMAIN channel = Players /\ \A p \in Players : driver[p] = NewDriver(p) /\ channel[p] = <<>>
  BY <1>1
<1>4. driver = [p \in Players |-> driver[p]]
  BY <1>1
<1>5. QED
  BY <1>1, <1>2, <1>3, <1>4, EmptySeq DEF PeersFit, Consistent

-----------------------------------------------------------------------------
(* The steps *)

(* What a step may do to a driver. *)
Goes(d, t) ==
  /\ Grows(d, t)
  /\ t.history <= d.history + 1
  /\ d.phase # "finished"

OneGoes ==
  \E p \in Players : \E t :
    driver' = [driver EXCEPT ![p] = t] /\ Goes(driver[p], t)

StepFits == PeersFit' /\ (OneGoes \/ UNCHANGED driver)

(* What the invariant says of one peer. *)
LEMMA PeerFacts ==
  ASSUME PeersFit, NEW p \in Players
  PROVE  LET q == OtherPlayer(p)
         IN  /\ q \in Players
             /\ DriverFits(p, driver[p], driver[q], faulty, mismatched)
             /\ Bounded(driver[p]) /\ Bounded(driver[q])
             /\ channel[p] \in Seq(PacketsOf(faulty, q, driver[q]))
             /\ Waiting(p) \in Seq(PacketsOf(faulty, p, driver[p]))
             /\ Len(channel[p]) \in Nat /\ Arrivals(p) \subseteq 0 .. Len(channel[p])
<1> DEFINE q == OtherPlayer(p)
<1>1. q \in Players /\ OtherPlayer(q) = p
  BY Opponents
<1>2. /\ DriverFits(p, driver[p], driver[q], faulty, mismatched)
      /\ DriverFits(q, driver[q], driver[p], faulty, mismatched)
      /\ channel[p] \in Seq(PacketsOf(faulty, q, driver[q]))
      /\ channel[q] \in Seq(PacketsOf(faulty, p, driver[p]))
  BY <1>1 DEF PeersFit, Consistent
<1>3. Bounded(driver[p]) /\ Bounded(driver[q])
  BY <1>1, <1>2, DriverFacts
<1>4. Len(channel[p]) \in Nat
  BY <1>2, LenProperties
<1>5. Arrivals(p) \subseteq 0 .. Len(channel[p])
  BY <1>4, PeersAssumption DEF Arrivals
<1>6. QED
  BY <1>1, <1>2, <1>3, <1>4, <1>5 DEF Waiting

(* A driver in its next phase. *)
LEMMA PhaseFits ==
  ASSUME NEW p \in Players, NEW d, NEW e, NEW bad, NEW apart,
         DriverFits(p, d, e, bad, apart), NEW phase \in Phases \ {"finished"},
         phase \in Early => d.history = 0,
         phase = "running" => d.history < FrameCount,
         phase \in Playing => OtherPlayer(p) \notin apart
  PROVE  LET t == [d EXCEPT !.phase = phase]
         IN  /\ DriverFits(p, t, e, bad, apart)
             /\ t.phase = phase /\ t.session = d.session /\ t.history = d.history
             /\ t.next = d.next /\ t.remoteFinal = d.remoteFinal /\ Grows(d, t)
<1> DEFINE t == [d EXCEPT !.phase = phase]
<1>1. d \in Drivers(FinalHash(bad, OtherPlayer(p)))
  BY DEF DriverFits
<1>2. /\ t \in Drivers(FinalHash(bad, OtherPlayer(p)))
      /\ t.phase = phase /\ t.error = d.error /\ t.session = d.session
      /\ t.history = d.history /\ t.remoteFinal = d.remoteFinal /\ t.next = d.next
  BY <1>1 DEF Drivers
<1> HIDE DEF t
<1>3. DriverFits(p, t, e, bad, apart)
  BY <1>2 DEF DriverFits, FinishedFits
<1>4. Grows(d, t)
  BY <1>2, DriverFacts DEF Grows, Bounded, Agreed
<1>5. QED
  BY <1>2, <1>3, <1>4 DEF t

(* A driver that has numbered a packet. *)
LEMMA NumberedFits ==
  ASSUME NEW p \in Players, NEW d, NEW e, NEW bad, NEW apart,
         DriverFits(p, d, e, bad, apart)
  PROVE  LET t == Numbered(p, d)
         IN  /\ DriverFits(p, t, e, bad, apart)
             /\ t.phase = d.phase /\ t.session = d.session /\ t.history = d.history
             /\ Grows(d, t)
<1> DEFINE next == (d.next + 1) % SequenceModulus
           t == [d EXCEPT !.next = next]
<1>1. d \in Drivers(FinalHash(bad, OtherPlayer(p)))
  BY DEF DriverFits
<1>2. next \in SequenceNumbers
  BY <1>1, PeersAssumption, WindowAssumption DEF Drivers, SequenceNumbers
<1> HIDE DEF next
<1>3. /\ t \in Drivers(FinalHash(bad, OtherPlayer(p)))
      /\ t.phase = d.phase /\ t.error = d.error /\ t.session = d.session
      /\ t.history = d.history /\ t.remoteFinal = d.remoteFinal
  BY <1>1, <1>2 DEF Drivers
<1>4. Numbered(p, d) \in {t, d}
  BY DEF Numbered, next
<1> HIDE DEF t
<1>5. DriverFits(p, t, e, bad, apart)
  BY <1>3 DEF DriverFits, FinishedFits
<1>6. Grows(d, t) /\ Grows(d, d)
  BY <1>3, DriverFacts DEF Grows, Bounded, Agreed
<1>7. QED
  BY <1>3, <1>4, <1>5, <1>6

(* A driver as it is kept. *)
LEMMA StoredFits ==
  ASSUME NEW p \in Players, NEW d, NEW e, NEW bad, NEW apart,
         DriverFits(p, d, e, bad, apart)
  PROVE  LET t == [d EXCEPT !.session.metrics = NewSession(p).metrics]
         IN  /\ DriverFits(p, t, e, bad, apart)
             /\ t.history = d.history /\ Agreed(t) = Agreed(d) /\ t.phase = d.phase
             /\ t.session.world = d.session.world
<1> DEFINE s == [d.session EXCEPT !.metrics = NewSession(p).metrics]
           t == [d EXCEPT !.session = s]
<1>1. d \in Drivers(FinalHash(bad, OtherPlayer(p)))
  BY DEF DriverFits
<1>2. /\ SessionFits(p, s, e.history)
      /\ Later(d.session, s)
      /\ s.world = d.session.world /\ s.confirmed = d.session.confirmed
  BY CountersDoNotMatter DEF DriverFits
<1>3. [d EXCEPT !.session.metrics = NewSession(p).metrics] = t
  BY <1>1 DEF Drivers
<1> HIDE DEF s
<1>4. s \in Sessions
  BY <1>2, SessionFacts
<1>5. /\ t \in Drivers(FinalHash(bad, OtherPlayer(p)))
      /\ t.phase = d.phase /\ t.error = d.error /\ t.session = s
      /\ t.history = d.history /\ t.remoteFinal = d.remoteFinal
  BY <1>1, <1>4 DEF Drivers
<1> HIDE DEF t
<1>6. DriverFits(p, t, e, bad, apart)
  BY <1>2, <1>5 DEF DriverFits, FinishedFits, Later
<1>7. Agreed(t) = Agreed(d)
  BY <1>2, <1>5 DEF Agreed
<1>8. QED
  BY <1>2, <1>3, <1>5, <1>6, <1>7

(* Any step of a driver that leaves it fitting and sends what fits. *)
LEMMA BecomesFits ==
  ASSUME PeersFit, NEW p \in Players, NEW d,
         DriverFits(p, d, driver[OtherPlayer(p)], faulty, mismatched),
         Goes(driver[p], d), NEW count \in 0 .. Len(channel[p]),
         NEW sent \in Seq(PacketsOf(faulty, p, d)), Becomes(p, d, count, sent)
  PROVE  StepFits
<1> DEFINE q == OtherPlayer(p)
           t == [d EXCEPT !.session.metrics = NewSession(p).metrics]
           rest == SubSeq(channel[p], count + 1, Len(channel[p]))
<1>1. /\ DriverFits(p, t, driver[q], faulty, mismatched)
      /\ t.history = d.history /\ Agreed(t) = Agreed(d)
  BY StoredFits
<1>2. /\ driver' = [driver EXCEPT ![p] = t]
      /\ faulty' = faulty /\ mismatched' = mismatched
      /\ \A x \in Players :
           channel'[x] \in {<<>>, IF x = p THEN rest ELSE sent}
  BY DEF Becomes
<1>12. DOMAIN channel' = Players
  BY DEF Becomes
<1> HIDE DEF t
<1>3. Bounded(d) /\ Bounded(t)
  BY <1>1, DriverFacts
<1>4. Goes(driver[p], t) /\ Grows(d, t)
  BY <1>1, <1>3 DEF Goes, Grows, Bounded
<1>5. sent \in Seq(PacketsOf(faulty, p, t))
  BY <1>3, <1>4, GrowthKeepsPackets
<1>6. rest \in Seq(PacketsOf(faulty, q, driver[q]))
  <2> DEFINE T == PacketsOf(faulty, q, driver[q])
  <2>1. channel[p] \in Seq(T) /\ Len(channel[p]) \in Nat
    BY PeerFacts
  <2>2. \A i \in count + 1 .. Len(channel[p]) : channel[p][i] \in T
    BY <2>1, ElementOfSeq
  <2> HIDE DEF T
  <2>3. rest \in Seq(T)
    BY <2>1, <2>2, SubSeqProperties
  <2>4. QED
    BY <2>3 DEF T
<1>7. /\ channel'[p] \in Seq(PacketsOf(faulty, q, driver[q]))
      /\ channel'[q] \in Seq(PacketsOf(faulty, p, t))
  BY <1>2, <1>5, <1>6, EmptySeq, Opponents
<1>8. Consistent([driver EXCEPT ![p] = t], channel', faulty, mismatched)
  BY <1>12, <1>1, <1>4, <1>7, MoveFits DEF PeersFit, Goes
<1>9. PeersFit'
  BY <1>2, <1>8 DEF PeersFit
<1>10. OneGoes
  BY <1>2, <1>4 DEF OneGoes
<1>11. QED
  BY <1>9, <1>10 DEF StepFits

(* A driver that does not change what has been sent by it. *)
LEMMA WaitingFits ==
  ASSUME PeersFit, NEW p \in Players, NEW d, Bounded(d), Grows(driver[p], d)
  PROVE  Waiting(p) \in Seq(PacketsOf(faulty, p, d))
BY PeerFacts, GrowthKeepsPackets

(* The same for a step that sends nothing. *)
LEMMA SilentFits ==
  ASSUME PeersFit, NEW p \in Players, NEW d,
         DriverFits(p, d, driver[OtherPlayer(p)], faulty, mismatched),
         Goes(driver[p], d), NEW count \in 0 .. Len(channel[p]),
         Becomes(p, d, count, Waiting(p))
  PROVE  StepFits
<1> DEFINE sent == Waiting(p)
<1>1. sent \in Seq(PacketsOf(faulty, p, d))
  BY WaitingFits, DriverFacts DEF Goes
<1> HIDE DEF sent
<1>2. Becomes(p, d, count, sent)
  BY DEF sent
<1>3. QED
  BY <1>1, <1>2, BecomesFits

(* create. *)
LEMMA StartStep ==
  ASSUME PeersFit, NEW p \in Players, Start(p)
  PROVE  StepFits
<1> DEFINE t == [driver[p] EXCEPT !.phase = "handshake"]
<1>1. driver[p].phase = "absent" /\ driver' = [driver EXCEPT ![p] = t]
      /\ channel' = channel /\ faulty' = faulty /\ mismatched' = mismatched
  BY DEF Start
<1>2. /\ DriverFits(p, driver[p], driver[OtherPlayer(p)], faulty, mismatched)
      /\ driver[p].history = 0
  BY <1>1, PeerFacts DEF DriverFits, Early
<1>3. /\ DriverFits(p, t, driver[OtherPlayer(p)], faulty, mismatched)
      /\ t.history = driver[p].history /\ Grows(driver[p], t)
  BY <1>2, PhaseFits DEF Phases, Early, Playing
<1> HIDE DEF t
<1>4. Goes(driver[p], t)
  BY <1>1, <1>2, <1>3 DEF Goes
<1>5. /\ channel[p] \in Seq(PacketsOf(faulty, OtherPlayer(p), driver[OtherPlayer(p)]))
      /\ channel[OtherPlayer(p)] \in Seq(PacketsOf(faulty, p, t))
      /\ DOMAIN channel = Players
  BY <1>3, PeerFacts, WaitingFits, DriverFacts DEF Waiting, PeersFit, Consistent
<1>6. Consistent([driver EXCEPT ![p] = t], channel, faulty, mismatched)
  BY <1>3, <1>5, MoveFits DEF PeersFit
<1>7. PeersFit'
  BY <1>1, <1>6 DEF PeersFit
<1>8. OneGoes
  BY <1>1, <1>4 DEF OneGoes
<1>9. QED
  BY <1>7, <1>8 DEF StepFits

(* A handshake step sends its hello. *)
LEMMA HandshakeSendStep ==
  ASSUME PeersFit, NEW p \in Players, HandshakeSend(p)
  PROVE  StepFits
<1> DEFINE t == [driver[p] EXCEPT !.phase = "greeted"]
           sent == WithHello(Waiting(p), p)
<1>1. driver[p].phase = "handshake" /\ Becomes(p, t, 0, sent)
  BY DEF HandshakeSend
<1>2. /\ DriverFits(p, driver[p], driver[OtherPlayer(p)], faulty, mismatched)
      /\ driver[p].history = 0
  BY <1>1, PeerFacts DEF DriverFits, Early
<1>3. /\ DriverFits(p, t, driver[OtherPlayer(p)], faulty, mismatched)
      /\ t.history = driver[p].history /\ Grows(driver[p], t)
  BY <1>2, PhaseFits DEF Phases, Early, Playing
<1> HIDE DEF t
<1>4. Goes(driver[p], t)
  BY <1>1, <1>2, <1>3 DEF Goes
<1>5. sent \in Seq(PacketsOf(faulty, p, t))
  BY <1>3, WaitingFits, WithHelloFits, DriverFacts
<1> HIDE DEF sent
<1>6. 0 \in 0 .. Len(channel[p])
  BY PeerFacts
<1>7. QED
  BY <1>1, <1>3, <1>4, <1>5, <1>6, BecomesFits

(* What was heard only makes a driver go on. *)
LEMMA HeardGoes ==
  ASSUME NEW p \in Players, NEW d, NEW e, NEW bad, NEW apart,
         DriverFits(p, d, e, bad, apart), NEW t, Heard(d, t), d.phase # "finished"
  PROVE  Goes(d, t)
BY DriverFacts DEF Goes, Grows, Heard, Bounded

(* A step that stops its driver with an error. *)
LEMMA FailingStep ==
  ASSUME PeersFit, NEW p \in Players, driver[p].phase # "finished",
         NEW error \in Verdicts \ {"desync"}, NEW count \in 0 .. Len(channel[p]),
         Becomes(p, Failed(driver[p], error), count, Waiting(p))
  PROVE  StepFits
<1> DEFINE t == Failed(driver[p], error)
<1>1. DriverFits(p, driver[p], driver[OtherPlayer(p)], faulty, mismatched)
  BY PeerFacts
<1>2. /\ DriverFits(p, t, driver[OtherPlayer(p)], faulty, mismatched)
      /\ Heard(driver[p], t)
  BY <1>1, FailedFits
<1> HIDE DEF t
<1>3. Goes(driver[p], t)
  BY <1>1, <1>2, HeardGoes
<1>4. Becomes(p, t, count, Waiting(p))
  BY DEF t
<1>5. QED
  BY <1>2, <1>3, <1>4, SilentFits

(* A step finds its deadline passed. *)
LEMMA TimeOutStep ==
  ASSUME PeersFit, NEW p \in Players, TimeOut(p)
  PROVE  StepFits
<1>1. /\ driver[p].phase # "finished"
      /\ Becomes(p, Failed(driver[p], "timeout"), 0, Waiting(p))
  BY DEF TimeOut
<1>2. "timeout" \in Verdicts \ {"desync"} /\ 0 \in 0 .. Len(channel[p])
  BY PeerFacts DEF Verdicts
<1>3. QED
  BY <1>1, <1>2, FailingStep

(* A handshake step receives nothing, or the other's hello, or a packet    *)
(* that ends it.                                                           *)
LEMMA HandshakeReceiveStep ==
  ASSUME PeersFit, NEW p \in Players, NEW count, HandshakeReceive(p, count)
  PROVE  StepFits
<1> DEFINE q == OtherPlayer(p)
           d == driver[p]
           packet == Head(channel[p])
           back == [d EXCEPT !.phase = "handshake"]
           on == [d EXCEPT !.phase = "running"]
<1>1. /\ d.phase = "greeted" /\ count \in Arrivals(p) /\ count \in {0, 1}
      /\ IF count = 0 THEN Becomes(p, back, 0, Waiting(p))
         ELSE IF packet.type # "hello"
         THEN Becomes(p, Failed(d, "hello_identity"), 1, Waiting(p))
         ELSE IF packet.sender \in mismatched
         THEN Becomes(p, Failed(d, "hello_refused"), 1, Waiting(p))
         ELSE Becomes(p, on, 1, WithHello(Waiting(p), p))
  BY DEF HandshakeReceive
<1>2. /\ DriverFits(p, d, driver[q], faulty, mismatched)
      /\ count \in 0 .. Len(channel[p]) /\ Len(channel[p]) \in Nat
      /\ channel[p] \in Seq(PacketsOf(faulty, q, driver[q]))
  BY <1>1, PeerFacts
<1>3. d.history = 0
  BY <1>1, <1>2 DEF DriverFits, Early
<1>4. CASE count = 0
  <2>1. DriverFits(p, back, driver[q], faulty, mismatched)
        /\ back.history = d.history /\ Grows(d, back)
    <3>1. DriverFits(p, d, driver[q], faulty, mismatched)
      BY <1>2
    <3> HIDE DEF d
    <3>2. QED
      BY <1>3, <3>1, PhaseFits DEF Phases, Playing
  <2>2. Becomes(p, back, 0, Waiting(p))
    BY <1>1, <1>4
  <2> HIDE DEF back
  <2>3. Goes(d, back)
    BY <1>1, <1>3, <2>1 DEF Goes
  <2>4. 0 \in 0 .. Len(channel[p])
    BY <1>2
  <2>5. QED
    BY <2>1, <2>2, <2>3, <2>4, SilentFits
<1>5. CASE count = 1
  <2>1. packet \in PacketsOf(faulty, q, driver[q]) /\ 1 \in 0 .. Len(channel[p])
    BY <1>2, <1>5, ElementOfSeq
  <2>2. CASE packet.type # "hello"
    <3>1. "hello_identity" \in Verdicts \ {"desync"}
      BY DEF Verdicts
    <3>2. Becomes(p, Failed(driver[p], "hello_identity"), 1, Waiting(p))
      BY <1>1, <1>5, <2>2
    <3>3. QED
      BY <1>1, <2>1, <3>1, <3>2, FailingStep
  <2>3. CASE packet.type = "hello" /\ packet.sender \in mismatched
    <3>1. "hello_refused" \in Verdicts \ {"desync"}
      BY DEF Verdicts
    <3>2. Becomes(p, Failed(driver[p], "hello_refused"), 1, Waiting(p))
      BY <1>1, <1>5, <2>3
    <3>3. QED
      BY <1>1, <2>1, <3>1, <3>2, FailingStep
  <2>4. CASE packet.type = "hello" /\ packet.sender \notin mismatched
    <3> DEFINE sent == WithHello(Waiting(p), p)
    <3>1. q \notin mismatched
      BY <2>1, <2>4 DEF PacketsOf, HelloPacket
    <3>2. DriverFits(p, on, driver[q], faulty, mismatched)
          /\ on.history = d.history /\ Grows(d, on)
      <4>1. DriverFits(p, d, driver[q], faulty, mismatched)
        BY <1>2
      <4>2. d.history < FrameCount
        BY <1>3, GameFacts
      <4> HIDE DEF d
      <4>3. QED
        BY <3>1, <4>1, <4>2, PhaseFits DEF Phases, Early
    <3>3. Becomes(p, on, 1, sent)
      BY <1>1, <1>5, <2>4
    <3> HIDE DEF on
    <3>4. Goes(d, on)
      BY <1>1, <1>3, <3>2 DEF Goes
    <3>5. sent \in Seq(PacketsOf(faulty, p, on))
      BY <3>2, WaitingFits, WithHelloFits, DriverFacts
    <3> HIDE DEF sent
    <3>6. QED
      BY <2>1, <3>2, <3>3, <3>4, <3>5, BecomesFits
  <2>5. QED
    BY <2>2, <2>3, <2>4
<1>6. QED
  BY <1>1, <1>4, <1>5

(* A confirming step sends again what it has sent. *)
LEMMA ConfirmingSendStep ==
  ASSUME PeersFit, NEW p \in Players, ConfirmingSend(p)
  PROVE  StepFits
<1> DEFINE q == OtherPlayer(p)
           d == driver[p]
           resent == [d EXCEPT !.phase = "resent"]
           t == Numbered(p, resent)
           packet == InputPacket(p, d)
           sent == WithInput(Waiting(p), packet)
<1>1. d.phase = "confirming" /\ Becomes(p, t, 0, sent)
  BY DEF ConfirmingSend
<1>2. /\ DriverFits(p, d, driver[q], faulty, mismatched)
      /\ 0 \in 0 .. Len(channel[p]) /\ Bounded(driver[q])
  BY PeerFacts
<1>3. q \notin mismatched
  BY <1>1, <1>2 DEF DriverFits, Playing
<1>4. DriverFits(p, resent, driver[q], faulty, mismatched)
      /\ resent.history = d.history /\ Grows(d, resent)
  <2>1. DriverFits(p, d, driver[q], faulty, mismatched)
    BY <1>2
  <2> HIDE DEF d
  <2>2. QED
    BY <1>3, <2>1, PhaseFits DEF Phases, Early
<1> HIDE DEF resent
<1>5. DriverFits(p, t, driver[q], faulty, mismatched)
      /\ t.history = d.history /\ Grows(resent, t)
  BY <1>4, NumberedFits
<1> HIDE DEF t
<1>6. Bounded(d) /\ Bounded(resent) /\ Bounded(t)
  BY <1>2, <1>4, <1>5, DriverFacts
<1>7. Grows(d, t) /\ Goes(d, t)
  BY <1>1, <1>4, <1>5, <1>6 DEF Grows, Goes, Bounded
<1>8. packet \in PacketsOf(faulty, p, d) /\ packet # HelloPacket(p)
  <2>1. /\ SessionFits(p, d.session, driver[q].history) /\ d.history = Elapsed(d.session)
        /\ d.next \in SequenceNumbers
    BY <1>2 DEF DriverFits, Drivers
  <2>2. QED
    BY <1>2, <2>1, InputPacketFits DEF Bounded
<1> HIDE DEF packet
<1>9. packet \in PacketsOf(faulty, p, t) /\ Waiting(p) \in Seq(PacketsOf(faulty, p, t))
  BY <1>6, <1>7, <1>8, GrowthKeepsPackets, WaitingFits
<1>10. sent \in Seq(PacketsOf(faulty, p, t))
  BY <1>8, <1>9, WithInputFits
<1> HIDE DEF sent
<1>11. QED
  BY <1>1, <1>2, <1>5, <1>7, <1>10, BecomesFits

(* The end of a confirming step: a driver that finishes has confirmed and  *)
(* verified the whole game.                                                *)
LEMMA CompletedFits ==
  ASSUME NEW p \in Players, NEW d, NEW e,
         DriverFits(p, d, e, faulty, mismatched), d.phase = "confirming"
  PROVE  /\ DriverFits(p, Completed(p, d), e, faulty, mismatched)
         /\ Completed(p, d).history = d.history /\ Agreed(Completed(p, d)) = Agreed(d)
<1> DEFINE D == Drivers(FinalHash(faulty, OtherPlayer(p)))
           zero == [d EXCEPT !.drained = 0]
           more == [d EXCEPT !.drained = @ + 1]
           end == [d EXCEPT !.phase = "finished", !.drained = @ + 1]
           bad == Failed(d, Artifacts(p, d))
<1>1. d \in D /\ OtherPlayer(p) \notin mismatched
  BY DEF DriverFits, Playing
<1>2. ASSUME NEW t \in D, t.phase = d.phase, t.error = d.error, t.session = d.session,
             t.history = d.history, t.remoteFinal = d.remoteFinal
      PROVE  DriverFits(p, t, e, faulty, mismatched)
  BY <1>2 DEF DriverFits, FinishedFits
<1>3. /\ DriverFits(p, zero, e, faulty, mismatched)
      /\ zero.history = d.history /\ Agreed(zero) = Agreed(d)
  <2>1. /\ zero \in D /\ zero.phase = d.phase /\ zero.error = d.error
        /\ zero.session = d.session
        /\ zero.history = d.history /\ zero.remoteFinal = d.remoteFinal
    BY <1>1 DEF Drivers
  <2>2. QED
    BY <1>2, <2>1 DEF Agreed
<1>4. /\ DriverFits(p, more, e, faulty, mismatched)
      /\ more.history = d.history /\ Agreed(more) = Agreed(d)
  <2>1. /\ more \in D /\ more.phase = d.phase /\ more.error = d.error
        /\ more.session = d.session
        /\ more.history = d.history /\ more.remoteFinal = d.remoteFinal
    BY <1>1 DEF Drivers
  <2>2. QED
    BY <1>2, <2>1 DEF Agreed
<1>5. /\ DriverFits(p, bad, e, faulty, mismatched)
      /\ bad.history = d.history /\ Agreed(bad) = Agreed(d)
  <2> DEFINE error == Artifacts(p, d)
  <2>1. error \in Verdicts /\ error # "desync"
    BY DEF Artifacts, Verdicts, Errors
  <2> HIDE DEF error
  <2>2. DriverFits(p, Failed(d, error), e, faulty, mismatched)
    BY <2>1, FailedFits
  <2>3. Failed(d, error).history = d.history /\ Agreed(Failed(d, error)) = Agreed(d)
    BY <1>1 DEF Failed, Agreed, Drivers
  <2>4. QED
    BY <2>2, <2>3 DEF error
<1>6. ASSUME Complete(d), Artifacts(p, d) = "ok"
      PROVE  /\ DriverFits(p, end, e, faulty, mismatched)
             /\ end.history = d.history /\ Agreed(end) = Agreed(d)
  <2>1. /\ end \in D /\ end.phase = "finished" /\ end.error = d.error
        /\ end.session = d.session
        /\ end.history = d.history /\ end.remoteFinal = d.remoteFinal
    <3> DEFINE over == [d EXCEPT !.phase = "finished"]
    <3>1. /\ over \in D /\ over.phase = "finished" /\ over.error = d.error
          /\ over.session = d.session /\ over.drained = d.drained
          /\ over.history = d.history /\ over.remoteFinal = d.remoteFinal
      BY <1>1 DEF Drivers, Phases
    <3>2. end = [over EXCEPT !.drained = d.drained + 1]
      BY <1>1 DEF Drivers
    <3> HIDE DEF over, end
    <3>3. d.drained + 1 \in Nat
      BY <1>1 DEF Drivers
    <3>4. QED
      BY <3>1, <3>2, <3>3 DEF Drivers
  <2> HIDE DEF end
  <2>2. /\ d.session.confirmed = FrameCount
        /\ d.remoteFinal = {DigestOf(faulty, p, d.session.world)}
    BY <1>6 DEF Complete, Artifacts, HashOf, DigestOf
  <2>3. DriverFits(p, end, e, faulty, mismatched)
    BY <1>1, <2>1, <2>2 DEF DriverFits, FinishedFits, Early
  <2>4. QED
    BY <2>1, <2>3 DEF Agreed
<1>7. Completed(p, d) = IF ~ Complete(d) THEN zero
                        ELSE IF d.drained + 1 < FinalDrain THEN more
                        ELSE IF Artifacts(p, d) # "ok" THEN bad ELSE end
  BY DEF Completed
<1> HIDE DEF zero, more, end, bad
<1>8. QED
  BY <1>3, <1>4, <1>5, <1>6, <1>7

(* A driver with its next frame. *)
LEMMA FrameFits ==
  ASSUME SimulationIsTotal, NEW p \in Players, NEW d, NEW e, NEW bad, NEW apart,
         Bounded(e), DriverFits(p, d, e, bad, apart), d.phase = "running"
  PROVE  LET advanced == Advance(d.session, p, d.session.world.frame, Script(p, d.history))
             given == [d EXCEPT !.history = @ + 1, !.session = advanced.session]
             ready == [given EXCEPT !.phase = IF given.session.world.frame = FrameCount
                                              THEN "confirming" ELSE @]
         IN  /\ advanced.error = "ok"
             /\ SessionFits(p, given.session, e.history)
             /\ given.history = Elapsed(given.session) /\ given.next = d.next
             /\ DriverFits(p, ready, e, bad, apart)
             /\ ready.history = d.history + 1 /\ Grows(d, ready)
             /\ Bounded(given) /\ Grows(given, ready)
<1> DEFINE D == Drivers(FinalHash(bad, OtherPlayer(p)))
           advanced == Advance(d.session, p, d.session.world.frame, Script(p, d.history))
           s == advanced.session
           history == d.history + 1
           given == [d EXCEPT !.history = @ + 1, !.session = s]
           phase == IF given.session.world.frame = FrameCount THEN "confirming" ELSE d.phase
           ready == [given EXCEPT !.phase = phase]
<1>1. /\ d \in D /\ SessionFits(p, d.session, e.history)
      /\ d.history = Elapsed(d.session) /\ d.history < FrameCount /\ d.history \in Nat
      /\ e.history \in Nat
  BY DriverFacts DEF DriverFits, Bounded
<1>2. /\ advanced.error = "ok" /\ SessionFits(p, s, e.history)
      /\ Elapsed(s) = history
      /\ Position(d.session.confirmed) <= Position(s.confirmed)
  BY <1>1, AdvanceFits
<1> HIDE DEF advanced
<1>3. s \in Sessions /\ Elapsed(s) = s.world.frame
  BY <1>2, SessionFacts
<1> HIDE DEF s
<1>4. history \in Nat /\ history <= FrameCount
  BY <1>1, GameFacts
<1>5. /\ given \in D /\ given.history = history /\ given.session = s
      /\ given.phase = d.phase /\ given.error = d.error /\ given.next = d.next
      /\ given.remoteFinal = d.remoteFinal
  <2>1. given = [d EXCEPT !.history = history, !.session = s]
    BY <1>1 DEF Drivers
  <2> HIDE DEF given, history
  <2>2. QED
    BY <1>1, <1>3, <1>4, <2>1 DEF Drivers
<1> HIDE DEF given
<1>6. phase \in {"confirming", "running"} /\ (phase = "running" => history < FrameCount)
  BY <1>2, <1>3, <1>4, <1>5, GameFacts
<1> HIDE DEF phase
<1>7. /\ ready \in D /\ ready.history = history /\ ready.session = s
      /\ ready.phase = phase /\ ready.error = d.error
      /\ ready.remoteFinal = d.remoteFinal
  BY <1>5, <1>6 DEF Drivers, Phases
<1> HIDE DEF ready, history
<1>8. DriverFits(p, ready, e, bad, apart)
  BY <1>2, <1>6, <1>7 DEF DriverFits, FinishedFits, Early, Playing
<1>9. Bounded(ready) /\ Bounded(d)
  BY <1>8, DriverFacts
<1>10. history = d.history + 1
  BY DEF history
<1>11. Grows(d, ready) /\ Grows(given, ready) /\ Bounded(given)
  BY <1>2, <1>5, <1>7, <1>9, <1>10 DEF Grows, Bounded, Agreed
<1>12. QED
  BY <1>2, <1>5, <1>7, <1>8, <1>10, <1>11 DEF advanced, s, given, phase, ready

(* A running step reads, produces an input and sends it. *)
LEMMA RunningStepStep ==
  ASSUME SimulationIsTotal, PeersFit, NEW p \in Players, NEW count,
         RunningStep(p, count)
  PROVE  StepFits
<1> DEFINE q == OtherPlayer(p)
           e == driver[q]
           d == Drained(p, driver[p], count)
           advanced == Advance(d.session, p, d.session.world.frame, Script(p, d.history))
           given == [d EXCEPT !.history = @ + 1, !.session = advanced.session]
           ready == [given EXCEPT !.phase = IF given.session.world.frame = FrameCount
                                            THEN "confirming" ELSE @]
           t == Numbered(p, ready)
           packet == InputPacket(p, given)
           sent == WithInput(Waiting(p), packet)
<1>1. /\ driver[p].phase = "running" /\ count \in Arrivals(p)
      /\ IF d.phase = "failed" THEN Becomes(p, d, count, Waiting(p))
         ELSE IF advanced.error # "ok"
         THEN Becomes(p, Failed(given, advanced.error), count, Waiting(p))
         ELSE Becomes(p, t, count, sent)
  BY DEF RunningStep
<1>2. /\ DriverFits(p, driver[p], e, faulty, mismatched)
      /\ Bounded(driver[p]) /\ Bounded(e)
      /\ channel[p] \in Seq(PacketsOf(faulty, q, e)) /\ count \in 0 .. Len(channel[p])
  BY <1>1, PeerFacts
<1>3. /\ DriverFits(p, d, e, faulty, mismatched) /\ Heard(driver[p], d)
  BY <1>1, <1>2, DrainedFits
<1>4. CASE d.phase = "failed"
  <2>1. Becomes(p, d, count, Waiting(p))
    BY <1>1, <1>4
  <2> HIDE DEF d
  <2>2. Goes(driver[p], d)
    BY <1>1, <1>2, <1>3, HeardGoes
  <2>3. QED
    BY <1>2, <1>3, <2>1, <2>2, SilentFits
<1>5. CASE d.phase # "failed"
  <2>1. d.phase = "running"
    BY <1>1, <1>3, <1>5 DEF Heard
  <2> HIDE DEF d
  <2>2. /\ advanced.error = "ok"
        /\ SessionFits(p, given.session, e.history)
        /\ given.history = Elapsed(given.session) /\ given.next = d.next
        /\ DriverFits(p, ready, e, faulty, mismatched)
        /\ ready.history = d.history + 1 /\ Grows(d, ready)
        /\ Bounded(given) /\ Grows(given, ready)
    BY <1>2, <1>3, <2>1, FrameFits
  <2>3. Becomes(p, t, count, sent)
    BY <1>1, <1>5, <2>2
  <2> HIDE DEF ready, given, advanced
  <2>4. /\ DriverFits(p, t, e, faulty, mismatched)
        /\ t.history = ready.history /\ Grows(ready, t)
    BY <2>2, NumberedFits
  <2> HIDE DEF t
  <2>5. Bounded(d) /\ Bounded(ready) /\ Bounded(t)
    BY <1>3, <2>2, <2>4, DriverFacts
  <2>6. Goes(driver[p], t) /\ Grows(given, t)
    BY <1>1, <1>2, <1>3, <2>2, <2>4, <2>5 DEF Goes, Grows, Heard, Bounded
  <2>7. packet \in PacketsOf(faulty, p, given) /\ packet # HelloPacket(p)
    <3>1. d.next \in SequenceNumbers /\ e.history \in Nat /\ e.history <= FrameCount
      BY <1>2, <1>3 DEF DriverFits, Drivers, Bounded
    <3>2. QED
      BY <2>2, <3>1, InputPacketFits
  <2> HIDE DEF packet
  <2>8. packet \in PacketsOf(faulty, p, t)
    BY <2>2, <2>5, <2>6, <2>7, GrowthKeepsPackets
  <2>9. Waiting(p) \in Seq(PacketsOf(faulty, p, t))
    BY <2>5, <2>6, WaitingFits DEF Goes
  <2>10. sent \in Seq(PacketsOf(faulty, p, t))
    BY <2>7, <2>8, <2>9, WithInputFits
  <2> HIDE DEF sent
  <2>11. QED
    BY <1>2, <2>3, <2>4, <2>6, <2>10, BecomesFits
<1>6. QED
  BY <1>4, <1>5

(* A confirming step reads the answers, and counts its final drain. *)
LEMMA ConfirmingDrainStep ==
  ASSUME SimulationIsTotal, PeersFit, NEW p \in Players, NEW count,
         ConfirmingDrain(p, count)
  PROVE  StepFits
<1> DEFINE q == OtherPlayer(p)
           e == driver[q]
           awake == [driver[p] EXCEPT !.phase = "confirming"]
           d == Drained(p, awake, count)
           t == IF d.phase = "failed" THEN d ELSE Completed(p, d)
<1>1. /\ driver[p].phase = "resent" /\ count \in Arrivals(p)
      /\ Becomes(p, t, count, Waiting(p))
  BY DEF ConfirmingDrain
<1>2. /\ DriverFits(p, driver[p], e, faulty, mismatched)
      /\ Bounded(driver[p]) /\ Bounded(e)
      /\ channel[p] \in Seq(PacketsOf(faulty, q, e)) /\ count \in 0 .. Len(channel[p])
  BY <1>1, PeerFacts
<1>3. /\ DriverFits(p, awake, e, faulty, mismatched)
      /\ awake.history = driver[p].history /\ Grows(driver[p], awake)
      /\ awake.phase = "confirming"
  <2>1. q \notin mismatched
    BY <1>1, <1>2 DEF DriverFits, Playing
  <2> DEFINE was == driver[p]
  <2>2. awake = [was EXCEPT !.phase = "confirming"]
    OBVIOUS
  <2>3. DriverFits(p, was, e, faulty, mismatched)
    BY <1>2
  <2> HIDE DEF was, awake, e
  <2>4. /\ DriverFits(p, awake, e, faulty, mismatched)
        /\ awake.history = was.history /\ Grows(was, awake)
        /\ awake.phase = "confirming"
    BY <2>1, <2>2, <2>3, PhaseFits DEF Phases, Early
  <2>5. QED
    BY <2>4 DEF was
<1> HIDE DEF awake
<1>4. DriverFits(p, d, e, faulty, mismatched) /\ Heard(awake, d)
  BY <1>2, <1>3, DrainedFits
<1> HIDE DEF d
<1>5. /\ DriverFits(p, t, e, faulty, mismatched)
      /\ t.history = d.history /\ Agreed(t) = Agreed(d)
  <2>1. CASE d.phase = "failed"
    BY <1>4, <2>1
  <2>2. CASE d.phase # "failed"
    <3>1. d.phase = "confirming"
      BY <1>3, <1>4, <2>2 DEF Heard
    <3>2. QED
      BY <1>4, <2>2, <3>1, CompletedFits
  <2>3. QED
    BY <2>1, <2>2
<1> HIDE DEF t
<1>6. Bounded(awake) /\ Bounded(d) /\ Bounded(t)
  BY <1>3, <1>4, <1>5, DriverFacts
<1>7. Goes(driver[p], t)
  BY <1>1, <1>2, <1>3, <1>4, <1>5, <1>6 DEF Goes, Grows, Heard, Bounded
<1>8. QED
  BY <1>1, <1>2, <1>5, <1>7, SilentFits

-----------------------------------------------------------------------------
(* The network *)

(* What the network leaves in a channel was in it before. *)
LEMMA FaultFits ==
  ASSUME PeersFit, NEW p \in Players, NEW packets,
         packets \in Seq(PacketsOf(faulty, OtherPlayer(p), driver[OtherPlayer(p)])),
         channel' = [channel EXCEPT ![p] = packets],
         UNCHANGED <<driver, faulty, mismatched>>
  PROVE  StepFits
<1>1. /\ \A x \in Players : channel'[x] = IF x = p THEN packets ELSE channel[x]
      /\ DOMAIN channel' = Players
  BY DEF PeersFit, Consistent
<1>2. PeersFit'
  BY <1>1 DEF PeersFit, Consistent
<1>3. QED
  BY <1>2 DEF StepFits

(* A packet left out of a sequence. *)
LEMMA RemoveAtFits ==
  ASSUME NEW T, NEW packets \in Seq(T), NEW i \in 1 .. Len(packets)
  PROVE  Lists!RemoveAt(packets, i) \in Seq(T)
<1> DEFINE front == SubSeq(packets, 1, i - 1)
           back == SubSeq(packets, i + 1, Len(packets))
<1>1. Len(packets) \in Nat /\ \A k \in 1 .. Len(packets) : packets[k] \in T
  BY LenProperties, ElementOfSeq
<1>2. front \in Seq(T) /\ back \in Seq(T)
  BY <1>1, SubSeqProperties
<1>3. Lists!RemoveAt(packets, i) = front \o back
  BY DEF Lists!RemoveAt
<1> HIDE DEF front, back
<1>4. QED
  BY <1>2, <1>3, ConcatProperties

(* Losing, repeating and moving a packet. *)
LEMMA NetworkStep ==
  ASSUME PeersFit, NEW p \in Players, Lose(p) \/ Duplicate(p) \/ Reorder(p)
  PROVE  StepFits
<1> DEFINE T == PacketsOf(faulty, OtherPlayer(p), driver[OtherPlayer(p)])
           c == channel[p]
<1>1. c \in Seq(T) /\ Len(c) \in Nat /\ \A k \in 1 .. Len(c) : c[k] \in T
  BY PeerFacts, ElementOfSeq
<1>2. UNCHANGED <<driver, faulty, mismatched>>
  BY DEF Lose, Duplicate, Reorder, Fault
<1>3. \E packets : channel' = [channel EXCEPT ![p] = packets] /\ packets \in Seq(T)
  <2>1. CASE Lose(p)
    <3>1. PICK i \in 1 .. Len(c) : channel' = [channel EXCEPT ![p] = Lists!RemoveAt(c, i)]
      BY <2>1 DEF Lose
    <3> HIDE DEF T
    <3>2. QED
      BY <1>1, <3>1, RemoveAtFits
  <2>2. CASE Duplicate(p)
    <3>1. PICK i \in 1 .. Len(c) : channel' = [channel EXCEPT ![p] = Append(c, c[i])]
      BY <2>2 DEF Duplicate
    <3> HIDE DEF T
    <3>2. QED
      BY <1>1, <3>1, AppendProperties
  <2>3. CASE Reorder(p)
    <3>1. PICK i \in 2 .. Len(c) :
            channel' = [channel EXCEPT ![p] = Append(Lists!RemoveAt(c, i - 1), c[i - 1])]
      BY <2>3 DEF Reorder
    <3>2. i - 1 \in 1 .. Len(c)
      BY <1>1
    <3> HIDE DEF T
    <3>3. Lists!RemoveAt(c, i - 1) \in Seq(T)
      BY <1>1, <3>2, RemoveAtFits
    <3>4. Append(Lists!RemoveAt(c, i - 1), c[i - 1]) \in Seq(T)
      BY <1>1, <3>2, <3>3, AppendProperties
    <3>5. QED
      BY <3>1, <3>4
  <2>4. QED
    BY <2>1, <2>2, <2>3
<1>4. QED
  BY <1>2, <1>3, FaultFits

(* Every step. *)
LEMMA NextFits ==
  ASSUME SimulationIsTotal, PeersFit, [Next]_vars
  PROVE  StepFits
<1>1. CASE UNCHANGED vars
  BY <1>1 DEF vars, StepFits, PeersFit, Consistent
<1>2. CASE Next
  <2>1. PICK p \in Players :
          \/ Start(p) \/ HandshakeSend(p) \/ \E count \in 0 .. 1 : HandshakeReceive(p, count)
          \/ \E count \in 0 .. DrainBatch : RunningStep(p, count)
          \/ ConfirmingSend(p) \/ \E count \in 0 .. DrainBatch : ConfirmingDrain(p, count)
          \/ TimeOut(p) \/ Lose(p) \/ Duplicate(p) \/ Reorder(p)
    BY <1>2 DEF Next
  <2>2. CASE Start(p)
    BY <2>2, StartStep
  <2>3. CASE HandshakeSend(p)
    BY <2>3, HandshakeSendStep
  <2>4. CASE \E count \in 0 .. 1 : HandshakeReceive(p, count)
    BY <2>4, HandshakeReceiveStep
  <2>5. CASE \E count \in 0 .. DrainBatch : RunningStep(p, count)
    BY <2>5, RunningStepStep
  <2>6. CASE ConfirmingSend(p)
    BY <2>6, ConfirmingSendStep
  <2>7. CASE \E count \in 0 .. DrainBatch : ConfirmingDrain(p, count)
    BY <2>7, ConfirmingDrainStep
  <2>8. CASE TimeOut(p)
    BY <2>8, TimeOutStep
  <2>9. CASE Lose(p) \/ Duplicate(p) \/ Reorder(p)
    BY <2>9, NetworkStep
  <2>10. QED
    BY <2>1, <2>2, <2>3, <2>4, <2>5, <2>6, <2>7, <2>8, <2>9
<1>3. QED
  BY <1>1, <1>2

-----------------------------------------------------------------------------
(* What the invariant gives *)

(* In every reachable state what a peer holds and what is on its way to it *)
(* is true of the other peer.                                              *)
THEOREM PeersAlwaysFit ==
  ASSUME SimulationIsTotal
  PROVE  Spec => []PeersFit
<1>1. Init => PeersFit
  BY InitFits
<1>2. PeersFit /\ [Next]_vars => PeersFit'
  BY NextFits DEF StepFits
<1>3. QED
  BY <1>1, <1>2, PTL DEF Spec

(* What the invariant says of two drivers, and of their game. *)
LEMMA PairFacts ==
  ASSUME NEW D, NEW C, NEW bad, NEW apart, Consistent(D, C, bad, apart), NEW p \in Players
  PROVE  LET o == OtherPlayer(p)
         IN  /\ DriverFits(p, D[p], D[o], bad, apart)
             /\ Bounded(D[p]) /\ Bounded(D[o])
             /\ D[p].history = Position(D[p].session.world.frame)
             /\ D[p].session.confirmed = Agreed(D[p])
             /\ Agreed(D[p]) <= D[p].history /\ Agreed(D[p]) <= D[o].history
             /\ FollowsScript(D[p].session.world, D[p].session.confirmed)
<1> DEFINE o == OtherPlayer(p)
           s == D[p].session
<1>1. /\ DriverFits(p, D[p], D[o], bad, apart) /\ DriverFits(o, D[o], D[p], bad, apart)
      /\ o \in Players
  BY Opponents DEF Consistent
<1>2. Bounded(D[p]) /\ Bounded(D[o]) /\ D[p].history = Elapsed(s) /\ s.confirmed = Agreed(D[p])
  BY <1>1, DriverFacts
<1>3. SessionFits(p, s, D[o].history) /\ D[o].history \in Nat /\ D[o].history <= FrameCount
  BY <1>1, <1>2 DEF DriverFits, Bounded
<1> HIDE DEF s
<1>4. Position(s.confirmed) <= Elapsed(s)
  BY <1>3, SessionFacts
<1>5. Position(s.confirmed) <= D[o].history
  BY <1>3, ConfirmedWasMade
<1>6. FollowsScript(s.world, s.confirmed)
  BY <1>3, ConfirmedIsScripted
<1>7. QED
  BY <1>1, <1>2, <1>4, <1>5, <1>6 DEF s, Elapsed, Agreed

(* What a finished driver shows of both. *)
LEMMA FinishedFacts ==
  ASSUME NEW D, NEW C, NEW bad, NEW apart, Consistent(D, C, bad, apart),
         NEW p \in Players, D[p].phase = "finished"
  PROVE  /\ \A q \in Players :
              /\ D[q].session.confirmed = FrameCount /\ Agreed(D[q]) = FrameCount
              /\ D[q].session.world = ScriptWorld(FrameCount)
         /\ FinalHash(bad, OtherPlayer(p)) = FinalHash(bad, p)
         /\ apart = {}
<1> DEFINE o == OtherPlayer(p)
<1>1. o \in Players /\ OtherPlayer(o) = p /\ \A q \in Players : q = p \/ q = o
  BY Opponents
<1>2. /\ DriverFits(p, D[p], D[o], bad, apart) /\ DriverFits(o, D[o], D[p], bad, apart)
      /\ Bounded(D[p]) /\ Bounded(D[o]) /\ apart \subseteq Players
      /\ D[p].session.confirmed = Agreed(D[p]) /\ D[o].session.confirmed = Agreed(D[o])
      /\ Agreed(D[o]) <= D[o].history
  BY <1>1, PairFacts DEF Consistent
<1>3. /\ D[p].session.confirmed = FrameCount
      /\ D[p].remoteFinal = {DigestOf(bad, p, D[p].session.world)}
      /\ D[p].remoteFinal \subseteq {FinalHash(bad, o)}
      /\ Agreed(D[o]) = FrameCount
      /\ o \notin apart
  BY <1>2 DEF DriverFits, FinishedFits, Drivers, Playing
<1>4. /\ SessionFits(p, D[p].session, D[o].history)
      /\ SessionFits(o, D[o].session, D[p].history)
  BY <1>2 DEF DriverFits
<1>5. /\ D[p].session.world = ScriptWorld(FrameCount)
      /\ D[o].session.world = ScriptWorld(FrameCount)
  BY <1>1, <1>2, <1>3, <1>4, WholeGame DEF Bounded
<1>6. FinalHash(bad, o) = FinalHash(bad, p)
  BY <1>3, <1>5 DEF FinalHash
<1>7. D[o].history > 0
  BY <1>2, <1>3, GameFacts DEF Bounded
<1>8. p \notin apart
  BY <1>1, <1>2, <1>7 DEF DriverFits
<1>9. apart = {}
  BY <1>1, <1>2, <1>3, <1>8
<1>10. QED
  BY <1>1, <1>2, <1>3, <1>5, <1>6, <1>9

(* Whatever the network does to the packets, what the two peers confirm is *)
(* the game of the scripted inputs (ingest_remote of redundant windows,    *)
(* flush_corrections, update_confirmation).                                *)
THEOREM ConfirmedIsTheScript ==
  ASSUME SimulationIsTotal
  PROVE  Spec => []ConfirmedGameIsTheScript
<1>1. PeersFit => ConfirmedGameIsTheScript
  BY PairFacts DEF PeersFit, ConfirmedGameIsTheScript
<1>2. QED
  BY <1>1, PeersAlwaysFit, PTL

(* A peer that reports success has confirmed the whole game, and the other *)
(* peer has confirmed it too, with the same state.                         *)
THEOREM SuccessIsShared ==
  ASSUME SimulationIsTotal
  PROVE  Spec => []SuccessIsMutual
<1>1. ASSUME PeersFit PROVE SuccessIsMutual
  <2>1. SUFFICES ASSUME NEW p \in Players, driver[p].phase = "finished", NEW q \in Players
                 PROVE  /\ driver[q].session.confirmed = FrameCount
                        /\ HashOf(q, driver[q].session.world)
                             = HashOf(p, driver[p].session.world)
    BY DEF SuccessIsMutual
  <2>2. /\ \A x \in Players :
             /\ driver[x].session.confirmed = FrameCount
             /\ driver[x].session.world = ScriptWorld(FrameCount)
        /\ FinalHash(faulty, OtherPlayer(p)) = FinalHash(faulty, p)
    BY <1>1, <2>1, FinishedFacts DEF PeersFit
  <2>3. \A x \in Players : HashOf(x, driver[x].session.world) = FinalHash(faulty, x)
    BY <2>2 DEF HashOf, FinalHash, DigestOf
  <2>4. q = p \/ q = OtherPlayer(p)
    BY Opponents
  <2>5. QED
    BY <2>2, <2>3, <2>4
<1>2. QED
  BY <1>1, PeersAlwaysFit, PTL

(* Peers that compute the same game never accuse each other of a desync,   *)
(* however packets are lost, repeated, moved or delayed.                   *)
THEOREM DesyncIsNeverFalse ==
  ASSUME SimulationIsTotal
  PROVE  Spec => []NoFalseDesync
<1>1. PeersFit => NoFalseDesync
  BY PairFacts DEF PeersFit, NoFalseDesync, DriverFits
<1>2. QED
  BY <1>1, PeersAlwaysFit, PTL

(* No peer finishes with a peer of another version or scenario, nor a game *)
(* whose final state one of them computed differently.                     *)
THEOREM FinishedTogether ==
  ASSUME SimulationIsTotal
  PROVE  Spec => []NobodyFinishesApart
<1>1. ASSUME PeersFit PROVE NobodyFinishesApart
  <2>1. SUFFICES ASSUME NEW p \in Players, driver[p].phase = "finished"
                 PROVE  /\ mismatched = {}
                        /\ faulty # Players =>
                             \A q \in faulty : ~ Hits(driver[q].session.world)
    BY DEF NobodyFinishesApart
  <2>2. /\ \A x \in Players : driver[x].session.world = ScriptWorld(FrameCount)
        /\ FinalHash(faulty, OtherPlayer(p)) = FinalHash(faulty, p)
        /\ mismatched = {}
    BY <1>1, <2>1, FinishedFacts DEF PeersFit
  <2>3. ASSUME faulty # Players, NEW q \in faulty PROVE ~ Hits(driver[q].session.world)
    <3> DEFINE o == OtherPlayer(q)
               world == ScriptWorld(FrameCount)
    <3>1. faulty \subseteq Players
      BY <1>1 DEF PeersFit, Consistent
    <3>2. q \in Players /\ o \in Players /\ \A x \in Players : x = q \/ x = o
      BY <2>3, <3>1, Opponents
    <3>3. o \notin faulty
      BY <2>3, <3>1, <3>2
    <3>4. FinalHash(faulty, o) = FinalHash(faulty, q)
      BY <2>1, <2>2, <3>2, Opponents
    <3>5. FinalHash(faulty, o).biased = FinalHash(faulty, q).biased
      BY <3>4
    <3>6. (o \in faulty /\ Hits(world)) = (q \in faulty /\ Hits(world))
      BY <3>5 DEF FinalHash, DigestOf
    <3>7. ~ Hits(world)
      BY <2>3, <3>3, <3>6
    <3>8. QED
      BY <2>2, <3>2, <3>7
  <2>4. QED
    BY <2>2, <2>3
<1>2. QED
  BY <1>1, PeersAlwaysFit, PTL

-----------------------------------------------------------------------------
(* The two peers implement a lockstep game *)

(* What a peer has produced and confirmed of the game, and whether it is   *)
(* done with it, in terms of its driver.                                   *)
Produced(D) == [p \in Players |-> Position(D[p].session.world.frame)]
Boundaries(D) == [p \in Players |-> Position(D[p].session.confirmed)]
Done(D) == [p \in Players |-> D[p].phase = "finished"]

(* One peer's step is a step of the game. *)
LockstepMove(D, E, p) ==
  /\ ~ Done(D)[p]
  /\ \E i \in {Produced(D)[p], Produced(D)[p] + 1} :
       i <= FrameCount /\ Produced(E) = [Produced(D) EXCEPT ![p] = i]
  /\ \E m \in Boundaries(D)[p] .. FrameCount :
       /\ \A q \in Players : m <= Produced(E)[q]
       /\ Boundaries(E) = [Boundaries(D) EXCEPT ![p] = m]
  /\ \/ Done(E) = Done(D)
     \/ /\ \A q \in Players : Boundaries(E)[q] = FrameCount
        /\ Done(E) = [Done(D) EXCEPT ![p] = TRUE]

(* It is one, with the drivers D before it and E after it. *)
LEMMA GoingIsLockstep ==
  ASSUME NEW D, NEW C, NEW bad, NEW apart, Consistent(D, C, bad, apart),
         NEW E, NEW B, NEW worse, NEW farther, Consistent(E, B, worse, farther),
         NEW p \in Players, NEW t, E = [D EXCEPT ![p] = t], Goes(D[p], t)
  PROVE  LockstepMove(D, E, p)
<1> DEFINE o == OtherPlayer(p)
           k == t.history
           n == Agreed(t)
<1>1. /\ o \in Players /\ o # p /\ \A q \in Players : q = p \/ q = o
      /\ OtherPlayer(o) = p
  BY Opponents
<1>2. E[p] = t /\ E[o] = D[o]
  BY <1>1 DEF Consistent
<1> HIDE DEF o
<1>3. /\ Bounded(D[p]) /\ Bounded(D[o])
      /\ D[p].history = Position(D[p].session.world.frame)
      /\ D[o].history = Position(D[o].session.world.frame)
  BY <1>1, PairFacts DEF o
<1>4. /\ Bounded(t) /\ k = Position(t.session.world.frame)
      /\ n <= k /\ n <= D[o].history
  <2>1. /\ Bounded(E[p]) /\ E[p].history = Position(E[p].session.world.frame)
        /\ Agreed(E[p]) <= E[p].history /\ Agreed(E[p]) <= E[o].history
    BY PairFacts DEF o
  <2>2. QED
    BY <1>2, <2>1
<1>5. /\ D[p].history <= k /\ k <= D[p].history + 1 /\ Agreed(D[p]) <= n
      /\ D[p].phase # "finished"
  BY DEF Goes, Grows
<1>6. ASSUME t.phase = "finished"
      PROVE  n = FrameCount /\ Agreed(D[o]) = FrameCount
  <2>1. E[p].phase = "finished"
    BY <1>2, <1>6
  <2>2. \A q \in Players : Agreed(E[q]) = FrameCount
    BY <2>1, FinishedFacts
  <2>3. QED
    BY <1>1, <1>2, <2>2
<1>7. /\ k \in {D[p].history, D[p].history + 1} /\ k <= FrameCount
      /\ n \in Agreed(D[p]) .. FrameCount
  BY <1>3, <1>4, <1>5, GameFacts DEF Bounded
<1> HIDE DEF k, n
<1>8. /\ Produced(E) = [Produced(D) EXCEPT ![p] = k] /\ Produced(D)[p] = D[p].history
      /\ Produced(E)[p] = k /\ Produced(E)[o] = D[o].history
  <2>1. /\ Produced(D)[p] = D[p].history /\ Produced(D)[o] = D[o].history
        /\ Produced(E)[p] = k /\ Produced(E)[o] = Produced(D)[o]
        /\ \A F : Produced(F) = [x \in Players |-> Produced(F)[x]]
    BY <1>1, <1>2, <1>3, <1>4 DEF Produced
  <2>2. Produced(E) = [Produced(D) EXCEPT ![p] = k]
    BY <1>1, <2>1
  <2>3. QED
    BY <2>1, <2>2
<1>9. /\ Boundaries(E) = [Boundaries(D) EXCEPT ![p] = n]
      /\ Boundaries(D)[p] = Agreed(D[p])
      /\ Boundaries(E)[p] = n /\ Boundaries(E)[o] = Agreed(D[o])
  <2>1. /\ Boundaries(D)[p] = Agreed(D[p]) /\ Boundaries(D)[o] = Agreed(D[o])
        /\ Boundaries(E)[p] = n /\ Boundaries(E)[o] = Boundaries(D)[o]
        /\ \A F : Boundaries(F) = [x \in Players |-> Boundaries(F)[x]]
    BY <1>1, <1>2 DEF Boundaries, Agreed, n
  <2>2. Boundaries(E) = [Boundaries(D) EXCEPT ![p] = n]
    BY <1>1, <2>1
  <2>3. QED
    BY <2>1, <2>2
<1>10. /\ ~ Done(D)[p]
       /\ t.phase # "finished" => Done(E) = Done(D)
       /\ t.phase = "finished" => Done(E) = [Done(D) EXCEPT ![p] = TRUE]
  <2>1. ~ Done(D)[p]
    BY <1>5 DEF Done
  <2>2. ASSUME t.phase # "finished" PROVE Done(E) = Done(D)
    <3>1. \A x \in Players : (E[x].phase = "finished") = (D[x].phase = "finished")
      BY <1>1, <1>2, <1>5, <2>2
    <3>2. QED
      BY <3>1, Zenon DEF Done
  <2>3. ASSUME t.phase = "finished" PROVE Done(E) = [Done(D) EXCEPT ![p] = TRUE]
    <3>1. \A x \in Players :
            (E[x].phase = "finished") = (IF x = p THEN TRUE ELSE Done(D)[x])
      BY <1>1, <1>2, <2>3 DEF Done
    <3>2. [Done(D) EXCEPT ![p] = TRUE]
            = [x \in Players |-> IF x = p THEN TRUE ELSE Done(D)[x]]
      BY Zenon DEF Done
    <3>3. QED
      BY <3>1, <3>2, Zenon DEF Done
  <2>4. QED
    BY <2>1, <2>2, <2>3
<1>11. \E i \in {Produced(D)[p], Produced(D)[p] + 1} :
         i <= FrameCount /\ Produced(E) = [Produced(D) EXCEPT ![p] = i]
  BY <1>7, <1>8
<1>12. \E m \in Boundaries(D)[p] .. FrameCount :
         /\ \A q \in Players : m <= Produced(E)[q]
         /\ Boundaries(E) = [Boundaries(D) EXCEPT ![p] = m]
  BY <1>1, <1>4, <1>7, <1>8, <1>9
<1>13. \/ Done(E) = Done(D)
       \/ /\ \A q \in Players : Boundaries(E)[q] = FrameCount
          /\ Done(E) = [Done(D) EXCEPT ![p] = TRUE]
  BY <1>1, <1>6, <1>9, <1>10
<1>14. QED
  BY <1>10, <1>11, <1>12, <1>13 DEF LockstepMove

(* The drivers implement Lockstep: nobody confirms a frame before both     *)
(* peers have produced its input, and nobody is done before both have      *)
(* confirmed the whole game.                                               *)
THEOREM PeersImplementLockstep ==
  ASSUME SimulationIsTotal
  PROVE  Spec => GameIsLockstep
<1>1. ASSUME Init PROVE Game!Init
  <2>1. driver = [p \in Players |-> NewDriver(p)]
    BY <1>1 DEF Init
  <2>2. \A p \in Players :
          /\ Position(NewDriver(p).session.world.frame) = 0
          /\ Position(NewDriver(p).session.confirmed) = 0
          /\ (NewDriver(p).phase = "finished") = FALSE
    <3> SUFFICES ASSUME NEW p \in Players
                 PROVE  /\ Position(NewDriver(p).session.world.frame) = 0
                        /\ Position(NewDriver(p).session.confirmed) = 0
                        /\ (NewDriver(p).phase = "finished") = FALSE
      OBVIOUS
    <3>1. /\ NewDriver(p).session.world.frame = StartFrame
          /\ NewDriver(p).session.confirmed = StartFrame
          /\ NewDriver(p).phase = "absent"
      BY DEF NewDriver, NewSession, InitialWorld
    <3>2. Position(StartFrame) = 0
      BY PeersAssumption, SessionAssumption, PositionIsFrame
    <3>3. QED
      BY <3>1, <3>2
  <2>3. QED
    BY <2>1, <2>2 DEF Game!Init
<1>2. ASSUME PeersFit, PeersFit', [Next]_vars
      PROVE  [Game!Next]_(Game!lockstep)
  <2>1. CASE UNCHANGED driver
    BY <2>1 DEF Game!lockstep
  <2>2. CASE OneGoes
    <3>1. PICK p \in Players : \E t :
            driver' = [driver EXCEPT ![p] = t] /\ Goes(driver[p], t)
      BY <2>2 DEF OneGoes
    <3>2. LockstepMove(driver, driver', p)
      BY <1>2, <3>1, GoingIsLockstep DEF PeersFit
    <3>3. Game!Step(p)
      BY <3>2 DEF LockstepMove, Produced, Boundaries, Done, Game!Step
    <3>4. QED
      BY <3>3 DEF Game!Next
  <2>3. QED
    BY <1>2, <2>1, <2>2, NextFits DEF StepFits
<1>3. Spec => []PeersFit
  BY PeersAlwaysFit
<1>4. QED
  BY <1>1, <1>2, <1>3, PTL DEF Spec, GameIsLockstep, Game!Spec
====
