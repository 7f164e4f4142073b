---- MODULE SessionProofs ----
(***************************************************************************)
(* Theorems about SessionCalls for every value of its constants.           *)
(*                                                                         *)
(* The inductive invariant is that the session is sound, as SessionLemmas  *)
(* has it, and that the callers keep to their bounds.  The step of each    *)
(* call follows from the lemma about the method it makes.                  *)
(***************************************************************************)
EXTENDS SessionCalls, SessionLemmas

-----------------------------------------------------------------------------
(* The inductive invariant *)

(* Remote inputs are at most MaxLead ahead. *)
LeadKept(s) ==
  \A f \in FrameNumbers :
    Contains(s.remote, f) => Position(f) <= Elapsed(s) + MaxLead

Called(s) ==
  /\ Sound(s)
  /\ Elapsed(s) <= FrameLimit
  /\ LeadKept(s)

(* No input of the run can displace another. *)
RingsSuffice == FrameLimit + MaxLead < Capacity

(* What the callers' bounds say of the numbers in a session. *)
LEMMA CalledFacts ==
  ASSUME NEW s, Called(s)
  PROVE  /\ Elapsed(s) \in Nat /\ Elapsed(s) <= FrameLimit
         /\ 2 * (FrameLimit + MaxLead + 1) < Modulus
         /\ FrameLimit \in Nat /\ MaxLead \in Nat /\ MaxRollback \in Nat
         /\ Capacity \in Nat /\ MaxRollback + MaxLead < Capacity
         /\ InReach(s)
         /\ s.confirmed \in FrameNumbers /\ Position(s.confirmed) \in Nat
         /\ Position(s.confirmed) <= Elapsed(s)
         /\ RingsSuffice => Undisplaced(s) /\ Elapsed(s) < Capacity
<1>1. /\ Elapsed(s) \in Nat /\ Elapsed(s) <= FrameLimit
      /\ FrameLimit \in Nat /\ MaxLead \in Nat /\ MaxRollback \in Nat
      /\ Capacity \in Nat /\ MaxRollback + MaxLead < Capacity
      /\ 2 * (FrameLimit + MaxLead + 1) < Modulus
      /\ s.confirmed \in FrameNumbers /\ Position(s.confirmed) \in Nat
      /\ Position(s.confirmed) <= Elapsed(s)
  BY PositionFacts, CallsAssumption, SessionAssumption, CapacityAssumption
     DEF Called, Sound, Sessions, Worlds, Elapsed, ConfirmedFits
<1>2. InReach(s)
  BY <1>1 DEF InReach
<1>3. ASSUME RingsSuffice PROVE Undisplaced(s) /\ Elapsed(s) < Capacity
  <2>1. \A f \in FrameNumbers :
          Contains(s.remote, f) => /\ Position(f) <= Elapsed(s) + MaxLead
                                   /\ Position(f) \in Nat
    BY PositionFacts DEF Called, LeadKept
  <2>2. QED
    BY <1>1, <1>3, <2>1 DEF Undisplaced, RingsSuffice
<1>4. QED
  BY <1>1, <1>2, <1>3

(* No early input reaches the slot of a frame that is not too old. *)
LEMMA NotDisplaced ==
  ASSUME NEW s, Called(s), NEW f \in FrameNumbers,
         Position(f) < Position(s.confirmed),
         Elapsed(s) - Position(f) < Capacity - MaxLead
  PROVE  Contains(s.remote, f)
<1>1. PICK g \in FrameNumbers : /\ Contains(s.remote, g)
                                /\ RingIndex(g) = RingIndex(f)
                                /\ Position(f) <= Position(g)
  BY DEF Called, Sound, ConfirmedFits, Kept
<1>2. Position(g) <= Elapsed(s) + MaxLead
  BY <1>1 DEF Called, LeadKept
<1>3. Position(f) \in Nat /\ Position(g) \in Nat
  BY PositionFacts
<1>4. g = f
  BY <1>1, <1>2, <1>3, PositionsInSlot, CalledFacts
<1>5. QED
  BY <1>1, <1>4

(* The remote said again what it had said of a confirmed frame. *)
LEMMA HonestRepeats ==
  ASSUME NEW s, Called(s), NEW frame \in FrameNumbers, NEW remote,
         Contains(s.remote, frame) => Get(s.remote, frame) = remote,
         Elapsed(s) <= Position(frame) + MaxRollback
  PROVE  Same(s, frame, remote)
<1>1. Position(frame) \in Nat
  BY PositionFacts
<1>2. Elapsed(s) - Position(frame) < Capacity - MaxLead
  BY <1>1, CalledFacts
<1>3. QED
  BY <1>2, NotDisplaced DEF Same

-----------------------------------------------------------------------------
(* The session under its callers *)

(* A new session is one that its callers have made. *)
LEMMA InitSound ==
  ASSUME Init
  PROVE  Called(session) /\ Fresh(session)
<1>1. session = NewSession(LocalPeer) /\ LocalPeer \in Players
  BY CallsAssumption DEF Init
<1>2. /\ Sound(session) /\ Elapsed(session) = 0
      /\ \A f \in FrameNumbers : ~ Contains(session.remote, f)
  BY <1>1, NewSessionSound
<1>3. \A f \in FrameNumbers : Position(f) \in Nat
  BY PositionFacts
<1>4. QED
  BY <1>2, <1>3, CallsAssumption DEF Called, LeadKept, Fresh

(* What a step does: the session stays sound and within its bounds, and    *)
(* while the remote keeps to what it sent, the confirmed boundary and the  *)
(* frames before it stay.                                                  *)
StepIsSound ==
  /\ Called(session')
  /\ RingsSuffice /\ Fresh(session) => Fresh(session')
  /\ ~ RemoteMayChange =>
       /\ Position(session.confirmed) <= Position(session'.confirmed)
       /\ \A f \in FrameNumbers :
            Position(f) < Position(session.confirmed) =>
              session'.world.inputs[f] = session.world.inputs[f]

(* advance, accepted or refused. *)
LEMMA AdvanceStep ==
  ASSUME SimulationIsTotal, Called(session), CallAdvance
  PROVE  StepIsSound
<1>1. PICK player \in Players,
           frame \in {session.world.frame, NextFrame(session.world.frame)},
           local \in LocalButtons :
        session' = Advance(session, player, frame, local).session
  BY DEF CallAdvance
<1>2. /\ local \in Buttons /\ Elapsed(session) < FrameLimit
      /\ Elapsed(session) \in Nat /\ 2 * (Elapsed(session) + 1) < Modulus
      /\ RingsSuffice => Elapsed(session) < Capacity
  BY CallsAssumption, CalledFacts, ModulusAssumption DEF CallAdvance, Now, Elapsed
<1>3. /\ Sound(session') /\ session'.remote = session.remote
      /\ Elapsed(session') \in {Elapsed(session), Elapsed(session) + 1}
      /\ Position(session.confirmed) <= Position(session'.confirmed)
      /\ \A f \in FrameNumbers :
           Position(f) < Position(session.confirmed) =>
             session'.world.inputs[f] = session.world.inputs[f]
      /\ Fresh(session) /\ Elapsed(session) < Capacity => Fresh(session')
  BY <1>1, <1>2, AdvanceSound DEF Called
<1>4. LeadKept(session')
  BY <1>2, <1>3, PositionFacts, CallsAssumption DEF Called, LeadKept
<1>5. QED
  BY <1>2, <1>3, <1>4, CallsAssumption DEF Called, StepIsSound

(* ingest_remote, accepted or refused. *)
LEMMA IngestStep ==
  ASSUME Called(session), CallIngestRemote
  PROVE  StepIsSound
<1>1. PICK player \in Players, position \in 0 .. Now + MaxLead, remote \in Buttons :
        LET frame == FrameOffset(StartFrame, position) IN
        /\ \/ RemoteMayChange
           \/ Contains(session.remote, frame) => Get(session.remote, frame) = remote
        /\ session' = IngestRemote(session, player, frame, remote).session
  BY DEF CallIngestRemote
<1> DEFINE frame == FrameOffset(StartFrame, position)
<1>2. Now = Elapsed(session) /\ Now \in Nat /\ Now <= FrameLimit
  BY CalledFacts DEF Now, Elapsed
<1>3. Position(StartFrame) = 0
  BY SessionAssumption, ModulusAssumption DEF Position, FrameDistance, FrameNumbers
<1>4. /\ position \in Nat /\ Position(StartFrame) + position < Modulus
      /\ StartFrame \in FrameNumbers /\ position <= Now + MaxLead
  BY <1>2, <1>3, CallsAssumption, SessionAssumption, ModulusAssumption
<1>5. frame \in FrameNumbers /\ Position(frame) = position
  BY <1>3, <1>4, PositionOffset
<1>6. /\ RemoteMayChange \/ (Contains(session.remote, frame) =>
                               Get(session.remote, frame) = remote)
      /\ session' = IngestRemote(session, player, frame, remote).session
  BY <1>1
<1> HIDE DEF frame
<1>7. /\ Position(frame) <= Elapsed(session) + MaxLead
      /\ 2 * Position(frame) < Modulus /\ Position(frame) \in Nat
      /\ RingsSuffice => Position(frame) < Capacity
  BY <1>2, <1>4, <1>5, CalledFacts, ModulusAssumption DEF RingsSuffice
<1>8. /\ Sound(session') /\ session'.world = session.world
      /\ \/ session' = session
         \/ /\ session'.remote = Put(session.remote, frame, remote)
            /\ Elapsed(session) <= Position(frame) + MaxRollback
      /\ Same(session, frame, remote) =>
           Position(session.confirmed) <= Position(session'.confirmed)
  BY <1>5, <1>6, <1>7, CalledFacts, IngestSound DEF Called
<1>9. Elapsed(session') = Elapsed(session)
  BY <1>8 DEF Elapsed
<1>10. LeadKept(session')
  <2>1. CASE session' = session
    BY <2>1 DEF Called
  <2>2. CASE session'.remote = Put(session.remote, frame, remote)
    <3>1. session.remote \in RingOf(Buttons)
      BY DEF Called, Sound, Sessions
    <3>2. \A g \in FrameNumbers \ {frame} :
            Contains(session'.remote, g) => Contains(session.remote, g)
      BY <1>5, <2>2, <3>1, PutFacts
    <3>3. QED
      BY <1>7, <1>9, <3>2 DEF Called, LeadKept
  <2>3. QED
    BY <1>8, <2>1, <2>2
<1>11. ASSUME ~ RemoteMayChange
       PROVE  Position(session.confirmed) <= Position(session'.confirmed)
  <2>1. CASE session' = session
    BY <2>1, CalledFacts
  <2>2. CASE Elapsed(session) <= Position(frame) + MaxRollback
    <3>1. Same(session, frame, remote)
      BY <1>5, <1>6, <1>11, <2>2, HonestRepeats
    <3>2. QED
      BY <1>8, <3>1
  <2>3. QED
    BY <1>8, <2>1, <2>2
<1>12. ASSUME RingsSuffice, Fresh(session) PROVE Fresh(session')
  <2>1. /\ Undisplaced(session) /\ Elapsed(session) <= Capacity
        /\ Position(frame) < Capacity
    BY <1>7, <1>12, CalledFacts
  <2>2. QED
    BY <1>5, <1>6, <1>12, <2>1, IngestFresh DEF Called
<1>13. QED
  BY <1>8, <1>9, <1>10, <1>11, <1>12 DEF Called, StepIsSound

(* flush_corrections. *)
LEMMA FlushStep ==
  ASSUME SimulationIsTotal, Called(session), CallFlushCorrections
  PROVE  StepIsSound
<1>1. session' = FlushCorrections(session).session
  BY DEF CallFlushCorrections
<1>2. /\ Sound(session') /\ session'.world.frame = session.world.frame
      /\ session'.remote = session.remote
      /\ Position(session.confirmed) <= Position(session'.confirmed)
      /\ \A f \in FrameNumbers :
           Position(f) < Position(session.confirmed) =>
             session'.world.inputs[f] = session.world.inputs[f]
  BY <1>1, FlushSound DEF Called
<1>3. Elapsed(session') = Elapsed(session)
  BY <1>2 DEF Elapsed
<1>4. LeadKept(session')
  BY <1>2, <1>3 DEF Called, LeadKept
<1>5. ASSUME RingsSuffice, Fresh(session) PROVE Fresh(session')
  <2>1. Elapsed(session) <= Capacity
    BY <1>5, CalledFacts
  <2>2. QED
    BY <1>1, <1>5, <2>1, FlushFresh DEF Called
<1>6. QED
  BY <1>2, <1>3, <1>4, <1>5 DEF Called, StepIsSound

(* Every step of the callers. *)
LEMMA NextSound ==
  ASSUME SimulationIsTotal, Called(session), Next
  PROVE  StepIsSound
BY AdvanceStep, IngestStep, FlushStep DEF Next

(* Every session the callers can produce is sound: the inductive invariant *)
(* of RollbackSession's three calls.                                       *)
THEOREM Soundness ==
  ASSUME SimulationIsTotal
  PROVE  Spec => []Called(session)
<1>1. Init => Called(session)
  BY InitSound
<1>2. Called(session) /\ [Next]_session => Called(session)'
  <2>1. ASSUME Called(session), Next PROVE Called(session')
    BY <2>1, NextSound DEF StepIsSound
  <2>2. ASSUME Called(session), UNCHANGED session PROVE Called(session')
    BY <2>2
  <2>3. QED
    BY <2>1, <2>2
<1>3. QED
  BY <1>1, <1>2, PTL DEF Spec

(* The session stays a record of its type: frame numbers in range and ring *)
(* slots of the values they are declared for.                              *)
THEOREM TypeCorrectness ==
  ASSUME SimulationIsTotal
  PROVE  Spec => []TypeOK
<1>1. Called(session) => TypeOK
  BY DEF Called, Sound, TypeOK
<1>2. QED
  BY <1>1, Soundness, PTL

(* Flushes leave no snapshot, hash, local or used input of an abandoned    *)
(* timeline in the rings (flush_corrections, put of FrameRing).            *)
THEOREM TimelineCorrectness ==
  ASSUME SimulationIsTotal
  PROVE  Spec => []OneTimeline
<1>1. Called(session) => OneTimeline
  <2>1. SUFFICES ASSUME Called(session) PROVE OneTimeline
    OBVIOUS
  <2>2. \A f \in FrameNumbers : WorldUpTo(f) = Prefix(session.world, f)
    BY DEF WorldUpTo, Prefix
  <2>3. Now = Elapsed(session)
    BY DEF Now, Elapsed
  <2>4. HistoryFits(session) /\ HashesFit(session)
    BY <2>1 DEF Called, Sound
  <2>5. QED
    BY <2>2, <2>3, <2>4 DEF OneTimeline, Remembered, HistoryFits, HashesFit
<1>2. QED
  BY <1>1, Soundness, PTL

(* What was simulated before the confirmed boundary, when no early remote  *)
(* input has displaced it: the actual inputs of both players.              *)
LEMMA ConfirmedInputs ==
  ASSUME Called(session), NEW f \in Reliable,
         Position(f) < Position(session.confirmed)
  PROVE  /\ Contains(session.remote, f)
         /\ session.world.inputs[f] = ActualPair(f)
<1>1. /\ f \in FrameNumbers /\ Position(f) \in Nat
      /\ Position(f) < Elapsed(session)
      /\ Elapsed(session) - Position(f) < Capacity - MaxLead
      /\ Elapsed(session) \in Nat /\ Position(session.confirmed) \in Nat
      /\ MaxLead \in Nat /\ Capacity \in Nat
  BY PositionFacts, CallsAssumption, CapacityAssumption
     DEF Reliable, Now, Elapsed, Called, Sound, Sessions, Worlds
<1>2. Contains(session.remote, f)
  BY <1>1, NotDisplaced
<1>3. /\ Contains(session.used, f)
      /\ session.world.inputs[f] =
           MakePair(session, Get(session.local, f), Get(session.used, f))
  BY <1>1 DEF Called, Sound, HistoryFits
<1>4. Get(session.used, f) = Get(session.remote, f)
  <2>1. SUFFICES ASSUME Get(session.used, f) # Get(session.remote, f) PROVE FALSE
    OBVIOUS
  <2>2. session.dirty # NoFrame /\ Position(session.dirty) <= Position(f)
    BY <1>1, <1>2, <1>3, <2>1 DEF Called, Sound, MistakesPending
  <2>3. session.dirty \in FrameNumbers /\ Position(session.dirty) \in Nat
    BY <2>2, PositionFacts DEF Called, Sound, Sessions
  <2>4. Position(session.confirmed) <= Position(session.dirty)
    BY <2>2 DEF Called, Sound, DirtyFits
  <2>5. QED
    BY <1>1, <2>2, <2>3, <2>4
<1>5. QED
  BY <1>2, <1>3, <1>4 DEF ActualPair

(* update_confirmation and mark_dirty: the confirmed boundary covers only  *)
(* frames simulated from the inputs both players gave.                     *)
THEOREM ConfirmationCorrectness ==
  ASSUME SimulationIsTotal
  PROVE  Spec => []ConfirmedIsActual
<1>1. Called(session) => ConfirmedIsActual
  <2>1. SUFFICES ASSUME Called(session) PROVE ConfirmedIsActual
    OBVIOUS
  <2>2. Position(session.confirmed) <= Now
    BY <2>1 DEF Called, Sound, ConfirmedFits, Now, Elapsed
  <2>3. QED
    BY <2>1, <2>2, ConfirmedInputs DEF ConfirmedIsActual
<1>2. QED
  BY <1>1, Soundness, PTL

(* ingest_remote: a misprediction the session knows of stays pending until *)
(* it is corrected.                                                        *)
THEOREM NoMispredictionIsForgotten ==
  ASSUME SimulationIsTotal
  PROVE  Spec => []MispredictionIsPending
<1>1. Called(session) => MispredictionIsPending
  <2>1. SUFFICES ASSUME Called(session), NEW f \in Reliable,
                        Contains(session.remote, f),
                        Get(session.used, f) # Get(session.remote, f)
                 PROVE  session.dirty # NoFrame /\ Position(session.dirty) <= Position(f)
    BY DEF MispredictionIsPending
  <2>2. /\ f \in FrameNumbers /\ Position(f) < Elapsed(session)
        /\ Elapsed(session) - Position(f) <= Capacity
    BY <2>1, PositionFacts, CallsAssumption, CapacityAssumption
       DEF Reliable, Now, Elapsed, Called, Sound, Sessions, Worlds
  <2>3. Contains(session.used, f)
    BY <2>1, <2>2 DEF Called, Sound, HistoryFits
  <2>4. QED
    BY <2>1, <2>2, <2>3 DEF Called, Sound, MistakesPending
<1>2. QED
  BY <1>1, Soundness, PTL

(* flush_corrections never fails: the rings are deep enough for every      *)
(* correction that the window lets in.                                     *)
THEOREM CorrectionSucceeds ==
  ASSUME SimulationIsTotal
  PROVE  Spec => []CorrectionIsPossible
<1>1. Called(session) => CorrectionIsPossible
  BY FlushSound DEF Called, CorrectionIsPossible
<1>2. QED
  BY <1>1, Soundness, PTL

(* hash_at and state_at: what the desync exchange compares comes from the  *)
(* actual inputs, and a state and a hash of one boundary agree.            *)
THEOREM HashCorrectness ==
  ASSUME SimulationIsTotal
  PROVE  Spec => []HashesAreConfirmed
<1>1. Called(session) => HashesAreConfirmed
  <2>1. SUFFICES ASSUME Called(session), NEW b \in FrameNumbers,
                        HashAt(session, b).error = "ok"
                 PROVE  /\ \A f \in Reliable :
                             Position(f) < Position(b) =>
                               /\ Contains(session.remote, f)
                               /\ HashAt(session, b).value.inputs[f] = ActualPair(f)
                        /\ StateAt(session, b).error = "ok" =>
                             StateAt(session, b).value = HashAt(session, b).value
    BY DEF HashesAreConfirmed
  <2>2. /\ ~ FrameBefore(session.confirmed, b) /\ Contains(session.hashes, b)
        /\ HashAt(session, b).value = Get(session.hashes, b)
    BY <2>1 DEF HashAt
  <2>3. /\ Position(b) <= Elapsed(session)
        /\ HashAt(session, b).value = Prefix(session.world, b)
    BY <2>1, <2>2 DEF Called, Sound, HashesFit
  <2>4. /\ session.world \in Worlds /\ session.world.frame \in FrameNumbers
        /\ session.confirmed \in FrameNumbers
        /\ Elapsed(session) = Position(session.world.frame)
        /\ Elapsed(session) \in Nat /\ Elapsed(session) <= FrameLimit
        /\ Position(session.confirmed) \in Nat /\ Position(b) \in Nat
        /\ Position(session.confirmed) <= Elapsed(session)
    BY <2>1, PositionFacts
       DEF Called, Sound, Sessions, Worlds, Elapsed, WorldFits, ConfirmedFits
  <2>5. Position(b) <= Position(session.confirmed)
    <3>1. 2 * Position(b) < Modulus /\ 2 * Position(session.confirmed) < Modulus
      BY <2>1, <2>3, <2>4, CalledFacts, ModulusAssumption
    <3>2. QED
      BY <2>2, <2>4, <3>1, PositionOrder
  <2>6. ASSUME NEW f \in Reliable, Position(f) < Position(b)
        PROVE  /\ Contains(session.remote, f)
               /\ HashAt(session, b).value.inputs[f] = ActualPair(f)
    <3>1. f \in FrameNumbers /\ Position(f) \in Nat
      BY PositionFacts DEF Reliable
    <3>2. Position(f) < Position(session.confirmed)
      BY <2>4, <2>5, <2>6, <3>1
    <3>3. Prefix(session.world, b).inputs[f] = session.world.inputs[f]
      BY <2>6, <3>1 DEF Prefix
    <3>4. QED
      BY <2>1, <2>3, <3>2, <3>3, ConfirmedInputs
  <2>7. ASSUME StateAt(session, b).error = "ok"
        PROVE  StateAt(session, b).value = Prefix(session.world, b)
    <3>1. CASE b = session.world.frame
      <4>1. \A f \in FrameNumbers :
              IF Position(f) < Position(session.world.frame)
              THEN session.world.inputs[f] = session.world.inputs[f]
              ELSE session.world.inputs[f] = NoPair
        BY <2>1, <2>4, PositionFacts DEF Called, Sound, WorldFits
      <4>2. Prefix(session.world, session.world.frame) = session.world
        BY <2>4, <4>1, PrefixWhole
      <4>3. StateAt(session, b).value = session.world
        BY <2>2, <3>1 DEF StateAt
      <4>4. QED
        BY <3>1, <4>2, <4>3
    <3>2. CASE b # session.world.frame
      <4>1. /\ Contains(session.snapshots, b)
            /\ StateAt(session, b).value = Get(session.snapshots, b)
        BY <2>7, <3>2 DEF StateAt
      <4>2. QED
        BY <2>1, <4>1 DEF Called, Sound, SnapshotsFit
    <3>3. QED
      BY <3>1, <3>2
  <2>8. QED
    BY <2>3, <2>6, <2>7
<1>2. QED
  BY <1>1, Soundness, PTL

(* While the remote keeps to what it sent, no call takes back a confirmed  *)
(* frame or rewrites its inputs (mark_dirty, flush_corrections).           *)
THEOREM ConfirmationIsFinal ==
  ASSUME SimulationIsTotal
  PROVE  Spec => ConfirmedIsFinal
<1>1. ASSUME Called(session), Next
      PROVE  ~ RemoteMayChange =>
               /\ Position(session.confirmed) <= Position(session'.confirmed)
               /\ \A f \in FrameNumbers :
                    Position(f) < Position(session.confirmed) =>
                      session'.world.inputs[f] = session.world.inputs[f]
  BY <1>1, NextSound DEF StepIsSound
<1>2. QED
  BY <1>1, Soundness, PTL DEF Spec, ConfirmedIsFinal

-----------------------------------------------------------------------------
(* Predictions *)

(* While no input can displace another, every frame before the pending     *)
(* correction was simulated with what the remote history says now          *)
(* (predicted_remote, mark_dirty): no late input leaves a frame on a       *)
(* prediction that is no longer the one the session would make.            *)
THEOREM PredictionsStayFresh ==
  ASSUME SimulationIsTotal
  PROVE  Spec => []PredictionsAreFresh
<1> DEFINE Inv == Called(session) /\ (RingsSuffice => Fresh(session))
<1>1. Init => Inv
  BY InitSound
<1>2. Inv /\ [Next]_session => Inv'
  <2>1. ASSUME Inv, Next PROVE Inv'
    BY <2>1, NextSound DEF StepIsSound
  <2>2. ASSUME Inv, UNCHANGED session PROVE Inv'
    BY <2>2
  <2>3. QED
    BY <2>1, <2>2
<1>3. Inv => PredictionsAreFresh
  <2>1. SUFFICES ASSUME Inv, RingsSuffice, NEW f \in Remembered,
                        session.dirty = NoFrame \/ Position(f) < Position(session.dirty)
                 PROVE  Get(session.used, f) = RemoteFor(session, f)
    BY DEF PredictionsAreFresh, RingsSuffice
  <2>2. f \in FrameNumbers /\ Position(f) < Elapsed(session)
    BY DEF Remembered, Now, Elapsed
  <2>3. QED
    BY <2>1, <2>2 DEF Fresh
<1>4. QED
  BY <1>1, <1>2, <1>3, PTL DEF Spec

-----------------------------------------------------------------------------
(* Lost frames *)

(* update_confirmation stays where the remote input is missing. *)
LEMMA MissingInputStops ==
  ASSUME NEW s, "confirmed" \in DOMAIN s, s.confirmed \in FrameNumbers,
         ~ Contains(s.remote, s.confirmed)
  PROVE  UpdateConfirmation(s).confirmed = s.confirmed
<1> DEFINE Blocked == {k \in 0 .. Capacity : ~ Confirmable(s, FrameOffset(s.confirmed, k))}
           stop == Min(Blocked)
<1>1. 0 \in FrameNumbers /\ FrameOffset(s.confirmed, 0) = s.confirmed
  <2>1. 0 \in FrameNumbers
    BY ModulusAssumption DEF FrameNumbers
  <2>2. FrameOffset(s.confirmed, 0) =
          IF s.confirmed + 0 < Modulus THEN s.confirmed + 0 ELSE s.confirmed + 0 - Modulus
    BY <2>1, OffsetValue
  <2>3. QED
    BY <2>1, <2>2, ModulusAssumption DEF FrameNumbers
<1>2. 0 \in Blocked /\ Blocked \subseteq Nat
  BY <1>1, CapacityAssumption DEF Confirmable
<1>3. UpdateConfirmation(s).confirmed = FrameOffset(s.confirmed, stop)
  BY DEF UpdateConfirmation
<1> HIDE DEF Blocked
<1>4. stop = 0
  <2>1. \A k \in Blocked : 0 <= k
    BY <1>2
  <2>2. stop \in Blocked /\ \A k \in Blocked : stop <= k
    BY <1>2, <2>1 DEF Min
  <2> HIDE DEF stop
  <2>3. stop <= 0 /\ stop \in Nat
    BY <1>2, <2>2
  <2>4. QED
    BY <2>3
<1>5. QED
  BY <1>1, <1>3, <1>4

(* The lost frame: further back than the window and never received. *)
Lost(s) ==
  /\ Elapsed(s) - Position(s.confirmed) > MaxRollback
  /\ ~ Contains(s.remote, s.confirmed)

(* A correction does not bring it back. *)
LEMMA FlushLeavesLost ==
  ASSUME NEW s \in Sessions, Lost(s)
  PROVE  FlushCorrections(s).session.confirmed = s.confirmed
<1>1. s.confirmed \in FrameNumbers /\ "confirmed" \in DOMAIN s
  BY DEF Sessions
<1>2. UpdateConfirmation(s).confirmed = s.confirmed
  BY <1>1, MissingInputStops DEF Lost
<1>3. ASSUME NEW k, NEW error
      PROVE  /\ Resimulated(s, k, error).confirmed = s.confirmed
             /\ Resimulated(s, k, error).remote = s.remote
             /\ DOMAIN Resimulated(s, k, error) = DOMAIN s
  BY DEF Resimulated, Sessions
<1>4. ASSUME NEW k, NEW error, NEW depth
      PROVE  Corrected(Resimulated(s, k, error), depth).confirmed = s.confirmed
  <2> DEFINE r == Resimulated(s, k, error)
             t == [r EXCEPT !.dirty = NoFrame, !.metrics = CountRollback(@, depth)]
  <2>1. r.confirmed = s.confirmed /\ r.remote = s.remote /\ DOMAIN r = DOMAIN s
    BY <1>3
  <2>2. Corrected(r, depth) = UpdateConfirmation(t)
    BY DEF Corrected
  <2> HIDE DEF r
  <2>3. t.confirmed = s.confirmed /\ t.remote = s.remote /\ "confirmed" \in DOMAIN t
    BY <1>1, <2>1 DEF Sessions
  <2> HIDE DEF t
  <2>4. UpdateConfirmation(t).confirmed = t.confirmed
    BY <1>1, <2>3, MissingInputStops DEF Lost
  <2>5. QED
    BY <2>2, <2>3, <2>4 DEF r
<1>5. QED
  BY <1>2, <1>3, <1>4 DEF FlushCorrections, Result

(* Nor does the next frame. *)
LEMMA AdvanceLeavesLost ==
  ASSUME NEW s, Sound(s), Lost(s), SimulationIsTotal,
         NEW player, NEW frame, NEW local
  PROVE  Advance(s, player, frame, local).session.confirmed = s.confirmed
<1>1. s \in Sessions
  BY DEF Sound
<1> DEFINE flushed == IF s.dirty = NoFrame THEN Result(s, "ok") ELSE FlushCorrections(s)
           f == flushed.session
<1>2. /\ f.confirmed = s.confirmed /\ f.remote = s.remote /\ f \in Sessions
  <2>1. CASE s.dirty = NoFrame
    BY <1>1, <2>1 DEF Result
  <2>2. CASE s.dirty # NoFrame
    BY <1>1, <2>2, FlushSound, FlushLeavesLost DEF Sound
  <2>3. QED
    BY <2>1, <2>2
<1>3. Advance(s, player, frame, local).session
        \in {f, SimulateNext(f, local).session}
  BY DEF Advance, Result
<1> HIDE DEF f
<1>4. SimulateNext(f, local).session.confirmed = f.confirmed
  <2> DEFINE remote == RemoteFor(f, f.world.frame)
             next == SimulateFrame(f.world, MakePair(f, local, remote))
             stored == [f EXCEPT
                         !.snapshots = Put(@, f.world.frame, f.world),
                         !.local = Put(@, f.world.frame, local),
                         !.used = Put(@, f.world.frame, remote),
                         !.metrics.predicted =
                            IF Contains(f.remote, f.world.frame) THEN @ ELSE @ + 1]
             t == [stored EXCEPT !.world = next,
                                 !.hashes = Put(@, next.frame, next)]
  <2>1. SimulateNext(f, local).session = UpdateConfirmation(t)
    BY DEF SimulateNext, Result, SimulationIsTotal
  <2>2. /\ t.confirmed = f.confirmed /\ t.remote = f.remote
        /\ "confirmed" \in DOMAIN t
    BY <1>2 DEF Sessions
  <2> HIDE DEF t
  <2>3. UpdateConfirmation(t).confirmed = t.confirmed
    BY <1>1, <1>2, <2>2, MissingInputStops DEF Lost, Sessions
  <2>4. QED
    BY <2>1, <2>2, <2>3
<1>5. QED
  BY <1>2, <1>3, <1>4

(* Nor does any remote input that is still accepted. *)
LEMMA IngestLeavesLost ==
  ASSUME NEW s, Sound(s), Lost(s), NEW player, NEW frame \in FrameNumbers,
         NEW remote \in Buttons, 2 * Position(frame) < Modulus
  PROVE  IngestRemote(s, player, frame, remote).session.confirmed = s.confirmed
<1> DEFINE u == Accepted(s, frame, remote)
           tooLate == /\ FrameBefore(frame, s.world.frame)
                      /\ FrameDistance(frame, s.world.frame) > MaxRollback
<1>1. IngestRemote(s, player, frame, remote).session
        = IF player # RemotePeer(s) \/ tooLate THEN s ELSE UpdateConfirmation(u)
  BY DEF IngestRemote, Result
<1>2. /\ s \in Sessions /\ s.world.frame \in FrameNumbers
      /\ s.confirmed \in FrameNumbers
      /\ Elapsed(s) = Position(s.world.frame) /\ Elapsed(s) \in Nat
      /\ 2 * Position(s.world.frame) < Modulus
      /\ Position(s.confirmed) \in Nat /\ Position(frame) \in Nat
      /\ MaxRollback \in Nat
  BY PositionFacts, SessionAssumption
     DEF Sound, Sessions, Worlds, Elapsed, WorldFits
<1>3. ASSUME ~ tooLate PROVE UpdateConfirmation(u).confirmed = s.confirmed
  <2>1. Elapsed(s) <= Position(frame) + MaxRollback
    <3>1. CASE Position(frame) < Elapsed(s)
      <4>1. FrameBefore(frame, s.world.frame)
        BY <1>2, <3>1, PositionOrder
      <4>2. FrameDistance(frame, s.world.frame) = Elapsed(s) - Position(frame)
        BY <1>2, <3>1, PositionFacts
      <4>3. QED
        BY <1>2, <1>3, <4>1, <4>2
    <3>2. QED
      BY <1>2, <3>1
  <2>2. Position(s.confirmed) < Position(frame) /\ frame # s.confirmed
    BY <1>2, <2>1 DEF Lost
  <2>3. /\ u \in Sessions /\ u.remote = Put(s.remote, frame, remote)
        /\ u.confirmed = s.confirmed
    BY <1>2, <2>2, AcceptedFacts
  <2> HIDE DEF u
  <2>4. ~ Contains(u.remote, u.confirmed)
    BY <1>2, <2>2, <2>3, PutFacts DEF Lost, Sessions
  <2>5. QED
    BY <1>2, <2>3, <2>4, MissingInputStops DEF Sessions
<1>4. QED
  BY <1>1, <1>3

(* ingest_remote refuses what is further back than the window, so a frame  *)
(* whose remote input is still missing then is never confirmed, whatever   *)
(* the session is called with afterwards.                                  *)
THEOREM LostFramesStayLost ==
  ASSUME SimulationIsTotal
  PROVE  Spec => LostFrameStaysLost
<1>1. ASSUME Called(session), Next,
             Now - Position(session.confirmed) > MaxRollback,
             ~ Contains(session.remote, session.confirmed)
      PROVE  session'.confirmed = session.confirmed
  <2>1. Sound(session) /\ session \in Sessions /\ Lost(session)
    BY <1>1 DEF Called, Sound, Lost, Now, Elapsed
  <2>2. CASE CallAdvance
    BY <2>1, <2>2, AdvanceLeavesLost DEF CallAdvance
  <2>3. CASE CallIngestRemote
    <3>1. PICK player \in Players, position \in 0 .. Now + MaxLead, remote \in Buttons :
            session' = IngestRemote(session, player,
                                    FrameOffset(StartFrame, position), remote).session
      BY <2>3 DEF CallIngestRemote
    <3>2. Now = Elapsed(session) /\ Now \in Nat
      BY <1>1, CalledFacts DEF Now, Elapsed
    <3>3. Position(StartFrame) = 0 /\ StartFrame \in FrameNumbers
      BY SessionAssumption, ModulusAssumption DEF Position, FrameDistance, FrameNumbers
    <3>4. /\ position \in Nat /\ Position(StartFrame) + position < Modulus
          /\ 2 * position < Modulus
      BY <1>1, <3>2, <3>3, CalledFacts, ModulusAssumption
    <3>5. /\ FrameOffset(StartFrame, position) \in FrameNumbers
          /\ Position(FrameOffset(StartFrame, position)) = position
      BY <3>3, <3>4, PositionOffset
    <3>6. QED
      BY <2>1, <3>1, <3>4, <3>5, IngestLeavesLost
  <2>4. CASE CallFlushCorrections
    BY <2>1, <2>4, FlushLeavesLost DEF CallFlushCorrections
  <2>5. QED
    BY <1>1, <2>2, <2>3, <2>4 DEF Next
<1>2. QED
  BY <1>1, Soundness, PTL DEF Spec, LostFrameStaysLost
====
