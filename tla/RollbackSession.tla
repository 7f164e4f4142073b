---- MODULE RollbackSession ----
(***************************************************************************)
(* The class RollbackSession (src/netcode/session.cpp) as operators on a   *)
(* session, a record with the fields of the class.  Every public method is *)
(* an operator that returns the session it leaves behind and the error it  *)
(* reports ("ok" for success).                                             *)
(*                                                                         *)
(* Data abstractions:                                                      *)
(*  - a world is the history of the input pairs that produced it (one pair *)
(*    for every frame simulated since StartFrame), so two worlds are equal *)
(*    exactly when the same inputs led to them;                            *)
(*  - the canonical hash of a world is that world: no collisions;          *)
(*  - an input is its buttons: its frame is the key it is stored under.    *)
(***************************************************************************)
EXTENDS FrameRing, FiniteSetsExt

CONSTANTS
  MaxRollback,          \* config_.max_rollback_frames, 120 by default
  StartFrame,           \* config_.initial_state.frame
  Buttons,              \* the button masks inputs carry
  NeutralButtons,       \* the mask 0
  SimulateFails(_, _)   \* does simulate_frame(world, pair) report an error?

ASSUME SessionAssumption ==
  /\ MaxRollback \in Nat
  /\ StartFrame \in FrameNumbers
  /\ NeutralButtons \in Buttons
  /\ Buttons \subseteq Nat

Players == {"a", "b"}

OtherPlayer(player) == IF player = "a" THEN "b" ELSE "a"

(* Frames counted from StartFrame. *)
Position(frame) == FrameDistance(StartFrame, frame)

-----------------------------------------------------------------------------
(* Worlds *)

NoInput == -1

NoPair == [player \in Players |-> NoInput]

Pairs == [Players -> Buttons]

Worlds == [frame : FrameNumbers, inputs : [FrameNumbers -> Pairs \union {NoPair}]]

InitialWorld ==
  [frame |-> StartFrame, inputs |-> [frame \in FrameNumbers |-> NoPair]]

(* simulate_frame: one canonical frame. *)
SimulateFrame(world, pair) ==
  [frame  |-> NextFrame(world.frame),
   inputs |-> [world.inputs EXCEPT ![world.frame] = pair]]

-----------------------------------------------------------------------------
(* The session *)

Errors == {"ok", "frame_mismatch", "invalid_argument", "stale_frame",
           "rollback_window_exceeded", "arithmetic_overflow"}

Metrics == [rollbacks : Nat, resimulated : Nat, deepest : Nat,
            predicted : Nat, late : Nat]

Sessions ==
  [peer      : Players,
   world     : Worlds,
   local     : RingOf(Buttons),
   remote    : RingOf(Buttons),
   used      : RingOf(Buttons),
   snapshots : RingOf(Worlds),
   hashes    : RingOf(Worlds),
   dirty     : FrameNumbers \union {NoFrame},
   confirmed : FrameNumbers,
   metrics   : Metrics]

NewSession(peer) ==
  [peer      |-> peer,
   world     |-> InitialWorld,
   local     |-> EmptyRing,
   remote    |-> EmptyRing,
   used      |-> EmptyRing,
   snapshots |-> EmptyRing,
   hashes    |-> Put(EmptyRing, StartFrame, InitialWorld),
   dirty     |-> NoFrame,
   confirmed |-> StartFrame,
   metrics   |-> [rollbacks |-> 0, resimulated |-> 0, deepest |-> 0,
                  predicted |-> 0, late |-> 0]]

Result(s, error) == [session |-> s, error |-> error]

RemotePeer(s) == OtherPlayer(s.peer)

MakePair(s, local, remote) ==
  [player \in Players |-> IF player = s.peer THEN local ELSE remote]

(* The last known remote input, at most Capacity frames back. *)
PredictedRemote(s, frame) ==
  LET known == {k \in 1 .. Capacity : Contains(s.remote, FrameOffset(frame, -k))}
  IN  IF known = {}
      THEN NeutralButtons
      ELSE Get(s.remote, FrameOffset(frame, -Min(known)))

(* What a frame is simulated with: the actual remote input if it is known. *)
RemoteFor(s, frame) ==
  IF Contains(s.remote, frame) THEN Get(s.remote, frame)
                               ELSE PredictedRemote(s, frame)

(* Mutant: the latest misprediction hides earlier ones. *)
MarkDirtyLatest(s, frame) ==
  [s EXCEPT !.dirty = frame,
            !.confirmed = IF FrameBefore(frame, @) THEN frame ELSE @]

MarkDirty(s, frame) ==
  [s EXCEPT
    !.dirty     = IF @ = NoFrame \/ FrameBefore(frame, @) THEN frame ELSE @,
    !.confirmed = IF FrameBefore(frame, @) THEN frame ELSE @]

(* Mutant: confirmation ignores a pending correction. *)
ConfirmableWhileDirty(s, frame) ==
  Contains(s.local, frame) /\ Contains(s.remote, frame)

(* Mutant: a remote input alone confirms its frame. *)
ConfirmableWithoutLocal(s, frame) ==
  Contains(s.remote, frame) /\ s.dirty = NoFrame

(* May the confirmed boundary move past this frame? *)
Confirmable(s, frame) ==
  /\ Contains(s.local, frame)
  /\ Contains(s.remote, frame)
  /\ \/ s.dirty = NoFrame
     \/ frame # s.dirty /\ ~ FrameBefore(s.dirty, frame)

UpdateConfirmation(s) ==
  LET stop == Min({k \in 0 .. Capacity :
                     ~ Confirmable(s, FrameOffset(s.confirmed, k))})
  IN  [s EXCEPT !.confirmed = FrameOffset(@, stop)]

-----------------------------------------------------------------------------
(* flush_corrections *)

(* Mutant: the frame about to be simulated is corrected too. *)
DepthInclusive(s) == FrameDistance(s.dirty, s.world.frame) + 1

Depth(s) == FrameDistance(s.dirty, s.world.frame)

(* Mutant: the correction predicts again what it could look up. *)
ResimulatedPairPredicted(s, frame) ==
  MakePair(s, Get(s.local, frame), PredictedRemote(s, frame))

(* The inputs a dirty frame is resimulated with. *)
ResimulatedPair(s, frame) ==
  MakePair(s, Get(s.local, frame), RemoteFor(s, frame))

(* The world after resimulating k frames from the snapshot of the dirty one. *)
ResimulatedWorld(s, k) ==
  [frame  |-> FrameOffset(s.dirty, k),
   inputs |-> [f \in FrameNumbers |->
                IF FrameDistance(s.dirty, f) < k
                THEN ResimulatedPair(s, f)
                ELSE Get(s.snapshots, s.dirty).inputs[f]]]

ResimulationFailure(s, k) ==
  LET frame == FrameOffset(s.dirty, k)
  IN  IF ~ Contains(s.local, frame) THEN "stale_frame"
      ELSE IF SimulateFails(ResimulatedWorld(s, k), ResimulatedPair(s, frame))
      THEN "arithmetic_overflow"
      ELSE "ok"

(* Mutant: the hashes of the corrected boundaries are left as they were. *)
ResimulatedWithoutHashes(s, k, error) ==
  LET frames == {FrameOffset(s.dirty, i) : i \in 0 .. k - 1}
  IN  [s EXCEPT
        !.world     = ResimulatedWorld(s, k),
        !.snapshots = PutAll(@, [f \in frames |->
                        ResimulatedWorld(s, FrameDistance(s.dirty, f))]),
        !.used      = PutAll(@, [f \in frames |-> RemoteFor(s, f)])]

(* What the loop has written when it stops after k completed frames: a     *)
(* frame whose simulation fails has its snapshot and its input replaced.   *)
Resimulated(s, k, error) ==
  LET begun    == IF error = "arithmetic_overflow" THEN k + 1 ELSE k
      frames   == {FrameOffset(s.dirty, i) : i \in 0 .. begun - 1}
      reached  == {FrameOffset(s.dirty, i) : i \in 1 .. k}
      WorldAt(f) == ResimulatedWorld(s, FrameDistance(s.dirty, f))
  IN  [s EXCEPT
        !.world     = ResimulatedWorld(s, k),
        !.snapshots = PutAll(@, [f \in frames |-> WorldAt(f)]),
        !.used      = PutAll(@, [f \in frames |-> RemoteFor(s, f)]),
        !.hashes    = PutAll(@, [f \in reached |-> WorldAt(f)])]

CountRollback(metrics, depth) ==
  [metrics EXCEPT !.rollbacks = @ + 1,
                  !.resimulated = @ + depth,
                  !.deepest = IF depth > @ THEN depth ELSE @]

(* The end of a completed correction of the given depth. *)
Corrected(s, depth) ==
  UpdateConfirmation(
    [s EXCEPT !.dirty = NoFrame, !.metrics = CountRollback(@, depth)])

FlushCorrections(s) ==
  LET depth    == Depth(s)
      failures == {k \in 0 .. depth - 1 : ResimulationFailure(s, k) # "ok"}
  IN  IF s.dirty = NoFrame THEN Result(UpdateConfirmation(s), "ok")
      ELSE IF depth > MaxRollback THEN Result(s, "rollback_window_exceeded")
      ELSE IF ~ Contains(s.snapshots, s.dirty) THEN Result(s, "stale_frame")
      ELSE IF failures = {}
      THEN Result(Corrected(Resimulated(s, depth, "ok"), depth), "ok")
      ELSE LET error == ResimulationFailure(s, Min(failures))
           IN  Result(Resimulated(s, Min(failures), error), error)

-----------------------------------------------------------------------------
(* advance *)

(* One new frame, on a session with no pending correction. *)
SimulateNext(s, local) ==
  LET frame  == s.world.frame
      remote == RemoteFor(s, frame)
      pair   == MakePair(s, local, remote)
      stored == [s EXCEPT
                  !.snapshots = Put(@, frame, s.world),
                  !.local = Put(@, frame, local),
                  !.used = Put(@, frame, remote),
                  !.metrics.predicted =
                     IF Contains(s.remote, frame) THEN @ ELSE @ + 1]
      next   == SimulateFrame(s.world, pair)
  IN  IF SimulateFails(s.world, pair)
      THEN Result(stored, "arithmetic_overflow")
      ELSE Result(UpdateConfirmation(
                    [stored EXCEPT !.world = next,
                                   !.hashes = Put(@, next.frame, next)]), "ok")

(* The correction comes first and stays even if the input is then refused. *)
Advance(s, player, frame, local) ==
  LET flushed == IF s.dirty = NoFrame THEN Result(s, "ok") ELSE FlushCorrections(s)
  IN  IF flushed.error # "ok" THEN flushed
      ELSE IF frame # flushed.session.world.frame \/ player # s.peer
      THEN Result(flushed.session, "frame_mismatch")
      ELSE SimulateNext(flushed.session, local)

-----------------------------------------------------------------------------
(* ingest_remote *)

(* What an accepted remote input changes before the confirmation moves. *)
Accepted(s, frame, remote) ==
  LET late   == FrameBefore(frame, s.world.frame)
      stored == [s EXCEPT
                  !.remote = Put(@, frame, remote),
                  !.metrics.late =
                     IF late /\ ~ Contains(s.remote, frame) THEN @ + 1 ELSE @]
  IN  IF late /\ Contains(s.used, frame) /\ Get(s.used, frame) # remote
      THEN MarkDirty(stored, frame) ELSE stored

(* Mutant: the rollback window is not enforced. *)
IngestRemoteAnyAge(s, player, frame, remote) ==
  IF player # RemotePeer(s) THEN Result(s, "invalid_argument")
  ELSE Result(UpdateConfirmation(Accepted(s, frame, remote)), "ok")

(* Mutant: the rollback window is one frame short. *)
IngestRemoteShortWindow(s, player, frame, remote) ==
  IF player # RemotePeer(s) THEN Result(s, "invalid_argument")
  ELSE IF /\ FrameBefore(frame, s.world.frame)
          /\ FrameDistance(frame, s.world.frame) >= MaxRollback
  THEN Result(s, "rollback_window_exceeded")
  ELSE Result(UpdateConfirmation(Accepted(s, frame, remote)), "ok")

IngestRemote(s, player, frame, remote) ==
  IF player # RemotePeer(s) THEN Result(s, "invalid_argument")
  ELSE IF /\ FrameBefore(frame, s.world.frame)
          /\ FrameDistance(frame, s.world.frame) > MaxRollback
  THEN Result(s, "rollback_window_exceeded")
  ELSE Result(UpdateConfirmation(Accepted(s, frame, remote)), "ok")

-----------------------------------------------------------------------------
(* The queries *)

ConfirmedInput(s, player, frame) ==
  LET ring == IF player = s.peer THEN s.local ELSE s.remote
  IN  IF FrameBefore(frame, s.confirmed) /\ Contains(ring, frame)
      THEN [error |-> "ok", value |-> Get(ring, frame)]
      ELSE [error |-> "stale_frame"]

(* Mutant: hashes of speculative boundaries are handed out. *)
HashAtAnyBoundary(s, boundary) ==
  IF Contains(s.hashes, boundary)
  THEN [error |-> "ok", value |-> Get(s.hashes, boundary)]
  ELSE [error |-> "stale_frame"]

HashAt(s, boundary) ==
  IF ~ FrameBefore(s.confirmed, boundary) /\ Contains(s.hashes, boundary)
  THEN [error |-> "ok", value |-> Get(s.hashes, boundary)]
  ELSE [error |-> "stale_frame"]

StateAt(s, boundary) ==
  IF FrameBefore(s.confirmed, boundary) THEN [error |-> "stale_frame"]
  ELSE IF boundary = s.world.frame THEN [error |-> "ok", value |-> s.world]
  ELSE IF Contains(s.snapshots, boundary)
  THEN [error |-> "ok", value |-> Get(s.snapshots, boundary)]
  ELSE [error |-> "stale_frame"]
====
