---- MODULE SessionCalls ----
(***************************************************************************)
(* One RollbackSession under every sequence of calls its callers make: a   *)
(* driver advances it once per local frame, hands it remote inputs in any  *)
(* order (late, early, twice, too late, from the wrong player) and flushes *)
(* corrections whenever it likes.                                          *)
(***************************************************************************)
EXTENDS RollbackSession

CONSTANTS
  LocalPeer,         \* config_.local_peer
  LocalButtons,      \* bound: the masks the local player uses
  RemoteMayChange,   \* may the remote send two values for one frame?
  MaxLead,           \* bound: how far ahead of the session remote inputs are
  FrameLimit,        \* bound: frames simulated
  RollbackLimit      \* bound: corrections, when RemoteMayChange

ASSUME CallsAssumption ==
  /\ LocalPeer \in Players
  /\ LocalButtons \subseteq Buttons
  /\ RemoteMayChange \in BOOLEAN
  /\ MaxLead \in Nat
  /\ FrameLimit \in Nat
  /\ RollbackLimit \in Nat
  /\ MaxRollback + MaxLead < Capacity
  /\ 2 * (FrameLimit + MaxLead + 1) < Modulus

VARIABLE session

Now == Position(session.world.frame)

Init == session = NewSession(LocalPeer)

(* A driver's frame is the session's; a wrong frame or player is refused. *)
CallAdvance ==
  /\ Now < FrameLimit
  /\ session.dirty = NoFrame \/ session.metrics.rollbacks < RollbackLimit
  /\ \E player \in Players,
        frame \in {session.world.frame, NextFrame(session.world.frame)},
        local \in LocalButtons :
       session' = Advance(session, player, frame, local).session

CallIngestRemote ==
  \E player \in Players, position \in 0 .. Now + MaxLead, remote \in Buttons :
    LET frame == FrameOffset(StartFrame, position) IN
    /\ \/ RemoteMayChange
       \/ Contains(session.remote, frame) => Get(session.remote, frame) = remote
    /\ session' = IngestRemote(session, player, frame, remote).session

CallFlushCorrections ==
  /\ session.dirty = NoFrame \/ session.metrics.rollbacks < RollbackLimit
  /\ session' = FlushCorrections(session).session

Next == CallAdvance \/ CallIngestRemote \/ CallFlushCorrections

Spec == Init /\ [][Next]_session

-----------------------------------------------------------------------------
(* Properties *)

(* The session is a record of its type: frame numbers in range, rings of   *)
(* the declared values, pending correction a frame or none.                *)
TypeOK == session \in Sessions

(* The frames whose history the rings still hold. *)
Remembered ==
  {f \in FrameNumbers : Position(f) < Now /\ Now - Position(f) <= Capacity}

(* The remembered frames that no early remote input has displaced. *)
Reliable ==
  {f \in FrameNumbers :
     Position(f) < Now /\ Now - Position(f) < Capacity - MaxLead}

(* The boundary's world on the session's present timeline. *)
WorldUpTo(boundary) ==
  [frame  |-> boundary,
   inputs |-> [f \in FrameNumbers |->
                IF Position(f) < Position(boundary)
                THEN session.world.inputs[f] ELSE NoPair]]

(* Every snapshot and hash the session holds belongs to one timeline, the  *)
(* one of its present state, and that timeline was simulated from exactly  *)
(* the inputs in the local and used rings.  A rollback that left one       *)
(* snapshot, hash or used input of the abandoned timeline would break it.  *)
OneTimeline ==
  /\ \A f \in Remembered :
       /\ Contains(session.snapshots, f)
       /\ Get(session.snapshots, f) = WorldUpTo(f)
       /\ Contains(session.local, f)
       /\ Contains(session.used, f)
       /\ session.world.inputs[f] =
            MakePair(session, Get(session.local, f), Get(session.used, f))
  /\ \A b \in FrameNumbers :
       Contains(session.hashes, b) =>
         /\ Position(b) <= Now
         /\ Get(session.hashes, b) = WorldUpTo(b)

(* Inputs of the frame as both players really gave them. *)
ActualPair(f) == MakePair(session, Get(session.local, f), Get(session.remote, f))

(* A confirmed boundary N: the session has reached it, both actual inputs  *)
(* of every frame before N are present, and the present state was          *)
(* simulated from them (update_confirmation, mark_dirty).                  *)
ConfirmedIsActual ==
  /\ Position(session.confirmed) <= Now
  /\ \A f \in Reliable :
       Position(f) < Position(session.confirmed) =>
         /\ Contains(session.remote, f)
         /\ session.world.inputs[f] = ActualPair(f)

(* A known remote input that differs from the one used is never forgotten: *)
(* the pending correction starts at or before it (ingest_remote).          *)
MispredictionIsPending ==
  \A f \in Reliable :
    Contains(session.remote, f) /\ Get(session.used, f) # Get(session.remote, f) =>
      session.dirty # NoFrame /\ Position(session.dirty) <= Position(f)

(* A correction that is pending can always be carried out: its snapshot    *)
(* and its inputs are still in the rings and its depth is allowed.         *)
CorrectionIsPossible == FlushCorrections(session).error = "ok"

(* What the desync exchange hands out, hash_at and state_at, is the state  *)
(* the actual inputs lead to and never speculation.                        *)
HashesAreConfirmed ==
  \A b \in FrameNumbers :
    HashAt(session, b).error = "ok" =>
      /\ \A f \in Reliable :
           Position(f) < Position(b) =>
             /\ Contains(session.remote, f)
             /\ HashAt(session, b).value.inputs[f] = ActualPair(f)
      /\ StateAt(session, b).error = "ok" =>
           StateAt(session, b).value = HashAt(session, b).value

(* Before the pending correction, every frame was simulated with what the  *)
(* remote history now says: the actual input or the prediction recomputed  *)
(* from it.  Stated for sessions that no early input can displace.         *)
PredictionsAreFresh ==
  FrameLimit + MaxLead < Capacity =>
    \A f \in Remembered :
      session.dirty = NoFrame \/ Position(f) < Position(session.dirty) =>
        Get(session.used, f) = RemoteFor(session, f)

(* While the remote keeps to what it sent, a confirmed boundary never      *)
(* moves back and no rollback rewrites a frame before it.                  *)
ConfirmedIsFinal ==
  [][~ RemoteMayChange =>
       /\ Position(session.confirmed) <= Position(session'.confirmed)
       /\ \A f \in FrameNumbers :
            Position(f) < Position(session.confirmed) =>
              session'.world.inputs[f] = session.world.inputs[f]]_session

(* A frame whose remote input is still missing when it leaves the rollback *)
(* window can never be confirmed: the input is refused from then on.       *)
LostFrameStaysLost ==
  [][/\ Now - Position(session.confirmed) > MaxRollback
     /\ ~ Contains(session.remote, session.confirmed)
     => session'.confirmed = session.confirmed]_session
====
