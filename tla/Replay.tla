---- MODULE Replay ----
(***************************************************************************)
(* Replays (src/replay/replay.cpp): a game's inputs, the hashes it reached *)
(* at some frames and at its end, as a value, as a file, and played again. *)
(*                                                                         *)
(* A file is its body and a checksum.  The checksum is the body it was     *)
(* computed from; the body's records are kept apart, so that a body of the *)
(* wrong length has another number of records than its header says.        *)
(***************************************************************************)
EXTENDS Arena

CONSTANTS
  MaxReplayFrames,        \* kMaxReplayFrames
  MaxReplayCheckpoints    \* kMaxReplayCheckpoints

ASSUME ReplayAssumption == {MaxReplayFrames, MaxReplayCheckpoints} \subseteq Nat \ {0}

AllButtons == {"up", "down", "left", "right", "attack"}

Variants == {"canonical", "damage_bias"}

NewReplay ==
  [version |-> "current", variant |-> "canonical", final |-> 0,
   inputs |-> <<>>, checkpoints |-> <<>>, hash |-> InitialWorld]

(* A file of what a replay says; encode_replay refuses a value that is not *)
(* a replay, but leaves the frames and the buttons to the reader.          *)
Encodable(replay) ==
  /\ replay.version = "current" /\ replay.variant \in Variants
  /\ Len(replay.inputs) <= MaxReplayFrames
  /\ Len(replay.checkpoints) <= MaxReplayCheckpoints
  /\ Len(replay.inputs) = replay.final

Encode(replay) ==
  [magic |-> TRUE, version |-> replay.version, variant |-> replay.variant, reserved |-> FALSE,
   final |-> replay.final,
   inputCount |-> Len(replay.inputs), checkpointCount |-> Len(replay.checkpoints),
   hash |-> replay.hash, inputs |-> replay.inputs, checkpoints |-> replay.checkpoints]

Sealed(body) == [body |-> body, crc |-> body]

(* decode_replay *)
Decodable(file) ==
  LET body == file.body
  IN /\ file.crc = body
     /\ body.magic /\ body.version = "current"
     /\ body.variant \in Variants /\ ~ body.reserved
     /\ body.inputCount <= MaxReplayFrames /\ body.checkpointCount <= MaxReplayCheckpoints
     /\ body.inputCount = body.final
     /\ body.inputCount = Len(body.inputs) /\ body.checkpointCount = Len(body.checkpoints)
     /\ \A i \in 1 .. Len(body.inputs) :
          /\ body.inputs[i].frame = i - 1
          /\ \A p \in Players : body.inputs[i].buttons[p] \subseteq AllButtons
     /\ \A i \in 1 .. Len(body.checkpoints) :
          /\ body.checkpoints[i].frame <= body.final
          /\ i > 1 => body.checkpoints[i - 1].frame < body.checkpoints[i].frame

Decode(file) ==
  [version |-> file.body.version, variant |-> file.body.variant, final |-> file.body.final,
   inputs |-> file.body.inputs, checkpoints |-> file.body.checkpoints, hash |-> file.body.hash]

-----------------------------------------------------------------------------
(* verify_replay *)

(* The game is played again, and a cursor walks over the checkpoints. *)
Replayed(v, i, replay) ==
  LET inputs == replay.inputs[i]
      world == SimulateFrame(v.world, inputs, replay.variant)
      due == /\ v.cursor <= Len(replay.checkpoints)
             /\ replay.checkpoints[v.cursor].frame = world.frame
      meets == due => replay.checkpoints[v.cursor].hash = world
  IN IF v.failed THEN v
     ELSE [world |-> world, cursor |-> IF due THEN v.cursor + 1 ELSE v.cursor,
           failed |-> inputs.frame # i - 1 \/ ~ world.ok \/ ~ meets]

PlayAgain(replay) ==
  LET Once(v, i) == Replayed(v, i, replay)
  IN FoldLeft(Once, [world |-> InitialWorld, cursor |-> 1, failed |-> FALSE],
              [i \in 1 .. replay.final |-> i])

(* Mutant: checkpoints that were never met are forgotten. *)
VerifiedAsFar(replay) ==
  /\ replay.version = "current" /\ Len(replay.inputs) = replay.final
  /\ LET end == PlayAgain(replay)
     IN ~ end.failed /\ end.world = replay.hash

Verified(replay) ==
  /\ replay.version = "current" /\ Len(replay.inputs) = replay.final
  /\ LET end == PlayAgain(replay)
     IN /\ ~ end.failed
        /\ end.cursor = Len(replay.checkpoints) + 1
        /\ end.world = replay.hash
====
