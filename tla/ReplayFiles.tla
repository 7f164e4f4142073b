---- MODULE ReplayFiles ----
(***************************************************************************)
(* A game is played and recorded as the scenario runner does it, saved as  *)
(* a file, and the file is read and verified, as the command line and the  *)
(* demo do it.  In between the file may be damaged, or written by another  *)
(* program whose checksum is right but whose contents differ.              *)
(***************************************************************************)
EXTENDS Replay

CONSTANTS
  Inputs,         \* the buttons that players press: a set of functions
  MaxFrames,      \* bound: the longest game
  Interval,       \* frames between checkpoints (30 in the code)
  DamagedFrames   \* bound: the longest game whose file is damaged

ASSUME FilesAssumption ==
  /\ Inputs \subseteq [Players -> SUBSET AllButtons]
  /\ {MaxFrames, Interval} \subseteq Nat \ {0}
  /\ DamagedFrames \in Nat

VARIABLES stage, target, world, replay, file, damaged, accepted

vars == <<stage, target, world, replay, file, damaged, accepted>>

Init ==
  /\ stage = "playing" /\ target \in 1 .. MaxFrames
  /\ world = InitialWorld /\ replay = [NewReplay EXCEPT !.final = target]
  /\ file = Sealed(Encode(NewReplay)) /\ damaged = FALSE /\ accepted = FALSE

(* accumulate_checkpoint *)
Checkpointed(r, w) ==
  IF w.frame = target \/ w.frame % Interval = 0
  THEN [r EXCEPT !.checkpoints = Append(@, [frame |-> w.frame, hash |-> w])] ELSE r

(* A frame of the game; a frame that fails ends the run without a replay. *)
PlayFrame(buttons) ==
  LET inputs == [frame |-> world.frame, buttons |-> buttons]
      played == SimulateFrame(world, inputs, "canonical")
      recorded == [replay EXCEPT !.inputs = Append(@, inputs)]
  IN /\ stage = "playing" /\ world.frame < target
     /\ IF played.ok
        THEN /\ world' = played /\ replay' = Checkpointed(recorded, played)
             /\ UNCHANGED stage
        ELSE stage' = "failed" /\ replay' = recorded /\ UNCHANGED world
     /\ UNCHANGED <<target, file, damaged, accepted>>

(* The replay is completed with the final hash and written. *)
Save ==
  LET finished == [replay EXCEPT !.hash = world]
  IN /\ stage = "playing" /\ world.frame = target
     /\ Encodable(finished)
     /\ stage' = "saved" /\ replay' = finished /\ file' = Sealed(Encode(finished))
     /\ UNCHANGED <<target, world, damaged, accepted>>

(* The bodies that differ from this one in one thing. *)
Differing(b) ==
  LET buttons == [Players -> {{}, {"attack"}, {"illegal"}}]
  IN {[b EXCEPT !.magic = FALSE], [b EXCEPT !.version = "other"], [b EXCEPT !.reserved = TRUE],
      [b EXCEPT !.variant = "damage_bias"], [b EXCEPT !.variant = "unknown"],
      [b EXCEPT !.final = @ + 1], [b EXCEPT !.final = @ + 1, !.inputCount = @ + 1],
      [b EXCEPT !.inputs = Front(@)],
      [b EXCEPT !.inputs = Front(@), !.inputCount = @ - 1, !.final = @ - 1],
      [b EXCEPT !.hash = InitialWorld],
      [b EXCEPT !.checkpoints = Tail(@)],
      [b EXCEPT !.checkpoints = Tail(@), !.checkpointCount = @ - 1],
      [b EXCEPT !.checkpoints = <<[frame |-> 0, hash |-> InitialWorld]>> \o @,
                !.checkpointCount = @ + 1],
      [b EXCEPT !.checkpoints = Reverse(@)]}
     \union {[b EXCEPT !.checkpoints[i].frame = f] :
                i \in 1 .. Len(b.checkpoints), f \in 0 .. b.final + 1}
     \union {[b EXCEPT !.checkpoints[i].hash = InitialWorld] : i \in 1 .. Len(b.checkpoints)}
     \union {[b EXCEPT !.inputs[i].buttons = f] : i \in 1 .. Len(b.inputs), f \in buttons}
     \union {[b EXCEPT !.inputs[i].frame = @ + 1] : i \in 1 .. Len(b.inputs)}

(* The file becomes another one, with a checksum that fits or not. *)
FileDiffers ==
  /\ stage = "saved" /\ ~ damaged /\ target <= DamagedFrames
  /\ damaged' = TRUE
  /\ \E body \in Differing(file.body) \ {file.body} :
       file' = Sealed(body) \/ file' = [file EXCEPT !.body = body]
  /\ UNCHANGED <<stage, target, world, replay, accepted>>

(* The file is read and verified. *)
ReadFile ==
  /\ stage = "saved"
  /\ stage' = "read" /\ accepted' = (Decodable(file) /\ Verified(Decode(file)))
  /\ UNCHANGED <<target, world, replay, file, damaged>>

Next ==
  \/ \E buttons \in Inputs : PlayFrame(buttons)
  \/ Save
  \/ FileDiffers
  \/ ReadFile

Spec == Init /\ [][Next]_vars

-----------------------------------------------------------------------------
(* Properties *)

Active == ActiveIn(world)

HitsToKill == StartingHp \div ProjectileDamage

(* The hits that p has taken since the game began. *)
HitsOn(p) ==
  world.players[Other(p)].score * HitsToKill
    + (StartingHp - world.players[p].hp) \div ProjectileDamage

(* The game adds up (simulate_frame): every hit on a player was made by a  *)
(* projectile of its own, which is gone, so that hits and projectiles in   *)
(* flight are no more than the attacks that were made; the projectiles in  *)
(* flight have different ids; everyone is alive and inside the arena, so   *)
(* that no addition of positions can overflow.                             *)
GameAddsUp ==
  /\ HitsOn("a") + HitsOn("b") + Cardinality(Active) < world.next
  /\ \A s, t \in Active : world.projectiles[s].id = world.projectiles[t].id => s = t
  /\ \A s \in Active :
       /\ world.projectiles[s].id < world.next /\ world.projectiles[s].ttl > 0
       /\ world.projectiles[s].x \in 0 .. ArenaWidth
       /\ world.projectiles[s].y \in 0 .. ArenaHeight
  /\ \A p \in Players :
       /\ world.players[p].hp \in 1 .. StartingHp
       /\ world.players[p].x \in PlayerRadius .. ArenaWidth - PlayerRadius
       /\ world.players[p].y \in PlayerRadius .. ArenaHeight - PlayerRadius

(* The worlds of a game, frame by frame. *)
WorldsOf(r) ==
  LET worlds[i \in 0 .. r.final] ==
        IF i = 0 THEN InitialWorld ELSE SimulateFrame(worlds[i - 1], r.inputs[i], r.variant)
  IN worlds

(* What is read is what was played (verify_replay): a file as it was saved *)
(* is accepted, and a file that is accepted tells of a game that its       *)
(* inputs play, at every checkpoint and at its end, and that nobody has to *)
(* skip a checkpoint for.                                                  *)
AcceptedIsPlayed ==
  stage = "read" =>
    /\ ~ damaged => accepted
    /\ accepted =>
         LET r == Decode(file)
             worlds == WorldsOf(r)
         IN /\ r.hash = worlds[r.final]
            /\ \A i \in 1 .. Len(r.checkpoints) :
                 r.checkpoints[i].frame > 0 /\ r.checkpoints[i].hash = worlds[r.checkpoints[i].frame]
====
