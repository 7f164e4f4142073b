---- MODULE Arena ----
(***************************************************************************)
(* The game (src/simulation/simulation.cpp, simulation/state.hpp): one     *)
(* frame of two players who move, shoot and are hit.                       *)
(*                                                                         *)
(* A world is a record, its hash the world itself.  What went wrong in a   *)
(* frame is the field ok.  Positions stay in the arena, so the checked     *)
(* additions of positions cannot overflow and are plain additions.         *)
(***************************************************************************)
EXTENDS Integers, FiniteSets, Sequences, SequencesExt, FiniteSetsExt

CONSTANTS
  ArenaWidth, ArenaHeight,            \* kArenaWidth, kArenaHeight
  PlayerRadius, ProjectileRadius,     \* kPlayerRadius, kProjectileRadius
  PlayerSpeed, ProjectileSpeed,       \* kPlayerSpeed, kProjectileSpeed
  SpawnOffset,                        \* spawn_offset
  StartingHp, ProjectileDamage,       \* kStartingHp, kProjectileDamage
  AttackCooldown, ProjectileLifetime, \* kAttackCooldownTicks, kProjectileLifetimeTicks
  MaxProjectiles,                     \* kMaxProjectiles
  MaxId                               \* the largest value of an id

ASSUME ArenaAssumption ==
  /\ {ArenaWidth, ArenaHeight, PlayerRadius, ProjectileRadius} \subseteq Nat
  /\ {PlayerSpeed, ProjectileSpeed, SpawnOffset, AttackCooldown} \subseteq Nat
  /\ ArenaWidth >= 4 * PlayerRadius /\ ArenaHeight >= 2 * PlayerRadius
  /\ ArenaWidth >= 2 * ProjectileRadius /\ ArenaHeight >= 2 * ProjectileRadius
  /\ {StartingHp, ProjectileDamage, ProjectileLifetime, MaxProjectiles, MaxId} \subseteq Nat \ {0}
  /\ StartingHp % ProjectileDamage = 0

Players == {"a", "b"}
Slots == 1 .. MaxProjectiles
Other(p) == IF p = "a" THEN "b" ELSE "a"

Spawned(p) ==
  [x |-> (IF p = "a" THEN ArenaWidth ELSE 3 * ArenaWidth) \div 4, y |-> ArenaHeight \div 2,
   vx |-> 0, vy |-> 0, facing |-> <<IF p = "a" THEN 1 ELSE -1, 0>>,
   hp |-> StartingHp, score |-> 0, cooldown |-> 0]

NoProjectile ==
  [active |-> FALSE, id |-> 0, owner |-> "a", x |-> 0, y |-> 0, vx |-> 0, vy |-> 0, ttl |-> 0]

InitialWorld ==
  [ok |-> TRUE, frame |-> 0, players |-> [p \in Players |-> Spawned(p)],
   projectiles |-> [s \in Slots |-> NoProjectile], next |-> 1]

Clamp(v, lower, upper) == IF v < lower THEN lower ELSE IF v > upper THEN upper ELSE v

Axis(buttons, negative, positive) ==
  (IF positive \in buttons THEN 1 ELSE 0) - (IF negative \in buttons THEN 1 ELSE 0)

-----------------------------------------------------------------------------
(* Players *)

(* A player turns the way it moves, sideways first, and stops at a wall. *)
Moved(player, buttons) ==
  LET h == Axis(buttons, "left", "right")
      v == Axis(buttons, "up", "down")
  IN [player EXCEPT
        !.cooldown = IF @ > 0 THEN @ - 1 ELSE 0,
        !.vx = h * PlayerSpeed, !.vy = v * PlayerSpeed,
        !.facing = IF h # 0 THEN <<h, 0>> ELSE IF v # 0 THEN <<0, v>> ELSE @,
        !.x = Clamp(@ + h * PlayerSpeed, PlayerRadius, ArenaWidth - PlayerRadius),
        !.y = Clamp(@ + v * PlayerSpeed, PlayerRadius, ArenaHeight - PlayerRadius)]

(* A respawn keeps the score. *)
Respawned(p, player) == [Spawned(p) EXCEPT !.score = player.score]

(* The slots in use. *)
ActiveIn(w) == {s \in Slots : w.projectiles[s].active}

(* An attack takes the first free slot.  Without one, nothing happens and  *)
(* the player does not have to cool down.                                  *)
SpawnProjectile(w, p) ==
  LET free == Slots \ ActiveIn(w)
      player == w.players[p]
      along == player.facing
  IN IF free = {} THEN w
     ELSE IF w.next = MaxId THEN [w EXCEPT !.ok = FALSE]
     ELSE [w EXCEPT
        !.projectiles[Min(free)] =
           [active |-> TRUE, id |-> w.next, owner |-> p,
            x |-> Clamp(player.x + along[1] * SpawnOffset,
                        ProjectileRadius, ArenaWidth - ProjectileRadius),
            y |-> Clamp(player.y + along[2] * SpawnOffset,
                        ProjectileRadius, ArenaHeight - ProjectileRadius),
            vx |-> along[1] * ProjectileSpeed, vy |-> along[2] * ProjectileSpeed,
            ttl |-> ProjectileLifetime],
        !.next = @ + 1,
        !.players[p].cooldown = AttackCooldown]

Attack(w, p, buttons) ==
  IF w.ok /\ "attack" \in buttons /\ w.players[p].cooldown = 0 THEN SpawnProjectile(w, p) ELSE w

-----------------------------------------------------------------------------
(* Projectiles *)

MoveProjectile(q) ==
  LET x == q.x + q.vx
      y == q.y + q.vy
      ttl == IF q.ttl > 0 THEN q.ttl - 1 ELSE 0
  IN [q EXCEPT !.x = x, !.y = y, !.ttl = ttl,
               !.active = ttl > 0 /\ x \in 0 .. ArenaWidth /\ y \in 0 .. ArenaHeight]

Overlaps(q, player) ==
  LET extent == PlayerRadius + ProjectileRadius
  IN q.x - player.x \in -extent .. extent /\ q.y - player.y \in -extent .. extent

Damage(variant) == IF variant = "damage_bias" THEN ProjectileDamage + 1 ELSE ProjectileDamage

(* Mutant: a projectile that has hit flies on. *)
HitThrough(w, s, variant) ==
  LET owner == w.projectiles[s].owner
      target == w.players[Other(owner)]
      hp == target.hp - Damage(variant)
  IN IF hp > 0 THEN [w EXCEPT !.players[Other(owner)].hp = hp]
     ELSE [w EXCEPT !.players[Other(owner)] = Respawned(Other(owner), target),
                    !.players[owner].score = @ + 1]

(* The projectile in slot s hits the player it was not shot by. *)
Hit(w, s, variant) ==
  LET owner == w.projectiles[s].owner
      target == w.players[Other(owner)]
      hp == target.hp - Damage(variant)
      spent == [w EXCEPT !.projectiles[s].active = FALSE]
  IN IF hp > 0 THEN [spent EXCEPT !.players[Other(owner)].hp = hp]
     ELSE [spent EXCEPT !.players[Other(owner)] = Respawned(Other(owner), target),
                        !.players[owner].score = @ + 1]

Fly(w, s, variant) ==
  LET moved == [w EXCEPT !.projectiles[s] = MoveProjectile(@)]
      q == moved.projectiles[s]
  IN IF ~ w.projectiles[s].active THEN w
     ELSE IF q.active /\ Overlaps(q, w.players[Other(q.owner)])
     THEN Hit(moved, s, variant) ELSE moved

(* The projectiles fly in the order of their ids, whatever their slots. *)
FlightOrder(w) ==
  CHOOSE order \in [1 .. Cardinality(ActiveIn(w)) -> ActiveIn(w)] :
    \A i, j \in DOMAIN order :
      i < j => w.projectiles[order[i]].id < w.projectiles[order[j]].id

-----------------------------------------------------------------------------
(* simulate_frame: inputs are the buttons of both players for a frame. *)
SimulateFrame(before, inputs, variant) ==
  LET moved == [before EXCEPT !.players = [p \in Players |-> Moved(@[p], inputs.buttons[p])]]
      armed == Attack(Attack(moved, "a", inputs.buttons["a"]), "b", inputs.buttons["b"])
      Flown(w, s) == Fly(w, s, variant)
      flown == FoldLeft(Flown, armed, FlightOrder(armed))
  IN IF before.frame # inputs.frame \/ ~ armed.ok THEN [before EXCEPT !.ok = FALSE]
     ELSE [flown EXCEPT !.frame = inputs.frame + 1]
====
