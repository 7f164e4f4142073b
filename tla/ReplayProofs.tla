---- MODULE ReplayProofs ----
(***************************************************************************)
(* Proofs about Arena, Replay and ReplayFiles, for every size of the       *)
(* arena, every number of slots and ids, every game and every file.        *)
(*                                                                         *)
(* GameAddsUp is about a game by the canonical rules.  What of it does not *)
(* depend on the damage (Fits) holds of every world that either set of     *)
(* rules makes of the initial one; Counted adds the hits.                  *)
(***************************************************************************)
EXTENDS ReplayFiles, FiniteSetTheorems, WellFoundedInduction, TLAPS

-----------------------------------------------------------------------------
(* Worlds *)

PlayerRecords ==
  [x : PlayerRadius .. ArenaWidth - PlayerRadius, y : PlayerRadius .. ArenaHeight - PlayerRadius,
   vx : Int, vy : Int, facing : Int \X Int, hp : Int, score : Nat, cooldown : Nat]

ProjectileRecords ==
  [active : BOOLEAN, id : Nat, owner : Players, x : Int, y : Int, vx : Int, vy : Int, ttl : Nat]

Worlds ==
  [ok : BOOLEAN, frame : Nat, players : [Players -> PlayerRecords],
   projectiles : [Slots -> ProjectileRecords], next : Nat]

InFlight(q) == q.ttl > 0 /\ q.x \in 0 .. ArenaWidth /\ q.y \in 0 .. ArenaHeight

Numbered(w) ==
  \A s, t \in ActiveIn(w) : w.projectiles[s].id = w.projectiles[t].id => s = t

(* What every world is like. *)
Fits(w) ==
  /\ w \in Worlds
  /\ \A s \in ActiveIn(w) : w.projectiles[s].id < w.next /\ InFlight(w.projectiles[s])
  /\ Numbered(w)

(* The hits since the last respawn, of a player who is alive. *)
Wounds(hp) == (StartingHp - hp) \div ProjectileDamage

HasWounds(hp) ==
  hp \in 1 .. StartingHp /\ \E k \in Nat : StartingHp - hp = k * ProjectileDamage

HitsIn(w, p) == w.players[Other(p)].score * HitsToKill + Wounds(w.players[p].hp)

(* Every hit was an attack. *)
Counted(w) ==
  /\ \A p \in Players : HasWounds(w.players[p].hp)
  /\ HitsIn(w, "a") + HitsIn(w, "b") + Cardinality(ActiveIn(w)) < w.next

(* The constants are numbers. *)
LEMMA ConstantsFit ==
  /\ ArenaWidth \in Nat /\ ArenaHeight \in Nat /\ PlayerRadius \in Nat /\ ProjectileRadius \in Nat
  /\ PlayerSpeed \in Nat /\ ProjectileSpeed \in Nat /\ SpawnOffset \in Nat
  /\ AttackCooldown \in Nat
  /\ StartingHp \in Nat \ {0} /\ ProjectileDamage \in Nat \ {0} /\ ProjectileLifetime \in Nat \ {0}
  /\ MaxProjectiles \in Nat \ {0} /\ MaxId \in Nat \ {0}
  BY ArenaAssumption

(* A clamped position is within the walls. *)
LEMMA ClampFits ==
  ASSUME NEW v \in Int, NEW lower \in Int, NEW upper \in Int, lower <= upper
  PROVE  Clamp(v, lower, upper) \in lower .. upper
  BY DEF Clamp

(* A move keeps hp and score. *)
LEMMA MovedFits ==
  ASSUME NEW player \in PlayerRecords, NEW buttons, NEW moved, moved = Moved(player, buttons)
  PROVE  moved \in PlayerRecords /\ moved.hp = player.hp /\ moved.score = player.score
<1> DEFINE h == Axis(buttons, "left", "right")
           v == Axis(buttons, "up", "down")
<1>1. h \in Int /\ v \in Int
  BY DEF Axis
<1> DEFINE cooldown == IF player.cooldown > 0 THEN player.cooldown - 1 ELSE 0
           facing == IF h # 0 THEN <<h, 0>> ELSE IF v # 0 THEN <<0, v>> ELSE player.facing
           vx == h * PlayerSpeed
           vy == v * PlayerSpeed
           x == Clamp(player.x + vx, PlayerRadius, ArenaWidth - PlayerRadius)
           y == Clamp(player.y + vy, PlayerRadius, ArenaHeight - PlayerRadius)
<1>2. moved = [x |-> x, y |-> y, vx |-> vx, vy |-> vy, facing |-> facing, hp |-> player.hp,
               score |-> player.score, cooldown |-> cooldown]
  <2> HIDE DEF x, y
  <2>1. moved = [player EXCEPT !.cooldown = cooldown, !.vx = vx, !.vy = vy, !.facing = facing,
                               !.x = x, !.y = y]
    BY DEF Moved, x, y
  <2> HIDE DEF cooldown, vx, vy, facing
  <2> QED
    BY <2>1 DEF PlayerRecords
<1>3. vx \in Int /\ vy \in Int /\ facing \in Int \X Int /\ cooldown \in Nat
  <2>1. vx \in Int /\ vy \in Int
    BY <1>1, ConstantsFit
  <2>2. facing \in Int \X Int
    <3> HIDE DEF h, v
    <3> QED
      BY <1>1 DEF PlayerRecords
  <2>3. cooldown \in Nat
    BY DEF PlayerRecords
  <2> QED
    BY <2>1, <2>2, <2>3
<1> HIDE DEF vx, vy, facing, cooldown
<1>4. player.x + vx \in Int /\ player.y + vy \in Int
  BY <1>3, ConstantsFit DEF PlayerRecords
<1>5. /\ PlayerRadius \in Int /\ ArenaWidth - PlayerRadius \in Int /\ ArenaHeight - PlayerRadius \in Int
      /\ PlayerRadius <= ArenaWidth - PlayerRadius /\ PlayerRadius <= ArenaHeight - PlayerRadius
  BY ConstantsFit, ArenaAssumption
<1>6. /\ x \in PlayerRadius .. ArenaWidth - PlayerRadius
      /\ y \in PlayerRadius .. ArenaHeight - PlayerRadius
  BY <1>4, <1>5, ClampFits
<1> HIDE DEF x, y
<1> QED
  BY <1>2, <1>3, <1>6 DEF PlayerRecords

(* A player starts inside the arena. *)
LEMMA SpawnedFits ==
  ASSUME NEW p \in Players
  PROVE  /\ Spawned(p) \in PlayerRecords
         /\ Spawned(p).hp = StartingHp /\ Spawned(p).score = 0
<1> DEFINE x == (IF p = "a" THEN ArenaWidth ELSE 3 * ArenaWidth) \div 4
           y == ArenaHeight \div 2
<1>1. x \in PlayerRadius .. ArenaWidth - PlayerRadius
  BY ConstantsFit, ArenaAssumption
<1>2. y \in PlayerRadius .. ArenaHeight - PlayerRadius
  BY ConstantsFit, ArenaAssumption
<1>3. Spawned(p) = [x |-> x, y |-> y, vx |-> 0, vy |-> 0,
                    facing |-> <<IF p = "a" THEN 1 ELSE -1, 0>>,
                    hp |-> StartingHp, score |-> 0, cooldown |-> 0]
  BY DEF Spawned
<1> HIDE DEF x, y
<1> QED
  BY <1>1, <1>2, <1>3, ConstantsFit DEF PlayerRecords

(* A respawn keeps the score. *)
LEMMA RespawnedFits ==
  ASSUME NEW p \in Players, NEW player \in PlayerRecords, NEW r, r = Respawned(p, player)
  PROVE  r \in PlayerRecords /\ r.hp = StartingHp /\ r.score = player.score
<1>1. r = [Spawned(p) EXCEPT !.score = player.score]
  BY DEF Respawned
<1>2. player.score \in Nat
  BY DEF PlayerRecords
<1> QED
  BY <1>1, <1>2, SpawnedFits DEF PlayerRecords

(* A move of a projectile ends outside the arena or in flight. *)
LEMMA MoveProjectileFits ==
  ASSUME NEW q \in ProjectileRecords, NEW r, r = MoveProjectile(q)
  PROVE  /\ r \in ProjectileRecords /\ r.id = q.id /\ r.owner = q.owner
         /\ r.active => InFlight(r)
<1> DEFINE x == q.x + q.vx
           y == q.y + q.vy
           ttl == IF q.ttl > 0 THEN q.ttl - 1 ELSE 0
           active == ttl > 0 /\ x \in 0 .. ArenaWidth /\ y \in 0 .. ArenaHeight
<1>1. x \in Int /\ y \in Int /\ ttl \in Nat /\ active \in BOOLEAN
  BY DEF ProjectileRecords
<1>2. r = [q EXCEPT !.x = x, !.y = y, !.ttl = ttl, !.active = active]
  BY DEF MoveProjectile
<1>3. active => ttl > 0 /\ x \in 0 .. ArenaWidth /\ y \in 0 .. ArenaHeight
  OBVIOUS
<1> HIDE DEF x, y, ttl, active
<1>4. r = [active |-> active, id |-> q.id, owner |-> q.owner, x |-> x, y |-> y, vx |-> q.vx,
           vy |-> q.vy, ttl |-> ttl]
  BY <1>2 DEF ProjectileRecords
<1> QED
  BY <1>1, <1>3, <1>4 DEF ProjectileRecords, InFlight

-----------------------------------------------------------------------------
(* Hits *)

(* A multiple of d that is positive and at most d is d. *)
LEMMA MultiplesAreApart ==
  ASSUME NEW d \in Nat \ {0}, NEW k \in Int
  PROVE  /\ k >= 1 => k * d >= d
         /\ k >= 2 => k * d >= 2 * d
         /\ k <= 0 => k * d <= 0
OBVIOUS

(* The quotient of a multiple. *)
LEMMA QuotientIs ==
  ASSUME NEW d \in Nat \ {0}, NEW k \in Int
  PROVE  (k * d) \div d = k
<1> DEFINE a == k * d
<1>1. a \in Int
  OBVIOUS
<1>2. a \div d \in Int /\ a % d \in 0 .. d - 1 /\ a = d * (a \div d) + (a % d)
  <2> HIDE DEF a
  <2> QED
    BY <1>1
<1> DEFINE q == a \div d
           j == k - q
<1>3. j \in Int /\ j * d = a % d
  <2>1. q \in Int /\ k * d = d * q + (a % d)
    BY <1>2
  <2> HIDE DEF q
  <2>2. (k - q) * d = k * d - q * d /\ d * q = q * d
    BY <2>1
  <2> HIDE DEF a
  <2> QED
    BY <1>2, <2>1, <2>2
<1>4. j = 0
  <2> HIDE DEF j
  <2>1. (-j) * d = -(j * d)
    BY <1>3
  <2>2. -j >= 1 => (-j) * d >= d
    BY <1>3, MultiplesAreApart
  <2>3. j >= 1 => j * d >= d
    BY <1>3, MultiplesAreApart
  <2> HIDE DEF a
  <2> QED
    BY <1>2, <1>3, <2>1, <2>2, <2>3
<1> HIDE DEF a
<1> QED
  BY <1>2, <1>4

(* A wounded player has a number of wounds, fewer than kill it. *)
LEMMA WoundsAre ==
  /\ HasWounds(StartingHp) /\ Wounds(StartingHp) = 0
  /\ HitsToKill \in Nat
  /\ \A hp : HasWounds(hp) =>
       /\ Wounds(hp) \in Nat
       /\ hp - ProjectileDamage > 0 =>
            /\ HasWounds(hp - ProjectileDamage)
            /\ Wounds(hp - ProjectileDamage) = Wounds(hp) + 1
       /\ ~ hp - ProjectileDamage > 0 => Wounds(hp) + 1 = HitsToKill
<1> DEFINE d == ProjectileDamage
           n == StartingHp
           full == n \div d
<1>1. d \in Nat \ {0} /\ n \in Nat \ {0}
  BY ConstantsFit
<1>2. n % d = 0
  BY ArenaAssumption
<1> HIDE DEF d, n
<1>3. full \in Int /\ n = full * d
  <2>1. n \div d \in Int /\ n = d * (n \div d) + (n % d)
    BY <1>1
  <2> HIDE DEF full
  <2> QED
    BY <1>1, <1>2, <2>1 DEF full
<1>4. full \in Nat
  <2>1. full <= 0 => full * d <= 0
    BY <1>1, <1>3, MultiplesAreApart
  <2> HIDE DEF full
  <2> QED
    BY <1>1, <1>3, <2>1
<1> HIDE DEF full
<1>5. HasWounds(n) /\ Wounds(n) = 0
  <2>1. n - n = 0 * d /\ n \in 1 .. n
    BY <1>1
  <2>2. 0 \div d = 0
    BY <1>1
  <2> QED
    BY <1>1, <2>1, <2>2 DEF HasWounds, Wounds, d, n
<1>6. ASSUME NEW hp, HasWounds(hp)
      PROVE  /\ Wounds(hp) \in Nat
             /\ hp - d > 0 => HasWounds(hp - d) /\ Wounds(hp - d) = Wounds(hp) + 1
             /\ ~ hp - d > 0 => Wounds(hp) + 1 = full
  <2>1. hp \in 1 .. n
    BY <1>6 DEF HasWounds, n
  <2>2. PICK k \in Nat : n - hp = k * d
    BY <1>6 DEF HasWounds, n, d
  <2>3. Wounds(hp) = k
    <3>1. (k * d) \div d = k
      BY <1>1, QuotientIs
    <3> QED
      BY <2>2, <3>1 DEF Wounds, n, d
  <2>4. (k + 1) * d = k * d + d
    BY <1>1
  <2>5. CASE hp - d > 0
    <3>1. n - (hp - d) = (k + 1) * d /\ hp - d \in 1 .. n
      BY <1>1, <2>1, <2>2, <2>4, <2>5
    <3>2. ((k + 1) * d) \div d = k + 1
      BY <1>1, QuotientIs
    <3>3. HasWounds(hp - d)
      <4>1. k + 1 \in Nat
        OBVIOUS
      <4> QED
        BY <3>1, <4>1 DEF HasWounds, n, d
    <3>4. Wounds(hp - d) = k + 1
      BY <3>1, <3>2 DEF Wounds, n, d
    <3> QED
      BY <2>3, <2>5, <3>3, <3>4
  <2>6. CASE ~ hp - d > 0
    <3> DEFINE j == full - k
    <3>1. j \in Int /\ j * d = full * d - k * d
      BY <1>1, <1>3
    <3>2. /\ j >= 2 => j * d >= 2 * d
          /\ j <= 0 => j * d <= 0
      BY <1>1, <3>1, MultiplesAreApart
    <3> HIDE DEF j
    <3>3. j * d = hp /\ hp <= d /\ hp >= 1
      BY <1>1, <1>3, <2>1, <2>2, <2>6, <3>1
    <3>4. j = 1
      BY <1>1, <3>1, <3>2, <3>3
    <3> QED
      BY <1>3, <2>3, <2>6, <3>4 DEF j
  <2> QED
    BY <2>3, <2>5, <2>6
<1> QED
  BY <1>4, <1>5, <1>6 DEF HitsToKill, full, n, d

(* The slots are known by the projectiles alone. *)
LEMMA ActiveFacts ==
  ASSUME NEW w \in Worlds
  PROVE  /\ ActiveIn(w) \subseteq Slots /\ IsFiniteSet(Slots) /\ IsFiniteSet(ActiveIn(w))
         /\ Cardinality(ActiveIn(w)) \in Nat
         /\ \A v \in Worlds : v.projectiles = w.projectiles => ActiveIn(v) = ActiveIn(w)
<1>1. IsFiniteSet(Slots)
  BY ConstantsFit, FS_Interval DEF Slots
<1>2. ActiveIn(w) \subseteq Slots
  BY DEF ActiveIn
<1>3. IsFiniteSet(ActiveIn(w)) /\ Cardinality(ActiveIn(w)) \in Nat
  BY <1>1, <1>2, FS_Subset, FS_CardinalityType
<1> QED
  BY <1>1, <1>2, <1>3 DEF ActiveIn

(* The world after a hit: the victim has lost a life or some hp. *)
LEMMA HitIs ==
  ASSUME NEW w \in Worlds, NEW s \in Slots, NEW variant,
         NEW owner, owner = w.projectiles[s].owner, NEW victim, victim = Other(owner),
         NEW hp, hp = w.players[victim].hp - Damage(variant),
         NEW r, r = Hit(w, s, variant)
  PROVE  /\ r \in Worlds /\ r.ok = w.ok /\ r.frame = w.frame /\ r.next = w.next
         /\ r.projectiles = [w.projectiles EXCEPT ![s] = [@ EXCEPT !.active = FALSE]]
         /\ hp > 0 => /\ r.players[victim].hp = hp
                      /\ r.players[victim].score = w.players[victim].score
                      /\ r.players[owner] = w.players[owner]
         /\ ~ hp > 0 => /\ r.players[victim].hp = StartingHp
                        /\ r.players[victim].score = w.players[victim].score
                        /\ r.players[owner].hp = w.players[owner].hp
                        /\ r.players[owner].score = w.players[owner].score + 1
<1>1. owner \in Players /\ victim \in Players /\ victim # owner
  BY DEF Worlds, ProjectileRecords, Players, Other
<1>2. hp \in Int
  BY <1>1, ConstantsFit DEF Worlds, PlayerRecords, Damage
<1> DEFINE Q == [w.projectiles EXCEPT ![s] = [@ EXCEPT !.active = FALSE]]
           spent == [w EXCEPT !.projectiles[s].active = FALSE]
           back == Respawned(victim, w.players[victim])
           wounded == [w.players[victim] EXCEPT !.hp = hp]
           ahead == [w.players[owner] EXCEPT !.score = @ + 1]
<1>3. Q \in [Slots -> ProjectileRecords]
  <2>1. [w.projectiles[s] EXCEPT !.active = FALSE] \in ProjectileRecords
    BY DEF Worlds, ProjectileRecords
  <2> QED
    BY <2>1 DEF Worlds
<1>4. spent = [w EXCEPT !.projectiles = Q]
  BY DEF Worlds
<1>5. r = IF hp > 0 THEN [spent EXCEPT !.players[victim].hp = hp]
          ELSE [spent EXCEPT !.players[victim] = back, !.players[owner].score = @ + 1]
  BY DEF Hit
<1>6. /\ w.players \in [Players -> PlayerRecords] /\ w.players[owner] \in PlayerRecords
      /\ w.players[victim] \in PlayerRecords
  BY <1>1 DEF Worlds
<1> HIDE DEF Q, spent
<1>7. CASE hp > 0
  <2> DEFINE P == [w.players EXCEPT ![victim] = wounded]
  <2>1. wounded \in PlayerRecords /\ wounded.hp = hp /\ wounded.score = w.players[victim].score
    BY <1>2, <1>6 DEF PlayerRecords
  <2>2. r = [w EXCEPT !.projectiles = Q, !.players = P]
    <3>1. r = [spent EXCEPT !.players[victim].hp = hp]
      BY <1>5, <1>7
    <3>2. spent.players = w.players
      BY <1>4 DEF Worlds
    <3> HIDE DEF wounded
    <3>3. [spent EXCEPT !.players[victim].hp = hp] = [spent EXCEPT !.players = P]
      BY <3>2 DEF wounded
    <3> HIDE DEF P
    <3> QED
      BY <1>4, <3>1, <3>3
  <2> HIDE DEF wounded
  <2>3. /\ P \in [Players -> PlayerRecords] /\ P[victim] = wounded /\ P[owner] = w.players[owner]
    BY <1>1, <1>6, <2>1
  <2> HIDE DEF P
  <2> QED
    BY <1>3, <1>7, <2>1, <2>2, <2>3 DEF Worlds, Q
<1>8. CASE ~ hp > 0
  <2> DEFINE P == [w.players EXCEPT ![victim] = back, ![owner] = ahead]
  <2>1. /\ back \in PlayerRecords /\ back.hp = StartingHp
        /\ back.score = w.players[victim].score
    BY <1>1, <1>6, RespawnedFits
  <2> HIDE DEF back
  <2>2. /\ ahead \in PlayerRecords /\ ahead.hp = w.players[owner].hp
        /\ ahead.score = w.players[owner].score + 1
    BY <1>6 DEF PlayerRecords
  <2>3. r = [w EXCEPT !.projectiles = Q, !.players = P]
    <3>1. r = [spent EXCEPT !.players[victim] = back, !.players[owner].score = @ + 1]
      BY <1>5, <1>8
    <3>2. spent.players = w.players
      BY <1>4 DEF Worlds
    <3>3. [spent EXCEPT !.players[victim] = back, !.players[owner].score = @ + 1]
            = [spent EXCEPT !.players = P]
      BY <1>1, <3>2
    <3> HIDE DEF P
    <3> QED
      BY <1>4, <3>1, <3>3
  <2> HIDE DEF ahead
  <2>4. P \in [Players -> PlayerRecords] /\ P[victim] = back /\ P[owner] = ahead
    BY <1>1, <1>6, <2>1, <2>2
  <2> HIDE DEF P
  <2> QED
    BY <1>3, <1>8, <2>1, <2>2, <2>3, <2>4 DEF Worlds, Q
<1> QED
  BY <1>7, <1>8

(* A world with fewer projectiles in flight. *)
LEMMA FewerFit ==
  ASSUME NEW w, Fits(w), NEW v \in Worlds, v.next = w.next, ActiveIn(v) \subseteq ActiveIn(w),
         \A s \in ActiveIn(v) : /\ v.projectiles[s].id = w.projectiles[s].id
                                /\ InFlight(v.projectiles[s])
  PROVE  Fits(v)
<1>1. \A s \in ActiveIn(v) : v.projectiles[s].id < v.next /\ InFlight(v.projectiles[s])
  BY DEF Fits
<1>2. Numbered(v)
  BY DEF Fits, Numbered
<1> QED
  BY <1>1, <1>2 DEF Fits

MovedIn(w, s) == [w EXCEPT !.projectiles[s] = MoveProjectile(@)]

(* A projectile moves and no other does. *)
LEMMA MoveFits ==
  ASSUME NEW w, Fits(w), NEW s \in ActiveIn(w), NEW v, v = MovedIn(w, s)
  PROVE  /\ Fits(v) /\ v.ok = w.ok /\ v.frame = w.frame /\ v.next = w.next
         /\ v.players = w.players /\ ActiveIn(v) \subseteq ActiveIn(w)
         /\ v.projectiles[s].owner = w.projectiles[s].owner
<1> DEFINE q == MoveProjectile(w.projectiles[s])
<1>1. w \in Worlds /\ s \in Slots /\ w.projectiles[s] \in ProjectileRecords
  BY DEF Fits, ActiveIn, Worlds
<1>2. /\ q \in ProjectileRecords /\ q.id = w.projectiles[s].id
      /\ q.owner = w.projectiles[s].owner
      /\ q.active => InFlight(q)
  BY <1>1, MoveProjectileFits
<1>3. v = [w EXCEPT !.projectiles = [w.projectiles EXCEPT ![s] = q]]
  BY <1>1 DEF Worlds, MovedIn
<1> HIDE DEF q
<1>4. v.projectiles = [w.projectiles EXCEPT ![s] = q]
  BY <1>1, <1>3 DEF Worlds
<1>5. v.projectiles \in [Slots -> ProjectileRecords] /\ w.projectiles \in [Slots -> ProjectileRecords]
  BY <1>1, <1>2, <1>4 DEF Worlds
<1>6. /\ v \in Worlds /\ v.ok = w.ok /\ v.frame = w.frame /\ v.next = w.next
      /\ v.players = w.players
  BY <1>1, <1>3, <1>4, <1>5 DEF Worlds
<1>7. /\ v.projectiles[s] = q
      /\ \A t \in Slots \ {s} : v.projectiles[t] = w.projectiles[t]
  BY <1>1, <1>4, <1>5
<1>8. \A t \in ActiveIn(v) : /\ t \in ActiveIn(w)
                             /\ v.projectiles[t].id = w.projectiles[t].id
                             /\ InFlight(v.projectiles[t])
  <2> TAKE t \in ActiveIn(v)
  <2>1. t \in Slots /\ v.projectiles[t].active
    BY DEF ActiveIn
  <2>2. CASE t = s
    BY <1>2, <1>7, <2>1, <2>2
  <2>3. CASE t # s
    <3>1. v.projectiles[t] = w.projectiles[t]
      BY <1>7, <2>1, <2>3
    <3>2. t \in ActiveIn(w)
      BY <2>1, <3>1 DEF ActiveIn
    <3> QED
      BY <3>1, <3>2 DEF Fits
  <2> QED
    BY <2>2, <2>3
<1>9. ActiveIn(v) \subseteq ActiveIn(w)
  BY <1>8
<1>10. Fits(v)
  BY <1>6, <1>8, <1>9, FewerFit
<1>11. v.projectiles[s].owner = w.projectiles[s].owner
  BY <1>2, <1>7
<1> QED
  BY <1>6, <1>9, <1>10, <1>11

(* What a frame keeps of a world, by the rules of a variant. *)
Kept(w, r, variant) ==
  /\ Fits(r) /\ r.ok = w.ok /\ r.frame = w.frame
  /\ variant = "canonical" /\ Counted(w) => Counted(r)

(* The scores and the hits before and after. *)
LEMMA CountIs ==
  ASSUME NEW w \in Worlds
  PROVE  /\ HitsIn(w, "a") + HitsIn(w, "b")
              = (w.players["b"].score * HitsToKill + Wounds(w.players["a"].hp))
                + (w.players["a"].score * HitsToKill + Wounds(w.players["b"].hp))
         /\ \A p \in Players : w.players[p].score \in Nat /\ w.players[p].hp \in Int
  BY DEF HitsIn, Other, Worlds, PlayerRecords, Players

(* A world with the same players and no more projectiles in flight. *)
LEMMA FewerCount ==
  ASSUME NEW w \in Worlds, NEW v \in Worlds, Counted(w), v.next = w.next, v.players = w.players,
         ActiveIn(v) \subseteq ActiveIn(w)
  PROVE  Counted(v)
<1>1. Cardinality(ActiveIn(v)) <= Cardinality(ActiveIn(w))
  BY ActiveFacts, FS_Subset
<1>2. /\ Cardinality(ActiveIn(v)) \in Nat /\ Cardinality(ActiveIn(w)) \in Nat /\ v.next \in Int
  BY ActiveFacts DEF Worlds
<1> DEFINE n == HitsIn(w, "a") + HitsIn(w, "b")
<1>3. n = HitsIn(v, "a") + HitsIn(v, "b")
  BY DEF HitsIn
<1>4. n \in Int
  <2>1. \A p \in Players : Wounds(w.players[p].hp) \in Nat
    BY WoundsAre DEF Counted
  <2>2. \A p \in Players : w.players[p].score * HitsToKill \in Nat
    BY CountIs, WoundsAre
  <2>3. "a" \in Players /\ "b" \in Players
    BY DEF Players
  <2> HIDE DEF n
  <2>4. n = (w.players["b"].score * HitsToKill + Wounds(w.players["a"].hp))
                + (w.players["a"].score * HitsToKill + Wounds(w.players["b"].hp))
    BY CountIs DEF n
  <2> QED
    BY <2>1, <2>2, <2>3, <2>4
<1>5. n + Cardinality(ActiveIn(w)) < w.next
  BY DEF Counted
<1> HIDE DEF n
<1>6. n + Cardinality(ActiveIn(v)) < v.next
  BY <1>1, <1>2, <1>4, <1>5
<1> QED
  BY <1>3, <1>6 DEF Counted, n

(* A hit is counted once, and its projectile is gone. *)
LEMMA HitKeeps ==
  ASSUME NEW w, Fits(w), NEW s \in ActiveIn(w), NEW variant, NEW r, r = Hit(w, s, variant)
  PROVE  Kept(w, r, variant)
<1> DEFINE owner == w.projectiles[s].owner
           victim == Other(owner)
           old == w.players[victim].hp
           hp == old - Damage(variant)
<1>1. w \in Worlds /\ s \in Slots /\ owner \in Players /\ victim \in Players /\ victim # owner
  BY DEF Fits, ActiveIn, Worlds, ProjectileRecords, Players, Other
<1>2. /\ r \in Worlds /\ r.ok = w.ok /\ r.frame = w.frame /\ r.next = w.next
      /\ r.projectiles = [w.projectiles EXCEPT ![s] = [@ EXCEPT !.active = FALSE]]
      /\ hp > 0 => /\ r.players[victim].hp = hp
                   /\ r.players[victim].score = w.players[victim].score
                   /\ r.players[owner] = w.players[owner]
      /\ ~ hp > 0 => /\ r.players[victim].hp = StartingHp
                     /\ r.players[victim].score = w.players[victim].score
                     /\ r.players[owner].hp = w.players[owner].hp
                     /\ r.players[owner].score = w.players[owner].score + 1
  <2>1. /\ owner = w.projectiles[s].owner /\ victim = Other(owner)
        /\ hp = w.players[victim].hp - Damage(variant)
    OBVIOUS
  <2> HIDE DEF owner, victim, hp
  <2> QED
    BY <1>1, <2>1, HitIs
<1>3. /\ w.projectiles \in [Slots -> ProjectileRecords]
      /\ [w.projectiles[s] EXCEPT !.active = FALSE].active = FALSE
  BY <1>1 DEF Worlds, ProjectileRecords
<1>4. /\ ActiveIn(r) = ActiveIn(w) \ {s}
      /\ \A t \in ActiveIn(r) : r.projectiles[t] = w.projectiles[t]
  <2>1. \A t \in Slots \ {s} : r.projectiles[t] = w.projectiles[t]
    BY <1>1, <1>2, <1>3
  <2>2. r.projectiles[s].active = FALSE
    BY <1>1, <1>2, <1>3
  <2> QED
    BY <2>1, <2>2 DEF ActiveIn
<1>5. Fits(r)
  <2>1. r \in Worlds /\ r.next = w.next
    BY <1>2
  <2>2. \A t \in ActiveIn(w) : InFlight(w.projectiles[t])
    BY DEF Fits
  <2>3. /\ ActiveIn(r) \subseteq ActiveIn(w)
        /\ \A t \in ActiveIn(r) : /\ r.projectiles[t].id = w.projectiles[t].id
                                  /\ InFlight(r.projectiles[t])
    BY <1>4, <2>2
  <2> QED
    BY <2>1, <2>3, FewerFit
<1>6. ASSUME variant = "canonical", Counted(w)
      PROVE  Counted(r)
  <2>1. hp = old - ProjectileDamage
    BY <1>6 DEF Damage
  <2>2. HasWounds(old) /\ HasWounds(w.players[owner].hp)
    BY <1>1, <1>6 DEF Counted
  <2>3. \A p \in Players : p = owner \/ p = victim
    <3>1. owner \in {"a", "b"} /\ victim = Other(owner)
      BY <1>1 DEF Players
    <3> HIDE DEF owner, victim
    <3> QED
      BY <3>1 DEF Players, Other
  <2>4. \/ /\ r.players[victim].hp = hp /\ r.players[owner] = w.players[owner]
           /\ HasWounds(hp) /\ Wounds(hp) = Wounds(old) + 1
        \/ /\ r.players[victim].hp = StartingHp
           /\ r.players[owner].hp = w.players[owner].hp
           /\ r.players[owner].score = w.players[owner].score + 1
           /\ HasWounds(StartingHp) /\ Wounds(StartingHp) = 0 /\ Wounds(old) + 1 = HitsToKill
    <3>1. /\ hp > 0 => HasWounds(hp) /\ Wounds(hp) = Wounds(old) + 1
          /\ ~ hp > 0 => Wounds(old) + 1 = HitsToKill
          /\ HasWounds(StartingHp) /\ Wounds(StartingHp) = 0
      <4> HIDE DEF old
      <4> QED
        BY <2>1, <2>2, WoundsAre
    <3> HIDE DEF hp, owner, victim, old
    <3> QED
      BY <1>2, <3>1
  <2>5. HasWounds(r.players[victim].hp) /\ r.players[owner].hp = w.players[owner].hp
    <3> HIDE DEF hp, owner, victim, old
    <3> QED
      BY <2>4
  <2>6. \A p \in Players : HasWounds(r.players[p].hp)
    BY <2>2, <2>3, <2>5
  <2> DEFINE kill == HitsToKill
             was == w.players[owner].score
             mine == r.players[owner].score
             his == w.players[victim].score
             a == Wounds(w.players[owner].hp)
             before == Wounds(old)
             after == Wounds(r.players[victim].hp)
  <2>7. was \in Nat /\ mine \in Nat /\ his \in Nat /\ kill \in Nat
    BY <1>1, <1>2, CountIs, WoundsAre
  <2>8. a \in Nat /\ before \in Nat /\ after \in Nat
    BY <2>2, <2>5, WoundsAre
  <2>9. \/ mine = was /\ after = before + 1
        \/ mine = was + 1 /\ after = 0 /\ before + 1 = kill
    <3> HIDE DEF hp, owner, victim, old
    <3> QED
      BY <2>4
  <2>10. r.players[victim].score = his /\ Wounds(r.players[owner].hp) = a
    BY <1>2, <2>5
  <2>11. /\ HitsIn(w, "a") + HitsIn(w, "b") = (was * kill + before) + (his * kill + a)
         /\ HitsIn(r, "a") + HitsIn(r, "b") = (mine * kill + after) + (his * kill + a)
    <3>1. HitsIn(w, victim) = was * kill + before /\ HitsIn(w, owner) = his * kill + a
      BY <1>1 DEF HitsIn, Other, Players
    <3>2. HitsIn(r, victim) = mine * kill + after /\ HitsIn(r, owner) = his * kill + a
      BY <1>1, <2>10 DEF HitsIn, Other, Players
    <3> HIDE DEF was, mine, his, kill, a, before, after
    <3>3. was * kill \in Int /\ his * kill \in Int /\ mine * kill \in Int
      BY <2>7
    <3>4. \/ owner = "a" /\ victim = "b"
          \/ owner = "b" /\ victim = "a"
      BY <1>1 DEF Other, Players
    <3> HIDE DEF owner, victim
    <3>5. CASE owner = "a" /\ victim = "b"
      BY <2>8, <3>1, <3>2, <3>3, <3>5
    <3>6. CASE owner = "b" /\ victim = "a"
      BY <2>8, <3>1, <3>2, <3>3, <3>6
    <3> QED
      BY <3>4, <3>5, <3>6
  <2> HIDE DEF was, mine, his, kill, a, before, after
  <2>12. mine * kill + after = was * kill + before + 1
    <3>1. (was + 1) * kill = was * kill + kill /\ was * kill \in Int
      BY <2>7
    <3> QED
      BY <2>7, <2>8, <2>9, <3>1
  <2>13. HitsIn(r, "a") + HitsIn(r, "b") = HitsIn(w, "a") + HitsIn(w, "b") + 1
    <3>1. was * kill \in Int /\ his * kill \in Int /\ mine * kill \in Int
      BY <2>7
    <3> QED
      BY <2>8, <2>11, <2>12, <3>1
  <2>14. Cardinality(ActiveIn(r)) = Cardinality(ActiveIn(w)) - 1
    BY <1>1, <1>4, ActiveFacts, FS_RemoveElement
  <2>15. /\ HitsIn(w, "a") + HitsIn(w, "b") + Cardinality(ActiveIn(w)) < w.next
         /\ HitsIn(w, "a") + HitsIn(w, "b") \in Int
         /\ Cardinality(ActiveIn(w)) \in Nat /\ w.next \in Nat
    <3>1. was * kill \in Int /\ his * kill \in Int
      BY <2>7
    <3>2. HitsIn(w, "a") + HitsIn(w, "b") \in Int
      BY <2>8, <2>11, <3>1
    <3> QED
      BY <1>1, <1>6, <3>2, ActiveFacts DEF Counted, Worlds
  <2> DEFINE n == HitsIn(w, "a") + HitsIn(w, "b")
             m == HitsIn(r, "a") + HitsIn(r, "b")
  <2>16. m + Cardinality(ActiveIn(r)) < r.next
    <3>1. m = n + 1 /\ n \in Int
      BY <2>13, <2>15
    <3>2. n + Cardinality(ActiveIn(w)) < w.next
      BY <2>15
    <3> HIDE DEF n, m
    <3> QED
      BY <1>2, <2>14, <2>15, <3>1, <3>2
  <2> QED
    BY <2>6, <2>16 DEF Counted
<1> QED
  BY <1>2, <1>5, <1>6 DEF Kept

(* A projectile's flight. *)
LEMMA FlyKeeps ==
  ASSUME NEW w, Fits(w), NEW s \in Slots, NEW variant, NEW r, r = Fly(w, s, variant)
  PROVE  Kept(w, r, variant)
<1> DEFINE moved == MovedIn(w, s)
           hits == moved.projectiles[s].active
                   /\ Overlaps(moved.projectiles[s], w.players[Other(moved.projectiles[s].owner)])
<1>1. r = IF ~ w.projectiles[s].active THEN w
          ELSE IF hits THEN Hit(moved, s, variant) ELSE moved
  BY DEF Fly, MovedIn
<1> HIDE DEF moved
<1>2. CASE ~ w.projectiles[s].active
  BY <1>1, <1>2 DEF Kept
<1>3. CASE w.projectiles[s].active
  <2>1. s \in ActiveIn(w)
    BY <1>3 DEF ActiveIn
  <2>2. /\ Fits(moved) /\ moved.ok = w.ok /\ moved.frame = w.frame /\ moved.next = w.next
        /\ moved.players = w.players /\ ActiveIn(moved) \subseteq ActiveIn(w)
    BY <2>1, MoveFits DEF moved
  <2>3. Counted(w) => Counted(moved)
    BY <2>2, FewerCount DEF Fits
  <2>4. CASE ~ hits
    BY <1>1, <1>3, <2>2, <2>3, <2>4 DEF Kept
  <2>5. CASE hits
    <3>1. s \in ActiveIn(moved)
      BY <2>5 DEF ActiveIn
    <3>2. r = Hit(moved, s, variant)
      BY <1>1, <1>3, <2>5
    <3>3. Kept(moved, r, variant)
      BY <2>2, <3>1, <3>2, HitKeeps
    <3> QED
      BY <2>2, <2>3, <3>3 DEF Kept
  <2> QED
    BY <2>4, <2>5
<1> QED
  BY <1>2, <1>3

-----------------------------------------------------------------------------
(* Attacks *)

(* The least-number principle. *)
LEMMA LeastNumber ==
  ASSUME NEW T \in SUBSET Nat, T # {}
  PROVE  \E n \in T : \A m \in T : n <= m
<1>1. IsWellFoundedOn(OpToRel(<, Nat), Nat)
  BY NatLessThanWellFounded
<1>2. PICK n \in T : \A m \in T : ~ (<<m, n>> \in OpToRel(<, Nat))
  BY <1>1, WFMin
<1>3. \A m \in T : ~ (m < n)
  BY <1>2 DEF OpToRel
<1> QED
  BY <1>3

(* What an attack keeps. *)
Armed(w, r) ==
  Fits(r) /\ r.frame = w.frame /\ (Counted(w) => Counted(r))

(* A new projectile is in flight. *)
LEMMA NewProjectileFits ==
  ASSUME NEW player \in PlayerRecords, NEW p \in Players, NEW id \in Nat,
         NEW along, along = player.facing,
         NEW q, q = [active |-> TRUE, id |-> id, owner |-> p,
                     x |-> Clamp(player.x + along[1] * SpawnOffset,
                                 ProjectileRadius, ArenaWidth - ProjectileRadius),
                     y |-> Clamp(player.y + along[2] * SpawnOffset,
                                 ProjectileRadius, ArenaHeight - ProjectileRadius),
                     vx |-> along[1] * ProjectileSpeed, vy |-> along[2] * ProjectileSpeed,
                     ttl |-> ProjectileLifetime]
  PROVE  q \in ProjectileRecords /\ q.active /\ q.id = id /\ InFlight(q)
<1> DEFINE h == along[1]
           v == along[2]
           vx == h * ProjectileSpeed
           vy == v * ProjectileSpeed
           farX == player.x + h * SpawnOffset
           farY == player.y + v * SpawnOffset
           x == Clamp(farX, ProjectileRadius, ArenaWidth - ProjectileRadius)
           y == Clamp(farY, ProjectileRadius, ArenaHeight - ProjectileRadius)
<1>1. h \in Int /\ v \in Int /\ player.x \in Int /\ player.y \in Int
  BY ConstantsFit DEF PlayerRecords
<1>2. q = [active |-> TRUE, id |-> id, owner |-> p, x |-> x, y |-> y, vx |-> vx, vy |-> vy,
           ttl |-> ProjectileLifetime]
  OBVIOUS
<1> HIDE DEF h, v
<1>3. vx \in Int /\ vy \in Int /\ farX \in Int /\ farY \in Int
  BY <1>1, ConstantsFit
<1> HIDE DEF vx, vy, farX, farY
<1>4. /\ ProjectileRadius \in Int /\ ArenaWidth - ProjectileRadius \in Int
      /\ ArenaHeight - ProjectileRadius \in Int
      /\ ProjectileRadius <= ArenaWidth - ProjectileRadius
      /\ ProjectileRadius <= ArenaHeight - ProjectileRadius
  BY ConstantsFit, ArenaAssumption
<1>5. /\ x \in ProjectileRadius .. ArenaWidth - ProjectileRadius
      /\ y \in ProjectileRadius .. ArenaHeight - ProjectileRadius
  BY <1>3, <1>4, ClampFits
<1> HIDE DEF x, y
<1>6. x \in 0 .. ArenaWidth /\ y \in 0 .. ArenaHeight
  BY <1>5, ConstantsFit
<1>7. x \in Int /\ y \in Int
  BY <1>6
<1>8. q.x = x /\ q.y = y /\ q.ttl = ProjectileLifetime /\ q.active /\ q.id = id
  BY <1>2
<1> QED
  BY <1>2, <1>3, <1>6, <1>7, <1>8, ConstantsFit DEF ProjectileRecords, InFlight

(* A projectile is added. *)
LEMMA SpawnKeeps ==
  ASSUME NEW w, Fits(w), NEW p \in Players, NEW r, r = SpawnProjectile(w, p)
  PROVE  Armed(w, r)
<1> DEFINE free == Slots \ ActiveIn(w)
           m == Min(free)
           player == w.players[p]
           along == player.facing
           q == [active |-> TRUE, id |-> w.next, owner |-> p,
                 x |-> Clamp(player.x + along[1] * SpawnOffset,
                             ProjectileRadius, ArenaWidth - ProjectileRadius),
                 y |-> Clamp(player.y + along[2] * SpawnOffset,
                             ProjectileRadius, ArenaHeight - ProjectileRadius),
                 vx |-> along[1] * ProjectileSpeed, vy |-> along[2] * ProjectileSpeed,
                 ttl |-> ProjectileLifetime]
           tired == [player EXCEPT !.cooldown = AttackCooldown]
           Q == [w.projectiles EXCEPT ![m] = q]
           P == [w.players EXCEPT ![p] = tired]
<1>1. w \in Worlds /\ player \in PlayerRecords /\ w.next \in Nat
  BY DEF Fits, Worlds
<1>2. q \in ProjectileRecords /\ q.active /\ q.id = w.next /\ InFlight(q)
  <2> HIDE DEF player
  <2> QED
    BY <1>1, NewProjectileFits
<1>3. r = IF free = {} THEN w
          ELSE IF w.next = MaxId THEN [w EXCEPT !.ok = FALSE]
          ELSE [w EXCEPT !.projectiles[m] = q, !.next = @ + 1,
                         !.players[p].cooldown = AttackCooldown]
  BY DEF SpawnProjectile
<1> HIDE DEF q, m
<1>4. CASE free = {}
  BY <1>3, <1>4 DEF Armed
<1>5. CASE free # {} /\ w.next = MaxId
  <2>1. r = [w EXCEPT !.ok = FALSE]
    BY <1>3, <1>5
  <2>2. /\ r \in Worlds /\ r.frame = w.frame /\ r.next = w.next /\ r.players = w.players
        /\ r.projectiles = w.projectiles
    BY <1>1, <2>1 DEF Worlds
  <2>3. ActiveIn(r) = ActiveIn(w)
    BY <2>2 DEF ActiveIn
  <2>4. Fits(r)
    BY <2>2, <2>3 DEF Fits, Numbered
  <2>5. Counted(w) => Counted(r)
    BY <1>1, <2>2, <2>3, FewerCount
  <2> QED
    BY <2>2, <2>4, <2>5 DEF Armed
<1>6. CASE free # {} /\ w.next # MaxId
  <2>1. m \in Slots /\ m \notin ActiveIn(w)
    <3>1. free \in SUBSET Nat /\ free # {}
      BY <1>6 DEF Slots
    <3>2. \E n \in free : \A k \in free : n <= k
      <4> HIDE DEF free
      <4> QED
        BY <3>1, LeastNumber
    <3>3. m \in free
      BY <3>2 DEF m, Min
    <3> QED
      BY <3>3
  <2>2. r = [w EXCEPT !.projectiles = Q, !.next = w.next + 1, !.players = P]
    BY <1>1, <1>3, <1>6 DEF Worlds
  <2>3. w.projectiles \in [Slots -> ProjectileRecords] /\ w.players \in [Players -> PlayerRecords]
    BY <1>1 DEF Worlds
  <2>4. tired \in PlayerRecords /\ tired.hp = player.hp /\ tired.score = player.score
    BY <1>1, ConstantsFit DEF PlayerRecords
  <2>5. /\ Q \in [Slots -> ProjectileRecords] /\ Q[m] = q
        /\ \A s \in Slots \ {m} : Q[s] = w.projectiles[s]
    BY <1>2, <2>1, <2>3
  <2>6. /\ P \in [Players -> PlayerRecords]
        /\ \A o \in Players : P[o].hp = w.players[o].hp /\ P[o].score = w.players[o].score
    <3> HIDE DEF tired
    <3>1. P \in [Players -> PlayerRecords] /\ P[p] = tired
      BY <2>3, <2>4
    <3>2. \A o \in Players \ {p} : P[o] = w.players[o]
      BY <2>3
    <3> HIDE DEF P
    <3> QED
      BY <2>4, <3>1, <3>2
  <2> HIDE DEF Q, P, tired
  <2>7. /\ r \in Worlds /\ r.frame = w.frame /\ r.next = w.next + 1 /\ r.players = P
        /\ r.projectiles = Q
    <3> DEFINE n == w.next + 1
    <3>1. n \in Nat
      BY <1>1
    <3>2. r = [w EXCEPT !.projectiles = Q, !.next = n, !.players = P]
      BY <2>2
    <3> HIDE DEF n
    <3>3. r = [ok |-> w.ok, frame |-> w.frame, players |-> P, projectiles |-> Q, next |-> n]
      BY <1>1, <3>2 DEF Worlds
    <3>4. w.ok \in BOOLEAN /\ w.frame \in Nat
      BY <1>1 DEF Worlds
    <3>5. Q \in [Slots -> ProjectileRecords] /\ P \in [Players -> PlayerRecords]
      BY <2>5, <2>6
    <3>6. r \in Worlds
      BY <3>1, <3>3, <3>4, <3>5 DEF Worlds
    <3> QED
      BY <3>3, <3>6 DEF n
  <2>8. ActiveIn(r) = ActiveIn(w) \union {m}
    BY <1>2, <2>1, <2>5, <2>7 DEF ActiveIn
  <2>9. \A s \in ActiveIn(w) : /\ s # m /\ s \in Slots
                               /\ w.projectiles[s].id < w.next /\ w.projectiles[s].id \in Nat
                               /\ InFlight(w.projectiles[s])
    BY <2>1, <2>3 DEF Fits, ActiveIn, ProjectileRecords
  <2>10. \A s \in ActiveIn(r) : \/ s = m /\ r.projectiles[s] = q
                                \/ s \in ActiveIn(w) /\ r.projectiles[s] = w.projectiles[s]
    BY <2>5, <2>7, <2>8, <2>9
  <2>11. \A s \in ActiveIn(r) : r.projectiles[s].id < r.next /\ InFlight(r.projectiles[s])
    <3> TAKE s \in ActiveIn(r)
    <3>1. CASE s = m
      <4>1. r.projectiles[s] = q
        BY <2>9, <2>10, <3>1
      <4> QED
        BY <1>1, <1>2, <2>7, <4>1
    <3>2. CASE s # m
      <4>1. s \in ActiveIn(w) /\ r.projectiles[s] = w.projectiles[s]
        BY <2>10, <3>2
      <4> QED
        BY <1>1, <2>7, <2>9, <4>1
    <3> QED
      BY <3>1, <3>2
  <2>12. Numbered(r)
    <3>1. \A s \in ActiveIn(r) : s # m =>
            s \in ActiveIn(w) /\ r.projectiles[s].id = w.projectiles[s].id
              /\ r.projectiles[s].id # w.next
      BY <1>1, <2>9, <2>10
    <3>2. r.projectiles[m].id = w.next
      BY <1>2, <2>5, <2>7
    <3>3. Numbered(w)
      BY DEF Fits
    <3> QED
      BY <3>1, <3>2, <3>3 DEF Numbered
  <2>13. Fits(r)
    BY <2>7, <2>11, <2>12 DEF Fits
  <2>14. Counted(w) => Counted(r)
    <3> HAVE Counted(w)
    <3> DEFINE before == HitsIn(w, "a") + HitsIn(w, "b")
               after == HitsIn(r, "a") + HitsIn(r, "b")
    <3>1. after = before
      BY <2>6, <2>7 DEF HitsIn, Players, Other
    <3>2. Cardinality(ActiveIn(r)) = Cardinality(ActiveIn(w)) + 1
      BY <1>1, <2>1, <2>8, ActiveFacts, FS_AddElement
    <3>3. before \in Int /\ Cardinality(ActiveIn(w)) \in Nat
      <4>1. \A o \in Players : /\ w.players[o].score * HitsToKill \in Int
                               /\ Wounds(w.players[o].hp) \in Int
        BY <1>1, CountIs, WoundsAre DEF Counted
      <4>2. before = (w.players["b"].score * HitsToKill + Wounds(w.players["a"].hp))
                + (w.players["a"].score * HitsToKill + Wounds(w.players["b"].hp))
        BY <1>1, CountIs
      <4>3. "a" \in Players /\ "b" \in Players
        BY DEF Players
      <4> HIDE DEF before
      <4> QED
        BY <1>1, <4>1, <4>2, <4>3, ActiveFacts
    <3>4. before + Cardinality(ActiveIn(w)) < w.next
      BY DEF Counted
    <3>5. \A o \in Players : HasWounds(r.players[o].hp)
      BY <2>6, <2>7 DEF Counted
    <3> HIDE DEF before, after
    <3>6. after + Cardinality(ActiveIn(r)) < r.next
      BY <1>1, <2>7, <3>1, <3>2, <3>3, <3>4
    <3> QED
      BY <3>5, <3>6 DEF Counted, after
  <2> QED
    BY <2>7, <2>13, <2>14 DEF Armed
<1> QED
  BY <1>4, <1>5, <1>6

(* An attack, or none. *)
LEMMA AttackKeeps ==
  ASSUME NEW w, Fits(w), NEW p \in Players, NEW buttons, NEW r, r = Attack(w, p, buttons)
  PROVE  Armed(w, r)
<1>1. r = w \/ r = SpawnProjectile(w, p)
  BY DEF Attack
<1>2. Armed(w, w)
  BY DEF Armed
<1> QED
  BY <1>1, <1>2, SpawnKeeps

-----------------------------------------------------------------------------
(* The order of flight *)

(* The projectiles shot before the n-th. *)
Below(w, n) == {s \in ActiveIn(w) : w.projectiles[s].id < n}

Orders(w, order, D) ==
  /\ order \in [1 .. Cardinality(D) -> D]
  /\ \A i, j \in DOMAIN order :
       i < j => w.projectiles[order[i]].id < w.projectiles[order[j]].id

(* Different ids can be put in order: from the oldest on. *)
LEMMA OrderExists ==
  ASSUME NEW w, Fits(w)
  PROVE  \E order : Orders(w, order, ActiveIn(w))
<1> DEFINE bad == {n \in Nat : ~ \E order : Orders(w, order, Below(w, n))}
<1>0. /\ w \in Worlds /\ w.next \in Nat
      /\ \A s \in ActiveIn(w) : s \in Slots /\ w.projectiles[s].id \in Nat
  BY DEF Fits, Worlds, ActiveIn, ProjectileRecords
<1> SUFFICES ASSUME bad # {}
             PROVE  FALSE
  <2>1. Below(w, w.next) = ActiveIn(w)
    BY DEF Below, Fits
  <2>2. w.next \notin bad
    OBVIOUS
  <2> QED
    BY <1>0, <2>1, <2>2
<1>1. PICK n \in bad : \A m \in bad : n <= m
  <2>1. bad \in SUBSET Nat
    OBVIOUS
  <2> HIDE DEF bad
  <2> QED
    BY <2>1, LeastNumber
<1>2. n \in Nat /\ ~ \E order : Orders(w, order, Below(w, n))
  OBVIOUS
<1>3. n # 0
  <2> SUFFICES ASSUME n = 0
               PROVE  FALSE
    OBVIOUS
  <2>1. Below(w, 0) = {}
    BY <1>0 DEF Below
  <2>2. Cardinality({}) = 0 /\ 1 .. 0 = {}
    BY FS_EmptySet
  <2> DEFINE none == [i \in {} |-> i]
  <2>3. Orders(w, none, {})
    BY <2>2 DEF Orders
  <2> QED
    BY <1>2, <2>1, <2>3
<1>4. n - 1 \in Nat /\ n - 1 \notin bad
  BY <1>1, <1>2, <1>3
<1>5. PICK o : Orders(w, o, Below(w, n - 1))
  BY <1>4
<1> DEFINE D == Below(w, n - 1)
           E == Below(w, n)
           c == Cardinality(D)
<1>6. IsFiniteSet(D) /\ c \in Nat
  <2>1. D \subseteq ActiveIn(w)
    BY DEF Below
  <2> QED
    BY <1>0, <2>1, ActiveFacts, FS_Subset, FS_CardinalityType
<1>7. PICK x \in ActiveIn(w) : w.projectiles[x].id = n - 1
  <2> SUFFICES ASSUME \A x \in ActiveIn(w) : w.projectiles[x].id # n - 1
               PROVE  FALSE
    OBVIOUS
  <2>1. Below(w, n) = Below(w, n - 1)
    BY <1>0, <1>2 DEF Below
  <2> QED
    BY <1>2, <1>5, <2>1
<1>8. E = D \union {x} /\ x \notin D /\ \A s \in D : w.projectiles[s].id < w.projectiles[x].id
  <2>1. \A s \in ActiveIn(w) : w.projectiles[s].id = n - 1 => s = x
    BY <1>7 DEF Fits, Numbered
  <2>2. \A s \in ActiveIn(w) :
          w.projectiles[s].id < n <=> w.projectiles[s].id < n - 1 \/ w.projectiles[s].id = n - 1
    BY <1>0, <1>2
  <2> QED
    BY <1>0, <1>7, <2>1, <2>2 DEF Below
<1>9. Cardinality(E) = c + 1
  <2> HIDE DEF D, E
  <2> QED
    BY <1>6, <1>8, FS_AddElement
<1>10. /\ o \in [1 .. c -> D]
       /\ \A i, j \in 1 .. c : i < j => w.projectiles[o[i]].id < w.projectiles[o[j]].id
  BY <1>5, <1>6 DEF Orders
<1> HIDE DEF D, E, c
<1> DEFINE r == [i \in 1 .. c + 1 |-> IF i = c + 1 THEN x ELSE o[i]]
<1>11. \A i \in 1 .. c + 1 : i = c + 1 \/ i \in 1 .. c
  BY <1>6
<1>12. r \in [1 .. c + 1 -> E]
  BY <1>8, <1>10, <1>11
<1>13. ASSUME NEW i \in 1 .. c + 1, NEW j \in 1 .. c + 1, i < j
       PROVE  w.projectiles[r[i]].id < w.projectiles[r[j]].id
  <2>1. i \in 1 .. c /\ i # c + 1
    BY <1>6, <1>13
  <2>2. r[i] = o[i] /\ o[i] \in D
    BY <1>10, <2>1
  <2>3. CASE j = c + 1
    <3>1. r[j] = x
      BY <2>3
    <3> HIDE DEF r
    <3> QED
      BY <1>8, <2>2, <3>1
  <2>4. CASE j # c + 1
    <3>1. j \in 1 .. c /\ r[j] = o[j]
      BY <1>11, <2>4
    <3> HIDE DEF r
    <3> QED
      BY <1>10, <1>13, <2>1, <2>2, <3>1
  <2> QED
    BY <2>3, <2>4
<1>14. Orders(w, r, E)
  <2> HIDE DEF r
  <2> QED
    BY <1>9, <1>12, <1>13 DEF Orders
<1> QED
  BY <1>2, <1>14 DEF E

(* The order of flight is a sequence of slots. *)
LEMMA FlightFacts ==
  ASSUME NEW w, Fits(w), NEW order, order = FlightOrder(w)
  PROVE  \E n \in Nat : DOMAIN order = 1 .. n /\ \A i \in 1 .. n : order[i] \in Slots
<1>1. \E o : Orders(w, o, ActiveIn(w))
  BY OrderExists
<1>2. Orders(w, order, ActiveIn(w))
  BY <1>1 DEF FlightOrder, Orders
<1>3. w \in Worlds
  BY DEF Fits
<1>4. Cardinality(ActiveIn(w)) \in Nat /\ ActiveIn(w) \subseteq Slots
  BY <1>3, ActiveFacts
<1> DEFINE n == Cardinality(ActiveIn(w))
<1>5. DOMAIN order = 1 .. n /\ \A i \in 1 .. n : order[i] \in Slots
  BY <1>2, <1>4 DEF Orders
<1> QED
  BY <1>4, <1>5

-----------------------------------------------------------------------------
(* The loops over the projectiles of a frame and over the frames of a      *)
(* replay are folds.  Turn is one turn of either, by a variant or for a    *)
(* replay.                                                                 *)

Turn(flying, by, x, y) == IF flying THEN Fly(x, y, by) ELSE Replayed(x, y, by)

(* The equation of the fold's recursive function, on the parts of D. *)
Unfolds(g, D, flying, by, base, s) ==
  g = [t \in SUBSET D |-> IF t = {} THEN base
                          ELSE Turn(flying, by, g[t \ {Max(t)}], s[Max(t)])]

Folded(flying, by, base, s) ==
  LET g == CHOOSE g : Unfolds(g, DOMAIN s, flying, by, base, s) IN g[DOMAIN s]

(* The largest of some numbers up to m, if m is one of them. *)
LEMMA LargestIs ==
  ASSUME NEW m \in Nat, NEW t \in SUBSET (1 .. m), m \in t
  PROVE  Max(t) = m
<1>1. \A y \in t : m >= y
  OBVIOUS
<1>2. \A x \in t : (\A y \in t : x >= y) => x = m
  OBVIOUS
<1> QED
  BY <1>1, <1>2 DEF Max

(* There is such a function: one for the first m - 1 goes one further. *)
LEMMA FoldExists ==
  ASSUME NEW n \in Nat, NEW flying, NEW by, NEW base, NEW s
  PROVE  \E g : Unfolds(g, 1 .. n, flying, by, base, s)
<1> DEFINE bad == {m \in Nat : ~ \E g : Unfolds(g, 1 .. m, flying, by, base, s)}
<1> SUFFICES ASSUME bad # {}
             PROVE  FALSE
  OBVIOUS
<1>1. PICK m \in bad : \A i \in bad : m <= i
  <2>1. bad \in SUBSET Nat
    OBVIOUS
  <2> HIDE DEF bad
  <2> QED
    BY <2>1, LeastNumber
<1>2. m \in Nat /\ ~ \E g : Unfolds(g, 1 .. m, flying, by, base, s)
  OBVIOUS
<1>3. m # 0
  <2> SUFFICES ASSUME m = 0
               PROVE  FALSE
    OBVIOUS
  <2>1. SUBSET (1 .. 0) = {{}}
    OBVIOUS
  <2> DEFINE g == [t \in SUBSET (1 .. 0) |-> base]
  <2>2. g = [t \in SUBSET (1 .. 0) |-> IF t = {} THEN base
                                  ELSE Turn(flying, by, g[t \ {Max(t)}], s[Max(t)])]
    BY <2>1
  <2>3. Unfolds(g, 1 .. 0, flying, by, base, s)
    BY <2>2 DEF Unfolds
  <2> QED
    BY <1>2, <2>3
<1>4. m - 1 \in Nat /\ m - 1 \notin bad
  BY <1>1, <1>2, <1>3
<1>5. PICK g : Unfolds(g, 1 .. m - 1, flying, by, base, s)
  BY <1>4
<1> DEFINE Continued(f, t) == Turn(flying, by, f[t \ {Max(t)}], s[Max(t)])
           rule(f, t) == IF t = {} THEN base ELSE Continued(f, t)
           h == [t \in SUBSET (1 .. m) |-> IF m \in t THEN Continued(g, t) ELSE g[t]]
<1>6. g = [t \in SUBSET (1 .. m - 1) |-> rule(g, t)]
  BY <1>5 DEF Unfolds
<1> HIDE DEF Continued
<1>7. \A t \in SUBSET (1 .. m) : m \notin t => t \in SUBSET (1 .. m - 1)
  BY <1>2
<1>8. \A t \in SUBSET (1 .. m) : m \notin t => h[t] = g[t]
  OBVIOUS
<1>9. \A t \in SUBSET (1 .. m) : t # {} => Continued(h, t) = Continued(g, t)
  <2> TAKE t \in SUBSET (1 .. m)
  <2> HAVE t # {}
  <2>1. m \notin t \ {Max(t)}
    BY <1>2, LargestIs
  <2>2. h[t \ {Max(t)}] = g[t \ {Max(t)}]
    BY <1>8, <2>1
  <2> HIDE DEF h
  <2> QED
    BY <2>2 DEF Continued
<1>10. \A t \in SUBSET (1 .. m) : h[t] = rule(h, t)
  <2> TAKE t \in SUBSET (1 .. m)
  <2>1. CASE m \in t
    <3>1. h[t] = Continued(g, t) /\ t # {}
      BY <2>1
    <3> HIDE DEF h
    <3> QED
      BY <1>9, <3>1
  <2>2. CASE m \notin t
    <3>1. h[t] = g[t] /\ t \in SUBSET (1 .. m - 1)
      BY <1>7, <1>8, <2>2
    <3>2. g[t] = rule(g, t)
      BY <1>6, <3>1
    <3> HIDE DEF h
    <3> QED
      BY <1>9, <3>1, <3>2
  <2> QED
    BY <2>1, <2>2
<1>11. h = [t \in SUBSET (1 .. m) |-> rule(h, t)]
  <2>1. h = [t \in SUBSET (1 .. m) |-> h[t]]
    OBVIOUS
  <2> HIDE DEF h
  <2>2. [t \in SUBSET (1 .. m) |-> h[t]] = [t \in SUBSET (1 .. m) |-> rule(h, t)]
    <3> HIDE DEF rule
    <3> QED
      BY <1>10
  <2> QED
    BY <2>1, <2>2
<1>12. Unfolds(h, 1 .. m, flying, by, base, s)
  <2> HIDE DEF h
  <2> QED
    BY <1>11 DEF Unfolds, Continued
<1> QED
  BY <1>2, <1>12

(* v[k] is where the fold is after its first k turns. *)
Runs(v, n, flying, by, base, s) ==
  /\ v[0] = base
  /\ \A k \in 1 .. n : v[k] = Turn(flying, by, v[k - 1], s[k])
  /\ Folded(flying, by, base, s) = v[n]

(* A fold over a sequence takes its elements one after the other. *)
LEMMA FoldRuns ==
  ASSUME NEW n \in Nat, NEW s, DOMAIN s = 1 .. n, NEW flying, NEW by, NEW base
  PROVE  \E v : Runs(v, n, flying, by, base, s)
<1> DEFINE g == CHOOSE g : Unfolds(g, 1 .. n, flying, by, base, s)
           v == [k \in 0 .. n |-> g[1 .. k]]
<1>1. Unfolds(g, 1 .. n, flying, by, base, s)
  BY FoldExists
<1>2. Folded(flying, by, base, s) = g[1 .. n]
  BY DEF Folded
<1> HIDE DEF g
<1>3. \A t \in SUBSET (1 .. n) :
        g[t] = IF t = {} THEN base ELSE Turn(flying, by, g[t \ {Max(t)}], s[Max(t)])
  BY <1>1 DEF Unfolds
<1>4. v[0] = base
  <2>1. 1 .. 0 = {} /\ 0 \in 0 .. n
    OBVIOUS
  <2> QED
    BY <1>3, <2>1
<1>5. ASSUME NEW k \in 1 .. n
      PROVE  v[k] = Turn(flying, by, v[k - 1], s[k])
  <2>1. /\ 1 .. k \in SUBSET (1 .. n) /\ k \in 1 .. k /\ k \in Nat
        /\ k \in 0 .. n /\ k - 1 \in 0 .. n
    OBVIOUS
  <2>2. Max(1 .. k) = k
    BY <2>1, LargestIs
  <2>3. (1 .. k) \ {k} = 1 .. k - 1
    BY <2>1
  <2>4. g[1 .. k] = Turn(flying, by, g[1 .. k - 1], s[k])
    BY <1>3, <2>1, <2>2, <2>3
  <2> QED
    BY <2>1, <2>4
<1>6. v[n] = g[1 .. n]
  OBVIOUS
<1> HIDE DEF v
<1> QED
  BY <1>2, <1>4, <1>5, <1>6 DEF Runs

(* The two loops are such folds. *)
LEMMA LoopsAreFolds ==
  /\ \A w, inputs, variant :
       SimulateFrame(w, inputs, variant)
         = LET moved == [w EXCEPT !.players = [p \in Players |-> Moved(@[p], inputs.buttons[p])]]
               armed == Attack(Attack(moved, "a", inputs.buttons["a"]), "b", inputs.buttons["b"])
               flown == Folded(TRUE, variant, armed, FlightOrder(armed))
           IN  IF w.frame # inputs.frame \/ ~ armed.ok THEN [w EXCEPT !.ok = FALSE]
               ELSE [flown EXCEPT !.frame = inputs.frame + 1]
  /\ \A r : PlayAgain(r) = Folded(FALSE, r, [world |-> InitialWorld, cursor |-> 1, failed |-> FALSE],
                                  [i \in 1 .. r.final |-> i])
<1>1. ASSUME NEW s, NEW base, NEW variant
      PROVE  MapThenFoldSet(LAMBDA x, y : Fly(y, x, variant), base, LAMBDA i : s[i],
                            LAMBDA S : Max(S), DOMAIN s)
               = Folded(TRUE, variant, base, s)
  BY DEF MapThenFoldSet, Folded, Unfolds, Turn
<1>2. ASSUME NEW s, NEW base, NEW r
      PROVE  MapThenFoldSet(LAMBDA x, y : Replayed(y, x, r), base, LAMBDA i : s[i],
                            LAMBDA S : Max(S), DOMAIN s)
               = Folded(FALSE, r, base, s)
  BY DEF MapThenFoldSet, Folded, Unfolds, Turn
<1>3. ASSUME NEW w, NEW inputs, NEW variant
      PROVE  SimulateFrame(w, inputs, variant)
         = LET moved == [w EXCEPT !.players = [p \in Players |-> Moved(@[p], inputs.buttons[p])]]
               armed == Attack(Attack(moved, "a", inputs.buttons["a"]), "b", inputs.buttons["b"])
               flown == Folded(TRUE, variant, armed, FlightOrder(armed))
           IN  IF w.frame # inputs.frame \/ ~ armed.ok THEN [w EXCEPT !.ok = FALSE]
               ELSE [flown EXCEPT !.frame = inputs.frame + 1]
  BY <1>1 DEF SimulateFrame, FoldLeft
<1>4. ASSUME NEW r
      PROVE  PlayAgain(r)
               = Folded(FALSE, r, [world |-> InitialWorld, cursor |-> 1, failed |-> FALSE],
                        [i \in 1 .. r.final |-> i])
  BY <1>2 DEF PlayAgain, FoldLeft
<1> QED
  BY <1>3, <1>4

(* The flights of a frame. *)
LEMMA FlightsKeep ==
  ASSUME NEW w, Fits(w), NEW variant, NEW r, r = Folded(TRUE, variant, w, FlightOrder(w))
  PROVE  Kept(w, r, variant)
<1> DEFINE order == FlightOrder(w)
<1>1. PICK n \in Nat : DOMAIN order = 1 .. n /\ \A i \in 1 .. n : order[i] \in Slots
  BY FlightFacts
<1> HIDE DEF order
<1>2. PICK v : Runs(v, n, TRUE, variant, w, order)
  BY <1>1, FoldRuns
<1>3. /\ v[0] = w
      /\ \A k \in 1 .. n : v[k] = Fly(v[k - 1], order[k], variant)
      /\ r = v[n]
  BY <1>2 DEF Runs, Turn, order
<1> DEFINE bad == {k \in 0 .. n : ~ Kept(w, v[k], variant)}
<1>4. bad = {}
  <2> SUFFICES ASSUME bad # {}
               PROVE  FALSE
    OBVIOUS
  <2>1. PICK k \in bad : \A m \in bad : k <= m
    <3>1. bad \in SUBSET Nat
      OBVIOUS
    <3> HIDE DEF bad
    <3> QED
      BY <3>1, LeastNumber
  <2>2. k \in 0 .. n /\ ~ Kept(w, v[k], variant)
    OBVIOUS
  <2>3. k # 0
    BY <1>3, <2>2 DEF Kept
  <2>4. k - 1 \in 0 .. n /\ k \in 1 .. n /\ k - 1 \notin bad
    BY <2>1, <2>2, <2>3
  <2>5. Kept(w, v[k - 1], variant)
    BY <2>4
  <2>6. Kept(v[k - 1], v[k], variant)
    BY <1>1, <1>3, <2>4, <2>5, FlyKeeps DEF Kept
  <2> QED
    BY <2>2, <2>5, <2>6 DEF Kept
<1>5. n \in 0 .. n
  OBVIOUS
<1> QED
  BY <1>3, <1>4, <1>5

(* What a frame that succeeds makes of a world. *)
Follows(w, inputs, variant, r) ==
  /\ Fits(r) /\ w.frame = inputs.frame /\ r.frame = w.frame + 1
  /\ variant = "canonical" /\ Counted(w) => Counted(r)

(* A frame. *)
LEMMA FrameKeeps ==
  ASSUME NEW w, Fits(w), w.ok, NEW inputs, NEW variant, NEW r, r = SimulateFrame(w, inputs, variant)
  PROVE  r.ok => Follows(w, inputs, variant, r)
<1> DEFINE P == [p \in Players |-> Moved(w.players[p], inputs.buttons[p])]
           moved == [w EXCEPT !.players = P]
           first == Attack(moved, "a", inputs.buttons["a"])
           armed == Attack(first, "b", inputs.buttons["b"])
           flown == Folded(TRUE, variant, armed, FlightOrder(armed))
<1>1. r = IF w.frame # inputs.frame \/ ~ armed.ok THEN [w EXCEPT !.ok = FALSE]
          ELSE [flown EXCEPT !.frame = inputs.frame + 1]
  BY LoopsAreFolds
<1> HIDE DEF P
<1>2. w \in Worlds
  BY DEF Fits
<1>3. Armed(w, moved)
  <2>1. \A p \in Players : w.players[p] \in PlayerRecords
    BY <1>2 DEF Worlds
  <2>2. \A p \in Players : /\ P[p] \in PlayerRecords /\ P[p].hp = w.players[p].hp
                           /\ P[p].score = w.players[p].score
    BY <2>1, MovedFits DEF P
  <2>3. P \in [Players -> PlayerRecords]
    BY <2>2 DEF P
  <2>4. /\ moved \in Worlds /\ moved.frame = w.frame /\ moved.next = w.next /\ moved.players = P
        /\ moved.projectiles = w.projectiles
    BY <1>2, <2>3 DEF Worlds
  <2> HIDE DEF moved
  <2>5. ActiveIn(moved) = ActiveIn(w)
    BY <2>4 DEF ActiveIn
  <2>6. Fits(moved)
    BY <2>4, <2>5 DEF Fits, Numbered
  <2>7. Counted(w) => Counted(moved)
    <3> HAVE Counted(w)
    <3>1. \A p \in Players : HasWounds(moved.players[p].hp)
      BY <2>2, <2>4 DEF Counted
    <3>2. HitsIn(moved, "a") = HitsIn(w, "a") /\ HitsIn(moved, "b") = HitsIn(w, "b")
      BY <2>2, <2>4 DEF HitsIn, Other, Players
    <3> QED
      BY <2>4, <2>5, <3>1, <3>2 DEF Counted
  <2> QED
    BY <2>4, <2>6, <2>7 DEF Armed
<1> HIDE DEF moved
<1>4. "a" \in Players /\ "b" \in Players
  BY DEF Players
<1>5. Armed(moved, first)
  BY <1>3, <1>4, AttackKeeps DEF Armed
<1> HIDE DEF first
<1>6. Armed(first, armed)
  BY <1>4, <1>5, AttackKeeps DEF Armed
<1> HIDE DEF armed
<1>7. Kept(armed, flown, variant)
  BY <1>6, FlightsKeep DEF Armed
<1> HIDE DEF flown
<1> HAVE r.ok
<1>8. r = [flown EXCEPT !.frame = inputs.frame + 1] /\ w.frame = inputs.frame
  <2> SUFFICES ASSUME r = [w EXCEPT !.ok = FALSE]
               PROVE  FALSE
    BY <1>1
  <2>1. r.ok = FALSE
    BY <1>2 DEF Worlds
  <2> QED
    BY <2>1
<1>9. flown \in Worlds /\ w.frame \in Nat
  BY <1>2, <1>7 DEF Kept, Fits, Worlds
<1>10. /\ r \in Worlds /\ r.frame = w.frame + 1 /\ r.next = flown.next
       /\ r.players = flown.players /\ r.projectiles = flown.projectiles
  <2> DEFINE n == w.frame + 1
  <2>1. n \in Nat /\ r = [flown EXCEPT !.frame = n]
    BY <1>8, <1>9
  <2> HIDE DEF n
  <2>2. r = [ok |-> flown.ok, frame |-> n, players |-> flown.players,
             projectiles |-> flown.projectiles, next |-> flown.next]
    BY <1>9, <2>1 DEF Worlds
  <2> QED
    BY <1>9, <2>1, <2>2 DEF Worlds, n
<1>11. ActiveIn(r) = ActiveIn(flown)
  BY <1>10 DEF ActiveIn
<1>12. Fits(r)
  BY <1>7, <1>10, <1>11 DEF Kept, Fits, Numbered
<1>13. Counted(flown) => Counted(r)
  <2>1. flown \in Worlds /\ r \in Worlds
    BY <1>9, <1>10
  <2> QED
    BY <1>10, <1>11, <2>1, FewerCount
<1>14. variant = "canonical" /\ Counted(w) => Counted(flown)
  BY <1>3, <1>5, <1>6, <1>7 DEF Armed, Kept
<1> QED
  BY <1>8, <1>10, <1>12, <1>13, <1>14 DEF Follows

(* The world before the first frame. *)
LEMMA InitialFits ==
  Fits(InitialWorld) /\ Counted(InitialWorld) /\ InitialWorld.ok /\ InitialWorld.frame = 0
<1> DEFINE w == InitialWorld
           P == [p \in Players |-> Spawned(p)]
           Q == [s \in Slots |-> NoProjectile]
<1>1. w = [ok |-> TRUE, frame |-> 0, players |-> P, projectiles |-> Q, next |-> 1]
  BY DEF InitialWorld
<1>2. P \in [Players -> PlayerRecords]
      /\ \A p \in Players : P[p].hp = StartingHp /\ P[p].score = 0
  BY SpawnedFits
<1>3. Q \in [Slots -> ProjectileRecords] /\ \A s \in Slots : Q[s].active = FALSE
  BY DEF NoProjectile, ProjectileRecords, Players
<1> HIDE DEF w, P, Q
<1>4. /\ w \in Worlds /\ w.ok /\ w.frame = 0 /\ w.next = 1 /\ w.players = P
      /\ w.projectiles = Q
  BY <1>1, <1>2, <1>3 DEF Worlds
<1>5. ActiveIn(w) = {}
  BY <1>3, <1>4 DEF ActiveIn
<1>6. Fits(w)
  BY <1>4, <1>5 DEF Fits, Numbered
<1>7. HitsIn(w, "a") = 0 /\ HitsIn(w, "b") = 0
  BY <1>2, <1>4, WoundsAre DEF HitsIn, Other, Players
<1>8. Cardinality(ActiveIn(w)) = 0
  BY <1>5, FS_EmptySet
<1>9. Counted(w)
  BY <1>2, <1>4, <1>7, <1>8, WoundsAre DEF Counted
<1> QED
  BY <1>4, <1>6, <1>9 DEF w

-----------------------------------------------------------------------------
(* Replays *)

InputRecords == [frame : Int, buttons : [Players -> SUBSET (AllButtons \union {"illegal"})]]

CheckpointRecords == [frame : Int, hash : Worlds]

Replays ==
  [version : {"current"}, variant : {"canonical"}, final : Nat, inputs : Seq(InputRecords),
   checkpoints : Seq(CheckpointRecords), hash : Worlds]

(* h are the worlds of the first n frames of a replay. *)
Plays(h, n, r) ==
  /\ h[0] = InitialWorld
  /\ \A k \in 1 .. n : h[k] = SimulateFrame(h[k - 1], r.inputs[k], r.variant)
  /\ \A k \in 0 .. n : Fits(h[k]) /\ h[k].ok /\ h[k].frame = k

InputsInTurn(r, n) ==
  /\ Len(r.inputs) = n
  /\ \A i \in 1 .. n : /\ r.inputs[i].frame = i - 1
                       /\ \A p \in Players : r.inputs[i].buttons[p] \subseteq AllButtons

CheckpointsInTurn(r, n) ==
  /\ \A i \in 1 .. Len(r.checkpoints) : r.checkpoints[i].frame \in 1 .. n
  /\ \A i, j \in 1 .. Len(r.checkpoints) :
       i < j => r.checkpoints[i].frame < r.checkpoints[j].frame
  /\ n = r.final /\ n > 0 => Len(r.checkpoints) > 0

(* The checkpoints are of these worlds. *)
Checked(h, r) ==
  \A i \in 1 .. Len(r.checkpoints) : r.checkpoints[i].hash = h[r.checkpoints[i].frame]

(* A replay in the making, of a game that has come to the world w. *)
Recorded(r, w) ==
  /\ r \in Replays /\ Fits(w) /\ Counted(w) /\ w.ok /\ w.frame <= r.final
  /\ InputsInTurn(r, w.frame) /\ CheckpointsInTurn(r, w.frame)
  /\ \E h : Plays(h, w.frame, r) /\ h[w.frame] = w /\ Checked(h, r)

(* t is r with the next inputs, and the checkpoint of the world they made  *)
(* if it has one.                                                          *)
Grown(t, r, inputs, played) ==
  LET recorded == [r EXCEPT !.inputs = Append(@, inputs)]
      checkpoint == [frame |-> played.frame, hash |-> played]
  IN \/ t = recorded /\ played.frame # r.final
     \/ t = [recorded EXCEPT !.checkpoints = Append(@, checkpoint)]

(* The next frame is recorded. *)
LEMMA RecordedFurther ==
  ASSUME NEW r, NEW w, Recorded(r, w), w.frame < r.final,
         NEW buttons \in [Players -> SUBSET AllButtons],
         NEW inputs, inputs = [frame |-> w.frame, buttons |-> buttons],
         NEW played, played = SimulateFrame(w, inputs, "canonical"), played.ok,
         NEW t, Grown(t, r, inputs, played)
  PROVE  Recorded(t, played) /\ t.final = r.final
<1> SUFFICES ASSUME NEW recorded, recorded = [r EXCEPT !.inputs = Append(@, inputs)],
                    NEW checkpoint, checkpoint = [frame |-> played.frame, hash |-> played],
                    \/ t = recorded /\ played.frame # r.final
                    \/ t = [recorded EXCEPT !.checkpoints = Append(@, checkpoint)]
             PROVE  Recorded(t, played) /\ t.final = r.final
  BY DEF Grown
<1> DEFINE n == w.frame
           cs == r.checkpoints
           m == Len(cs)
<1>1. Follows(w, inputs, "canonical", played)
  BY FrameKeeps DEF Recorded
<1>2. n \in Nat /\ r \in Replays /\ r.final \in Nat /\ Fits(played) /\ played.frame = n + 1 /\ Counted(played)
  BY <1>1 DEF Recorded, Follows, Fits, Worlds, Replays
<1>3. inputs \in InputRecords
  <2>1. buttons \in [Players -> SUBSET (AllButtons \union {"illegal"})]
    <3>1. \A p \in Players : buttons[p] \in SUBSET (AllButtons \union {"illegal"})
      OBVIOUS
    <3> QED
      BY <3>1
  <2> QED
    BY <1>2, <2>1 DEF InputRecords
<1>4. checkpoint \in CheckpointRecords
  BY <1>2 DEF CheckpointRecords, Fits
<1>5. r.inputs \in Seq(InputRecords) /\ cs \in Seq(CheckpointRecords) /\ m \in Nat
  BY <1>2 DEF Replays
<1>6. recorded \in Replays /\ recorded.inputs = Append(r.inputs, inputs) /\ recorded.checkpoints = cs
      /\ recorded.final = r.final /\ recorded.variant = "canonical" /\ r.variant = "canonical"
  <2> DEFINE all == Append(r.inputs, inputs)
  <2>1. all \in Seq(InputRecords)
    BY <1>3, <1>5
  <2>2. recorded = [r EXCEPT !.inputs = all]
    OBVIOUS
  <2> HIDE DEF all
  <2> QED
    BY <1>2, <2>1, <2>2 DEF Replays, all
<1>7. t \in Replays /\ t.inputs = Append(r.inputs, inputs) /\ t.final = r.final
      /\ t.variant = r.variant /\ (t.checkpoints = cs \/ t.checkpoints = Append(cs, checkpoint))
      /\ (n + 1 = r.final => t.checkpoints = Append(cs, checkpoint))
  <2>1. CASE t = recorded /\ played.frame # r.final
    BY <1>2, <1>6, <2>1
  <2>2. CASE t = [recorded EXCEPT !.checkpoints = Append(@, checkpoint)]
    <3> DEFINE all == Append(cs, checkpoint)
    <3>1. all \in Seq(CheckpointRecords)
      BY <1>4, <1>5
    <3>2. t = [recorded EXCEPT !.checkpoints = all]
      BY <1>6, <2>2
    <3> HIDE DEF all
    <3>3. /\ t \in Replays /\ t.inputs = recorded.inputs /\ t.final = recorded.final
          /\ t.variant = recorded.variant /\ t.checkpoints = all
      BY <1>6, <3>1, <3>2 DEF Replays
    <3> QED
      BY <1>6, <3>3 DEF all
  <2> QED
    BY <2>1, <2>2
<1>8. /\ Len(r.inputs) = n /\ Len(t.inputs) = n + 1 /\ t.inputs[n + 1] = inputs
      /\ \A i \in 1 .. n : t.inputs[i] = r.inputs[i]
  <2>1. Len(r.inputs) = n
    BY DEF Recorded, InputsInTurn
  <2> QED
    BY <1>2, <1>3, <1>5, <1>7, <2>1
<1>9. \A i \in 1 .. n + 1 : i \in 1 .. n \/ i = n + 1
  BY <1>2
<1>10. InputsInTurn(t, n + 1)
  <2>1. /\ inputs.frame = n + 1 - 1
        /\ \A p \in Players : inputs.buttons[p] \subseteq AllButtons
    BY <1>2
  <2>2. \A i \in 1 .. n : /\ r.inputs[i].frame = i - 1
                          /\ \A p \in Players : r.inputs[i].buttons[p] \subseteq AllButtons
    BY DEF Recorded, InputsInTurn
  <2> HIDE DEF n
  <2>3. ASSUME NEW i \in 1 .. n + 1
        PROVE  /\ t.inputs[i].frame = i - 1
               /\ \A p \in Players : t.inputs[i].buttons[p] \subseteq AllButtons
    <3>1. CASE i \in 1 .. n
      BY <1>8, <2>2, <3>1
    <3>2. CASE i = n + 1
      BY <1>8, <2>1, <3>2
    <3> QED
      BY <1>9, <3>1, <3>2
  <2> QED
    BY <1>8, <2>3 DEF InputsInTurn
<1>11. /\ Len(t.checkpoints) \in Nat
       /\ \A i \in 1 .. Len(t.checkpoints) :
            \/ i \in 1 .. m /\ t.checkpoints[i] = cs[i]
            \/ i = m + 1 /\ t.checkpoints[i] = checkpoint
       /\ n + 1 = r.final => Len(t.checkpoints) > 0
  <2>1. CASE t.checkpoints = Append(cs, checkpoint)
    BY <1>4, <1>5, <2>1
  <2>2. CASE t.checkpoints = cs /\ n + 1 # r.final
    BY <1>5, <2>2
  <2> QED
    BY <1>7, <2>1, <2>2
<1>12. /\ \A i \in 1 .. m : cs[i].frame \in 1 .. n
       /\ \A i, j \in 1 .. m : i < j => cs[i].frame < cs[j].frame
  BY DEF Recorded, CheckpointsInTurn
<1>13. checkpoint.frame = n + 1
  BY <1>2
<1>14. CheckpointsInTurn(t, n + 1)
  <2> HIDE DEF n, cs, m
  <2>1. \A i \in 1 .. Len(t.checkpoints) : t.checkpoints[i].frame \in 1 .. n + 1
    <3> TAKE i \in 1 .. Len(t.checkpoints)
    <3>1. CASE i \in 1 .. m /\ t.checkpoints[i] = cs[i]
      <4>1. cs[i].frame \in 1 .. n
        BY <1>12, <3>1
      <4> QED
        BY <1>2, <3>1, <4>1
    <3>2. CASE t.checkpoints[i] = checkpoint
      BY <1>2, <1>13, <3>2
    <3> QED
      BY <1>11, <3>1, <3>2
  <2>2. ASSUME NEW i \in 1 .. Len(t.checkpoints), NEW j \in 1 .. Len(t.checkpoints), i < j
        PROVE  t.checkpoints[i].frame < t.checkpoints[j].frame
    <3>1. i \in 1 .. m /\ t.checkpoints[i] = cs[i]
      BY <1>5, <1>11, <2>2
    <3>2. CASE j \in 1 .. m /\ t.checkpoints[j] = cs[j]
      BY <1>12, <2>2, <3>1, <3>2
    <3>3. CASE t.checkpoints[j] = checkpoint
      <4>1. cs[i].frame \in 1 .. n
        BY <1>12, <3>1
      <4> QED
        BY <1>2, <1>13, <3>1, <3>3, <4>1
    <3> QED
      BY <1>11, <3>2, <3>3
  <2> QED
    BY <1>7, <1>11, <2>1, <2>2 DEF CheckpointsInTurn
<1>0. PICK h : Plays(h, n, r) /\ h[n] = w /\ Checked(h, r)
  BY DEF Recorded
<1> DEFINE g == [k \in 0 .. n + 1 |-> IF k = n + 1 THEN played ELSE h[k]]
<1>16. g[n + 1] = played /\ \A k \in 0 .. n : g[k] = h[k]
  BY <1>2
<1> HIDE DEF g
<1>17. Plays(g, n + 1, t)
  <2>1. /\ h[0] = InitialWorld
        /\ \A k \in 1 .. n : h[k] = SimulateFrame(h[k - 1], r.inputs[k], r.variant)
        /\ \A k \in 0 .. n : Fits(h[k]) /\ h[k].ok /\ h[k].frame = k
    BY <1>0 DEF Plays
  <2>2. g[n + 1] = SimulateFrame(g[n + 1 - 1], t.inputs[n + 1], t.variant)
    <3>1. g[n + 1 - 1] = w
      BY <1>2, <1>0, <1>16
    <3> QED
      BY <1>6, <1>7, <1>8, <1>16, <3>1
  <2>3. \A k \in 1 .. n : g[k] = SimulateFrame(g[k - 1], t.inputs[k], t.variant)
    <3> TAKE k \in 1 .. n
    <3>1. k - 1 \in 0 .. n /\ k \in 0 .. n
      BY <1>2
    <3>2. g[k - 1] = h[k - 1] /\ g[k] = h[k] /\ t.inputs[k] = r.inputs[k] /\ t.variant = r.variant
      BY <1>7, <1>8, <1>16, <3>1
    <3> QED
      BY <2>1, <3>2
  <2>4. Fits(g[n + 1]) /\ g[n + 1].ok /\ g[n + 1].frame = n + 1
    BY <1>2, <1>16
  <2>5. \A k \in 0 .. n : Fits(g[k]) /\ g[k].ok /\ g[k].frame = k
    BY <1>16, <2>1
  <2>6. g[0] = InitialWorld
    <3>1. 0 \in 0 .. n
      BY <1>2
    <3> QED
      BY <1>16, <2>1, <3>1
  <2>7. \A k \in 0 .. n + 1 : k \in 0 .. n \/ k = n + 1
    BY <1>2
  <2>8. \A k \in 1 .. n + 1 : g[k] = SimulateFrame(g[k - 1], t.inputs[k], t.variant)
    <3> HIDE DEF n
    <3> TAKE k \in 1 .. n + 1
    <3>1. CASE k \in 1 .. n
      BY <2>3, <3>1
    <3>2. CASE k = n + 1
      <4>1. k - 1 = n + 1 - 1
        BY <1>2, <3>2
      <4> QED
        BY <2>2, <3>2, <4>1, Zenon
    <3> QED
      BY <1>9, <3>1, <3>2
  <2>9. \A k \in 0 .. n + 1 : Fits(g[k]) /\ g[k].ok /\ g[k].frame = k
    <3> HIDE DEF n
    <3> TAKE k \in 0 .. n + 1
    <3>1. CASE k \in 0 .. n
      BY <2>5, <3>1
    <3>2. CASE k = n + 1
      BY <2>4, <3>2
    <3> QED
      BY <2>7, <3>1, <3>2
  <2> QED
    BY <2>6, <2>8, <2>9 DEF Plays
<1>18. Checked(g, t)
  <2>1. \A i \in 1 .. m : cs[i].hash = h[cs[i].frame] /\ cs[i].frame \in 0 .. n
    BY <1>2, <1>12, <1>0 DEF Checked
  <2>2. checkpoint.hash = g[checkpoint.frame]
    BY <1>13, <1>16
  <2> HIDE DEF n, cs, m
  <2>3. \A i \in 1 .. m : cs[i].hash = g[cs[i].frame]
    BY <1>16, <2>1
  <2> QED
    BY <1>11, <2>2, <2>3 DEF Checked
<1>19. n + 1 <= t.final
  BY <1>2, <1>7
<1> QED
  BY <1>2, <1>7, <1>10, <1>14, <1>16, <1>17, <1>18, <1>19 DEF Recorded

-----------------------------------------------------------------------------
(* Verification *)

Start == [world |-> InitialWorld, cursor |-> 1, failed |-> FALSE]

(* v are the states in which the verification of r is, frame by frame. *)
Watches(v, r) ==
  /\ v[0] = Start
  /\ \A k \in 1 .. r.final : v[k] = Replayed(v[k - 1], k, r)
  /\ PlayAgain(r) = v[r.final]

(* Every replay can be watched. *)
LEMMA ReplayRuns ==
  ASSUME NEW r, r.final \in Nat
  PROVE  \E v : Watches(v, r)
<1> DEFINE n == r.final
           s == [i \in 1 .. n |-> i]
<1>1. n \in Nat /\ DOMAIN s = 1 .. n /\ \A i \in 1 .. n : s[i] = i
  OBVIOUS
<1>2. PlayAgain(r) = Folded(FALSE, r, Start, s)
  BY LoopsAreFolds DEF Start
<1> HIDE DEF s
<1>3. PICK v : Runs(v, n, FALSE, r, Start, s)
  BY <1>1, FoldRuns
<1>4. Watches(v, r)
  BY <1>1, <1>2, <1>3 DEF Runs, Turn, Watches
<1> QED
  BY <1>4

(* The verification has seen the checkpoints up to frame k, and no other. *)
OnTrack(s, w, k, r) ==
  /\ ~ s.failed /\ s.world = w /\ s.cursor \in 1 .. Len(r.checkpoints) + 1
  /\ \A j \in 1 .. Len(r.checkpoints) : j < s.cursor <=> r.checkpoints[j].frame <= k

(* It stays so with the next frame of a replay as it was recorded. *)
LEMMA TrackIsKept ==
  ASSUME NEW n \in Nat, NEW k \in 1 .. n, NEW r, r \in Replays, NEW h, Plays(h, n, r),
         InputsInTurn(r, n), CheckpointsInTurn(r, n), Checked(h, r),
         NEW s, OnTrack(s, h[k - 1], k - 1, r), NEW t, t = Replayed(s, k, r)
  PROVE  OnTrack(t, h[k], k, r)
<1> DEFINE cs == r.checkpoints
           L == Len(cs)
           c == s.cursor
           due == c <= L /\ cs[c].frame = k
<1>1. L \in Nat /\ c \in 1 .. L + 1 /\ ~ s.failed /\ s.world = h[k - 1]
  BY DEF Replays, OnTrack
<1>2. h[k] = SimulateFrame(h[k - 1], r.inputs[k], r.variant) /\ h[k].ok /\ h[k].frame = k
  <2>1. k \in 0 .. n
    OBVIOUS
  <2> QED
    BY <2>1 DEF Plays
<1>3. r.inputs[k].frame = k - 1
  BY DEF InputsInTurn
<1>4. /\ \A i \in 1 .. L : cs[i].frame \in 1 .. n
      /\ \A i, j \in 1 .. L : i < j => cs[i].frame < cs[j].frame
  BY DEF CheckpointsInTurn
<1>5. \A i \in 1 .. L : cs[i].hash = h[cs[i].frame]
  BY DEF Checked
<1>6. \A j \in 1 .. L : j < c <=> cs[j].frame <= k - 1
  BY DEF OnTrack
<1>7. t = [world |-> h[k], cursor |-> IF due THEN c + 1 ELSE c,
           failed |-> ~ (due => cs[c].hash = h[k])]
  <2> DEFINE x == SimulateFrame(s.world, r.inputs[k], r.variant)
  <2>1. x = h[k]
    BY <1>1, <1>2
  <2>2. t = [world |-> x,
             cursor |-> IF c <= L /\ cs[c].frame = x.frame THEN c + 1 ELSE c,
             failed |-> \/ r.inputs[k].frame # k - 1 \/ ~ x.ok
                        \/ ~ (c <= L /\ cs[c].frame = x.frame => cs[c].hash = x)]
    BY <1>1 DEF Replayed
  <2> HIDE DEF x, c, L, cs
  <2> QED
    BY <1>2, <1>3, <2>1, <2>2
<1> HIDE DEF cs, L, c
<1>8. due => cs[c].hash = h[k]
  <2> HAVE due
  <2>1. c \in 1 .. L
    BY <1>1
  <2> QED
    BY <1>5, <2>1
<1> DEFINE further == IF due THEN c + 1 ELSE c
<1>9. t.world = h[k] /\ t.cursor = further /\ ~ t.failed
  <2> DEFINE misses == ~ (due => cs[c].hash = h[k])
  <2>1. t = [world |-> h[k], cursor |-> further, failed |-> misses]
    BY <1>7
  <2>2. misses = FALSE
    BY <1>8
  <2> HIDE DEF misses, further
  <2>3. t.world = h[k] /\ t.cursor = further /\ t.failed = misses
    BY <2>1
  <2> QED
    BY <2>2, <2>3
<1>10. CASE due
  <2>1. t.world = h[k] /\ t.cursor = c + 1 /\ ~ t.failed
    BY <1>10, <1>9
  <2>2. c \in 1 .. L /\ cs[c].frame = k
    BY <1>1, <1>10
  <2>3. ASSUME NEW j \in 1 .. L
        PROVE  j < c + 1 <=> cs[j].frame <= k
    <3>1. j \in Nat /\ c \in Nat /\ k \in Nat /\ cs[j].frame \in Nat
      BY <1>1, <1>4
    <3>2. CASE j < c
      <4>1. cs[j].frame <= k - 1
        BY <1>6, <3>2
      <4> QED
        BY <3>1, <3>2, <4>1
    <3>3. CASE j = c
      BY <2>2, <3>1, <3>3
    <3>4. CASE c < j
      <4>1. cs[c].frame < cs[j].frame
        BY <1>4, <2>2, <3>4
      <4> QED
        BY <2>2, <3>1, <3>4, <4>1
    <3> QED
      BY <3>1, <3>2, <3>3, <3>4
  <2> QED
    BY <1>1, <2>1, <2>2, <2>3 DEF OnTrack, cs, L
<1>11. CASE ~ due
  <2>1. t.world = h[k] /\ t.cursor = c /\ ~ t.failed
    BY <1>11, <1>9
  <2>2. ASSUME NEW j \in 1 .. L
        PROVE  j < c <=> cs[j].frame <= k
    <3>1. j \in Nat /\ c \in Nat /\ k \in Nat /\ cs[j].frame \in Nat
      BY <1>1, <1>4
    <3>2. CASE j < c
      <4>1. cs[j].frame <= k - 1
        BY <1>6, <3>2
      <4> QED
        BY <3>1, <3>2, <4>1
    <3>3. CASE c <= j
      <4>1. c \in 1 .. L
        BY <1>1, <3>1, <3>3
      <4>2. cs[c].frame \in Nat /\ ~ cs[c].frame <= k - 1 /\ cs[c].frame # k
        BY <1>4, <1>6, <1>11, <3>1, <4>1
      <4>3. cs[c].frame <= cs[j].frame
        BY <1>4, <3>1, <3>3, <4>1, <4>2
      <4> QED
        BY <3>1, <3>3, <4>2, <4>3
    <3> QED
      BY <3>1, <3>2, <3>3
  <2> QED
    BY <1>1, <2>1, <2>2 DEF OnTrack, cs, L
<1> QED
  BY <1>10, <1>11

(* A game that has come to its end is verified. *)
LEMMA RecordedIsVerified ==
  ASSUME NEW r, NEW w, Recorded(r, w), w.frame = r.final, r.hash = w
  PROVE  Verified(r)
<1> DEFINE n == r.final
           cs == r.checkpoints
<1>1. /\ n \in Nat /\ r \in Replays /\ InputsInTurn(r, n) /\ CheckpointsInTurn(r, n)
      /\ Len(cs) \in Nat
  BY DEF Recorded, Replays
<1>2. PICK h : Plays(h, n, r) /\ h[n] = w /\ Checked(h, r)
  BY DEF Recorded
<1>3. PICK v : Watches(v, r)
  BY <1>1, ReplayRuns
<1> DEFINE bad == {k \in 0 .. n : ~ OnTrack(v[k], h[k], k, r)}
<1>4. bad = {}
  <2> SUFFICES ASSUME bad # {}
               PROVE  FALSE
    OBVIOUS
  <2>1. PICK k \in bad : \A m \in bad : k <= m
    <3>1. bad \in SUBSET Nat
      BY <1>1
    <3> HIDE DEF bad
    <3> QED
      BY <3>1, LeastNumber
  <2>2. k \in 0 .. n /\ ~ OnTrack(v[k], h[k], k, r)
    OBVIOUS
  <2>3. k # 0
    <3>1. OnTrack(v[0], h[0], 0, r)
      <4>1. v[0].failed = FALSE /\ v[0].world = InitialWorld /\ v[0].cursor = 1
        BY <1>3 DEF Watches, Start
      <4>2. h[0] = InitialWorld
        BY <1>2 DEF Plays
      <4>3. \A j \in 1 .. Len(cs) : j < 1 <=> cs[j].frame <= 0
        <5>1. \A j \in 1 .. Len(cs) : cs[j].frame \in 1 .. n
          BY <1>1 DEF CheckpointsInTurn
        <5> QED
          BY <1>1, <5>1
      <4> QED
        BY <1>1, <4>1, <4>2, <4>3 DEF OnTrack
    <3> QED
      BY <2>2, <3>1
  <2>4. k - 1 \in 0 .. n /\ k \in 1 .. n /\ k - 1 \notin bad
    BY <1>1, <2>1, <2>2, <2>3
  <2>5. OnTrack(v[k - 1], h[k - 1], k - 1, r)
    BY <2>4
  <2>6. v[k] = Replayed(v[k - 1], k, r)
    BY <1>3, <2>4 DEF Watches
  <2>7. OnTrack(v[k], h[k], k, r)
    BY <1>1, <1>2, <2>4, <2>5, <2>6, TrackIsKept
  <2> QED
    BY <2>2, <2>7
<1>5. OnTrack(v[n], w, n, r)
  <2>1. n \in 0 .. n
    BY <1>1
  <2> QED
    BY <1>2, <1>4, <2>1
<1>6. v[n].cursor = Len(cs) + 1
  <2> DEFINE c == v[n].cursor
  <2>1. c \in 1 .. Len(cs) + 1 /\ \A j \in 1 .. Len(cs) : j < c <=> cs[j].frame <= n
    BY <1>5 DEF OnTrack
  <2>2. \A j \in 1 .. Len(cs) : cs[j].frame \in 1 .. n
    BY <1>1 DEF CheckpointsInTurn
  <2> HIDE DEF c, cs, n
  <2>3. ~ c <= Len(cs)
    <3> SUFFICES ASSUME c <= Len(cs)
                 PROVE  FALSE
      OBVIOUS
    <3>1. c \in 1 .. Len(cs)
      BY <1>1, <2>1
    <3> QED
      BY <1>1, <2>1, <2>2, <3>1
  <2>4. c = Len(cs) + 1
    BY <1>1, <2>1, <2>3
  <2> QED
    BY <2>4 DEF c
<1>7. ~ v[n].failed /\ v[n].world = w
  BY <1>5 DEF OnTrack
<1>8. PlayAgain(r) = v[n]
  BY <1>3 DEF Watches
<1>9. r.version = "current" /\ Len(r.inputs) = n
  BY <1>1 DEF Replays, InputsInTurn
<1> QED
  BY <1>6, <1>7, <1>8, <1>9 DEF Verified

(* What was saved of it is read again. *)
LEMMA RecordedIsRead ==
  ASSUME NEW r, NEW w, Recorded(r, w), w.frame = r.final, Encodable(r),
         NEW f, f = Sealed(Encode(r))
  PROVE  Decodable(f) /\ Decode(f) = r
<1> DEFINE b == Encode(r)
           n == r.final
<1>1. f.body = b /\ f.crc = b
  BY DEF Sealed
<1>2. /\ n \in Nat /\ r \in Replays /\ InputsInTurn(r, n) /\ CheckpointsInTurn(r, n)
      /\ Len(r.checkpoints) \in Nat
  BY DEF Recorded, Replays
<1>3. /\ b.magic = TRUE /\ b.version = r.version /\ b.variant = r.variant /\ b.reserved = FALSE
      /\ b.final = n /\ b.inputCount = Len(r.inputs) /\ b.checkpointCount = Len(r.checkpoints)
      /\ b.hash = r.hash /\ b.inputs = r.inputs /\ b.checkpoints = r.checkpoints
  BY DEF Encode
<1> HIDE DEF b
<1>4. Decode(f) = r
  <2>1. Decode(f) = [version |-> r.version, variant |-> r.variant, final |-> n,
                     inputs |-> r.inputs, checkpoints |-> r.checkpoints, hash |-> r.hash]
    BY <1>1, <1>3 DEF Decode
  <2> QED
    BY <1>2, <2>1 DEF Replays
<1>5. Len(r.inputs) = n
  BY <1>2 DEF InputsInTurn
<1>6. \A i \in 1 .. Len(r.inputs) :
        /\ r.inputs[i].frame = i - 1
        /\ \A p \in Players : r.inputs[i].buttons[p] \subseteq AllButtons
  BY <1>2, <1>5 DEF InputsInTurn
<1>7. \A i \in 1 .. Len(r.checkpoints) :
        /\ r.checkpoints[i].frame <= n
        /\ i > 1 => r.checkpoints[i - 1].frame < r.checkpoints[i].frame
  <2> TAKE i \in 1 .. Len(r.checkpoints)
  <2>1. r.checkpoints[i].frame <= n
    BY <1>2 DEF CheckpointsInTurn
  <2>2. i > 1 => r.checkpoints[i - 1].frame < r.checkpoints[i].frame
    <3> HAVE i > 1
    <3>1. i - 1 \in 1 .. Len(r.checkpoints) /\ i - 1 < i
      BY <1>2
    <3> QED
      BY <1>2, <3>1 DEF CheckpointsInTurn
  <2> QED
    BY <2>1, <2>2
<1>8. Decodable(f)
  BY <1>1, <1>3, <1>5, <1>6, <1>7 DEF Decodable, Encodable
<1> QED
  BY <1>4, <1>8

(* The final hash is written last. *)
LEMMA HashIsWritten ==
  ASSUME NEW r, NEW w, Recorded(r, w), NEW t, t = [r EXCEPT !.hash = w]
  PROVE  Recorded(t, w) /\ t.hash = w /\ t.final = r.final
<1>1. r \in Replays /\ w \in Worlds
  BY DEF Recorded, Fits
<1>2. /\ t \in Replays /\ t.hash = w /\ t.final = r.final /\ t.inputs = r.inputs
      /\ t.checkpoints = r.checkpoints /\ t.variant = r.variant
  BY <1>1 DEF Replays
<1>3. /\ InputsInTurn(t, w.frame) /\ CheckpointsInTurn(t, w.frame)
  BY <1>2 DEF Recorded, InputsInTurn, CheckpointsInTurn
<1>4. \E h : Plays(h, w.frame, t) /\ h[w.frame] = w /\ Checked(h, t)
  <2>1. PICK h : Plays(h, w.frame, r) /\ h[w.frame] = w /\ Checked(h, r)
    BY DEF Recorded
  <2>2. Plays(h, w.frame, t) /\ Checked(h, t)
    BY <1>2, <2>1 DEF Plays, Checked
  <2> QED
    BY <2>1, <2>2
<1> QED
  BY <1>2, <1>3, <1>4 DEF Recorded

-----------------------------------------------------------------------------
(* Acceptance *)

(* h are the worlds that the inputs of r play. *)
Unrolls(h, r) ==
  /\ h[0] = InitialWorld
  /\ \A k \in 1 .. r.final : h[k] = SimulateFrame(h[k - 1], r.inputs[k], r.variant)

(* What the verification of r has seen by frame k is so. *)
Truthful(s, v, k, r) ==
  /\ Fits(s.world) /\ s.world.ok /\ s.world.frame = k
  /\ s.cursor \in 1 .. Len(r.checkpoints) + 1
  /\ \A j \in 1 .. Len(r.checkpoints) : j < s.cursor =>
       /\ r.checkpoints[j].frame \in 1 .. k
       /\ r.checkpoints[j].hash = v[r.checkpoints[j].frame].world

(* A verification that has failed fails in the end. *)
LEMMA FailureIsFinal ==
  ASSUME NEW r, NEW n, n = r.final, n \in Nat, NEW v, Watches(v, r), ~ v[n].failed
  PROVE  \A k \in 0 .. n : ~ v[k].failed
<1> DEFINE bad == {m \in 0 .. n : v[n - m].failed}
<1>1. bad = {}
  <2> SUFFICES ASSUME bad # {}
               PROVE  FALSE
    OBVIOUS
  <2>1. PICK m \in bad : \A i \in bad : m <= i
    <3>1. bad \in SUBSET Nat
      OBVIOUS
    <3> HIDE DEF bad
    <3> QED
      BY <3>1, LeastNumber
  <2>2. m \in 0 .. n /\ v[n - m].failed
    OBVIOUS
  <2>3. m # 0
    <3> SUFFICES ASSUME m = 0
                 PROVE  FALSE
      OBVIOUS
    <3>1. n - m = n
      OBVIOUS
    <3> QED
      BY <2>2, <3>1
  <2> DEFINE k == n - m + 1
  <2>4. k \in 1 .. n /\ k - 1 = n - m /\ k = n - (m - 1) /\ m - 1 \in 0 .. n /\ m - 1 \notin bad
    BY <2>1, <2>2, <2>3
  <2>5. ~ v[k].failed
    BY <2>4
  <2> HIDE DEF k
  <2>6. v[k] = Replayed(v[k - 1], k, r)
    BY <2>4 DEF Watches
  <2>7. v[k - 1].failed
    BY <2>2, <2>4
  <2>8. Replayed(v[k - 1], k, r) = v[k - 1]
    BY <2>7 DEF Replayed
  <2> QED
    BY <2>5, <2>6, <2>7, <2>8
<1> QED
  <2> TAKE k \in 0 .. n
  <2>1. n - k \in 0 .. n /\ n - (n - k) = k
    OBVIOUS
  <2>2. ~ v[n - (n - k)].failed
    BY <1>1, <2>1
  <2> QED
    BY <2>1, <2>2

(* A verification that goes on has simulated its frame, and met the        *)
(* checkpoint that was due.                                                *)
LEMMA TruthIsKept ==
  ASSUME NEW r, NEW n, n = r.final, n \in Nat, Len(r.checkpoints) \in Nat,
         NEW v, NEW k \in 1 .. n, Truthful(v[k - 1], v, k - 1, r),
         v[k] = Replayed(v[k - 1], k, r), ~ v[k - 1].failed, ~ v[k].failed
  PROVE  /\ Truthful(v[k], v, k, r)
         /\ v[k].world = SimulateFrame(v[k - 1].world, r.inputs[k], r.variant)
<1> DEFINE cs == r.checkpoints
           L == Len(cs)
           s == v[k - 1]
           t == v[k]
           c == s.cursor
           x == SimulateFrame(s.world, r.inputs[k], r.variant)
           due == c <= L /\ cs[c].frame = x.frame
           further == IF due THEN c + 1 ELSE c
           fails == \/ r.inputs[k].frame # k - 1 \/ ~ x.ok
                    \/ ~ (due => cs[c].hash = x)
<1>1. /\ L \in Nat /\ c \in 1 .. L + 1 /\ Fits(s.world) /\ s.world.ok /\ s.world.frame = k - 1
      /\ \A j \in 1 .. L : j < c => /\ cs[j].frame \in 1 .. k - 1
                                    /\ cs[j].hash = v[cs[j].frame].world
  BY DEF Truthful
<1>2. t = [world |-> x, cursor |-> further, failed |-> fails]
  BY DEF Replayed
<1>3. t.world = x /\ t.cursor = further /\ t.failed = fails
  <2> HIDE DEF t, x, further, fails
  <2> QED
    BY <1>2
<1>4. ~ fails
  <2> HIDE DEF fails
  <2> QED
    BY <1>3
<1>5. x.ok /\ (due => cs[c].hash = x)
  BY <1>4
<1>6. Fits(x) /\ x.frame = k
  <2> DEFINE w == s.world
             inputs == r.inputs[k]
  <2>1. Follows(w, inputs, r.variant, x)
    BY <1>1, <1>5, FrameKeeps
  <2>2. Fits(x) /\ x.frame = w.frame + 1
    BY <2>1 DEF Follows
  <2> QED
    BY <1>1, <2>2
<1> HIDE DEF x, t, c, cs, L, fails
<1>7. ASSUME NEW j \in 1 .. L, j < further
      PROVE  cs[j].frame \in 1 .. k /\ cs[j].hash = v[cs[j].frame].world
  <2>1. CASE j < c
    <3>1. cs[j].frame \in 1 .. k - 1 /\ cs[j].hash = v[cs[j].frame].world
      BY <1>1, <2>1
    <3> QED
      BY <3>1
  <2>2. CASE ~ j < c
    <3>1. due /\ j = c
      BY <1>1, <1>7, <2>2
    <3>2. cs[j].frame = k /\ cs[j].hash = x
      BY <1>5, <1>6, <3>1
    <3>3. v[k].world = x
      BY <1>3 DEF t
    <3> QED
      BY <3>2, <3>3
  <2> QED
    BY <2>1, <2>2
<1>8. further \in 1 .. L + 1
  BY <1>1
<1> HIDE DEF further
<1>9. Truthful(t, v, k, r)
  BY <1>3, <1>5, <1>6, <1>7, <1>8 DEF Truthful, cs, L
<1>10. x = SimulateFrame(v[k - 1].world, r.inputs[k], r.variant)
  BY DEF x
<1> QED
  BY <1>3, <1>9, <1>10 DEF t

(* A replay that is verified was played. *)
LEMMA VerifiedIsPlayed ==
  ASSUME NEW r, NEW n, n = r.final, n \in Nat, Len(r.checkpoints) \in Nat, Verified(r)
  PROVE  \E h : /\ Unrolls(h, r) /\ r.hash = h[n]
                /\ \A i \in 1 .. Len(r.checkpoints) :
                     r.checkpoints[i].frame \in 1 .. n /\ r.checkpoints[i].hash = h[r.checkpoints[i].frame]
<1> DEFINE cs == r.checkpoints
<1>1. PICK v : Watches(v, r)
  BY ReplayRuns
<1>2. PlayAgain(r) = v[n] /\ \A k \in 1 .. n : v[k] = Replayed(v[k - 1], k, r)
  BY <1>1 DEF Watches
<1>3. ~ v[n].failed /\ v[n].cursor = Len(cs) + 1 /\ v[n].world = r.hash
  BY <1>2 DEF Verified
<1>4. \A k \in 0 .. n : ~ v[k].failed
  BY <1>1, <1>3, FailureIsFinal
<1> DEFINE bad == {k \in 0 .. n : ~ Truthful(v[k], v, k, r)}
<1>5. bad = {}
  <2> SUFFICES ASSUME bad # {}
               PROVE  FALSE
    OBVIOUS
  <2>1. PICK k \in bad : \A m \in bad : k <= m
    <3>1. bad \in SUBSET Nat
      OBVIOUS
    <3> HIDE DEF bad
    <3> QED
      BY <3>1, LeastNumber
  <2>2. k \in 0 .. n /\ ~ Truthful(v[k], v, k, r)
    OBVIOUS
  <2>3. k # 0
    <3>1. v[0].world = InitialWorld /\ v[0].cursor = 1
      BY <1>1 DEF Watches, Start
    <3>2. 1 \in 1 .. Len(cs) + 1 /\ \A j \in 1 .. Len(cs) : ~ j < 1
      OBVIOUS
    <3>3. Truthful(v[0], v, 0, r)
      BY <3>1, <3>2, InitialFits DEF Truthful
    <3> QED
      BY <2>2, <3>3
  <2>4. k - 1 \in 0 .. n /\ k \in 1 .. n /\ k - 1 \notin bad
    BY <2>1, <2>2, <2>3
  <2>5. Truthful(v[k - 1], v, k - 1, r)
    BY <2>4
  <2>6. ~ v[k - 1].failed /\ ~ v[k].failed /\ v[k] = Replayed(v[k - 1], k, r)
    BY <1>2, <1>4, <2>4
  <2>7. Truthful(v[k], v, k, r)
    BY <2>4, <2>5, <2>6, TruthIsKept
  <2> QED
    BY <2>2, <2>7
<1> DEFINE h == [k \in 0 .. n |-> v[k].world]
<1>6. \A k \in 0 .. n : h[k] = v[k].world
  OBVIOUS
<1>7. Unrolls(h, r)
  <2>1. h[0] = InitialWorld
    <3>1. v[0].world = InitialWorld /\ 0 \in 0 .. n
      BY <1>1 DEF Watches, Start
    <3> QED
      BY <1>6, <3>1
  <2>2. ASSUME NEW k \in 1 .. n
        PROVE  h[k] = SimulateFrame(h[k - 1], r.inputs[k], r.variant)
    <3>1. k \in 0 .. n /\ k - 1 \in 0 .. n
      OBVIOUS
    <3>2. Truthful(v[k - 1], v, k - 1, r) /\ ~ v[k - 1].failed /\ ~ v[k].failed
      BY <1>4, <1>5, <3>1
    <3>3. v[k].world = SimulateFrame(v[k - 1].world, r.inputs[k], r.variant)
      BY <1>2, <3>2, TruthIsKept
    <3>4. h[k] = v[k].world /\ h[k - 1] = v[k - 1].world
      BY <1>6, <3>1
    <3> HIDE DEF h
    <3> QED
      BY <3>3, <3>4
  <2> HIDE DEF h
  <2> QED
    BY <2>1, <2>2 DEF Unrolls
<1>8. n \in 0 .. n
  OBVIOUS
<1>9. \A i \in 1 .. Len(cs) : cs[i].frame \in 1 .. n /\ cs[i].hash = h[cs[i].frame]
  <2>1. Truthful(v[n], v, n, r)
    BY <1>5, <1>8
  <2> TAKE i \in 1 .. Len(cs)
  <2>2. i < v[n].cursor
    BY <1>3
  <2>3. cs[i].frame \in 1 .. n /\ cs[i].hash = v[cs[i].frame].world
    BY <2>1, <2>2 DEF Truthful
  <2>4. cs[i].frame \in 0 .. n
    BY <2>3
  <2> HIDE DEF h
  <2> QED
    BY <1>6, <2>3, <2>4
<1>10. r.hash = h[n]
  BY <1>3, <1>6, <1>8
<1> HIDE DEF h
<1> QED
  BY <1>7, <1>9, <1>10

(* The worlds of a game are the ones that its inputs play. *)
LEMMA WorldsAreUnrolled ==
  ASSUME NEW r, NEW n, n = r.final, n \in Nat, NEW h, Unrolls(h, r)
  PROVE  \A k \in 0 .. n : WorldsOf(r)[k] = h[k]
<1> DEFINE rule(f, i) == IF i = 0 THEN InitialWorld
                         ELSE SimulateFrame(f[i - 1], r.inputs[i], r.variant)
           is(f) == f = [i \in 0 .. n |-> rule(f, i)]
           W == WorldsOf(r)
           g == [k \in 0 .. n |-> h[k]]
<1>1. W = CHOOSE f : is(f)
  BY DEF WorldsOf
<1> HIDE DEF W
<1>2. is(g)
  <2>1. ASSUME NEW i \in 0 .. n
        PROVE  g[i] = rule(g, i)
    <3>1. CASE i = 0
      BY <3>1 DEF Unrolls
    <3>2. CASE i # 0
      <4>1. i \in 1 .. n /\ i - 1 \in 0 .. n
        BY <3>2
      <4>2. g[i - 1] = h[i - 1] /\ g[i] = h[i]
        BY <4>1
      <4> HIDE DEF g
      <4> QED
        BY <3>2, <4>1, <4>2 DEF Unrolls
    <3> QED
      BY <3>1, <3>2
  <2>2. g = [i \in 0 .. n |-> g[i]]
    OBVIOUS
  <2> HIDE DEF g, rule
  <2>3. [i \in 0 .. n |-> g[i]] = [i \in 0 .. n |-> rule(g, i)]
    BY <2>1
  <2> QED
    BY <2>2, <2>3
<1>3. is(W)
  <2> HIDE DEF is, g
  <2> QED
    BY <1>1, <1>2
<1>4. \A i \in 0 .. n : W[i] = rule(W, i)
  <2> HIDE DEF rule
  <2> QED
    BY <1>3
<1> DEFINE bad == {k \in 0 .. n : W[k] # h[k]}
<1>5. bad = {}
  <2> SUFFICES ASSUME bad # {}
               PROVE  FALSE
    OBVIOUS
  <2>1. PICK k \in bad : \A m \in bad : k <= m
    <3>1. bad \in SUBSET Nat
      OBVIOUS
    <3> HIDE DEF bad
    <3> QED
      BY <3>1, LeastNumber
  <2>2. k \in 0 .. n /\ W[k] # h[k]
    OBVIOUS
  <2>3. k # 0
    <3> SUFFICES ASSUME k = 0
                 PROVE  FALSE
      OBVIOUS
    <3>1. W[k] = InitialWorld
      BY <1>4, <2>2
    <3> QED
      BY <2>2, <3>1 DEF Unrolls
  <2>4. k - 1 \in 0 .. n /\ k \in 1 .. n /\ k - 1 \notin bad
    BY <2>1, <2>2, <2>3
  <2>5. W[k - 1] = h[k - 1]
    BY <2>4
  <2>6. W[k] = SimulateFrame(W[k - 1], r.inputs[k], r.variant)
    BY <1>4, <2>2, <2>3
  <2> QED
    BY <2>2, <2>4, <2>5, <2>6 DEF Unrolls
<1> QED
  BY <1>5 DEF W

-----------------------------------------------------------------------------
(* Files *)

IsList(s) == \E S : s \in Seq(S)

(* A body that may say anything in its header and in its records. *)
IsBody(b) ==
  /\ b = [magic |-> b.magic, version |-> b.version, variant |-> b.variant, reserved |-> b.reserved,
          final |-> b.final, inputCount |-> b.inputCount, checkpointCount |-> b.checkpointCount,
          hash |-> b.hash, inputs |-> b.inputs, checkpoints |-> b.checkpoints]
  /\ IsList(b.inputs) /\ IsList(b.checkpoints)

IsFile(f) == f = [body |-> f.body, crc |-> f.crc] /\ IsBody(f.body)

(* What is done to lists in files leaves lists. *)
LEMMA ListsAreChanged ==
  ASSUME NEW s, IsList(s)
  PROVE  /\ s # <<>> => IsList(Front(s)) /\ IsList(Tail(s))
         /\ IsList(Reverse(s))
         /\ \A e : IsList(<<e>> \o s)
         /\ \A i \in 1 .. Len(s) : \A e : IsList([s EXCEPT ![i] = e])
<1>1. PICK S : s \in Seq(S)
  BY DEF IsList
<1>2. s # <<>> => Front(s) \in Seq(S) /\ Tail(s) \in Seq(S)
  BY <1>1 DEF Front
<1>3. Reverse(s) \in Seq(S)
  BY <1>1 DEF Reverse
<1>4. ASSUME NEW e
      PROVE  IsList(<<e>> \o s)
  <2> DEFINE T == S \union {e}
  <2>1. s \in Seq(T) /\ <<e>> \in Seq(T)
    BY <1>1
  <2>2. <<e>> \o s \in Seq(T)
    BY <2>1
  <2> QED
    BY <2>2 DEF IsList
<1>5. ASSUME NEW i \in 1 .. Len(s), NEW e
      PROVE  IsList([s EXCEPT ![i] = e])
  <2> DEFINE T == S \union {e}
  <2>1. s \in Seq(T)
    BY <1>1
  <2>2. [s EXCEPT ![i] = e] \in Seq(T)
    BY <2>1
  <2> QED
    BY <2>2 DEF IsList
<1> QED
  BY <1>2, <1>3, <1>4, <1>5 DEF IsList

(* A body with one field changed, by which the others stand. *)
LEMMA BodyIsChanged ==
  ASSUME NEW b, IsBody(b)
  PROVE  /\ \A x : IsBody([b EXCEPT !.magic = x]) /\ IsBody([b EXCEPT !.version = x])
                   /\ IsBody([b EXCEPT !.variant = x]) /\ IsBody([b EXCEPT !.reserved = x])
                   /\ IsBody([b EXCEPT !.final = x]) /\ IsBody([b EXCEPT !.inputCount = x])
                   /\ IsBody([b EXCEPT !.checkpointCount = x]) /\ IsBody([b EXCEPT !.hash = x])
         /\ \A x : IsList(x) =>
              IsBody([b EXCEPT !.inputs = x]) /\ IsBody([b EXCEPT !.checkpoints = x])
<1>1. ASSUME NEW x
      PROVE  /\ IsBody([b EXCEPT !.magic = x]) /\ IsBody([b EXCEPT !.version = x])
             /\ IsBody([b EXCEPT !.variant = x]) /\ IsBody([b EXCEPT !.reserved = x])
             /\ IsBody([b EXCEPT !.final = x]) /\ IsBody([b EXCEPT !.inputCount = x])
             /\ IsBody([b EXCEPT !.checkpointCount = x]) /\ IsBody([b EXCEPT !.hash = x])
  BY DEF IsBody
<1>2. ASSUME NEW x, IsList(x)
      PROVE  IsBody([b EXCEPT !.inputs = x]) /\ IsBody([b EXCEPT !.checkpoints = x])
  BY <1>2 DEF IsBody
<1> QED
  BY <1>1, <1>2

(* A body that differs in one thing is a body still. *)
LEMMA DifferingIsBody ==
  ASSUME NEW b, IsBody(b), b.inputs # <<>>, b.checkpoints # <<>>, NEW d \in Differing(b)
  PROVE  IsBody(d)
<1> DEFINE cs == b.checkpoints
           is == b.inputs
           buttons == [Players -> {{}, {"attack"}, {"illegal"}}]
<1>1. IsList(cs) /\ IsList(is)
  BY DEF IsBody
<1>2. /\ IsList(Front(is)) /\ IsList(Tail(cs)) /\ IsList(Reverse(cs))
      /\ IsList(<<[frame |-> 0, hash |-> InitialWorld]>> \o cs)
      /\ \A i \in 1 .. Len(cs) : \A e : IsList([cs EXCEPT ![i] = e])
      /\ \A i \in 1 .. Len(is) : \A e : IsList([is EXCEPT ![i] = e])
  BY <1>1, ListsAreChanged
<1>0. /\ \A x : /\ IsBody([b EXCEPT !.magic = x]) /\ IsBody([b EXCEPT !.version = x])
                /\ IsBody([b EXCEPT !.reserved = x]) /\ IsBody([b EXCEPT !.variant = x])
                /\ IsBody([b EXCEPT !.final = x]) /\ IsBody([b EXCEPT !.hash = x])
      /\ \A x : IsList(x) => IsBody([b EXCEPT !.checkpoints = x])
  BY BodyIsChanged
<1>3. \/ d \in {[b EXCEPT !.magic = FALSE], [b EXCEPT !.version = "other"], [b EXCEPT !.reserved = TRUE],
               [b EXCEPT !.variant = "damage_bias"], [b EXCEPT !.variant = "unknown"],
               [b EXCEPT !.final = @ + 1], [b EXCEPT !.hash = InitialWorld]}
      \/ d = [b EXCEPT !.final = @ + 1, !.inputCount = @ + 1]
      \/ d = [b EXCEPT !.inputs = Front(@)]
      \/ d = [b EXCEPT !.inputs = Front(@), !.inputCount = @ - 1, !.final = @ - 1]
      \/ d = [b EXCEPT !.checkpoints = Tail(@)]
      \/ d = [b EXCEPT !.checkpoints = Tail(@), !.checkpointCount = @ - 1]
      \/ d = [b EXCEPT !.checkpoints = <<[frame |-> 0, hash |-> InitialWorld]>> \o @,
                       !.checkpointCount = @ + 1]
      \/ d = [b EXCEPT !.checkpoints = Reverse(@)]
      \/ \E i \in 1 .. Len(cs), f \in 0 .. b.final + 1 : d = [b EXCEPT !.checkpoints[i].frame = f]
      \/ \E i \in 1 .. Len(cs) : d = [b EXCEPT !.checkpoints[i].hash = InitialWorld]
      \/ \E i \in 1 .. Len(is), f \in buttons : d = [b EXCEPT !.inputs[i].buttons = f]
      \/ \E i \in 1 .. Len(is) : d = [b EXCEPT !.inputs[i].frame = @ + 1]
  BY DEF Differing
<1>4. CASE d \in {[b EXCEPT !.magic = FALSE], [b EXCEPT !.version = "other"], [b EXCEPT !.reserved = TRUE],
                  [b EXCEPT !.variant = "damage_bias"], [b EXCEPT !.variant = "unknown"],
                  [b EXCEPT !.final = @ + 1], [b EXCEPT !.hash = InitialWorld]}
  <2>1. \E x : \/ d = [b EXCEPT !.magic = x] \/ d = [b EXCEPT !.version = x]
               \/ d = [b EXCEPT !.reserved = x] \/ d = [b EXCEPT !.variant = x]
               \/ d = [b EXCEPT !.final = x] \/ d = [b EXCEPT !.hash = x]
    BY <1>4, Zenon
  <2> QED
    BY <1>0, <2>1, Zenon
<1>5. CASE d = [b EXCEPT !.final = @ + 1, !.inputCount = @ + 1]
  <2> DEFINE first == [b EXCEPT !.final = b.final + 1]
  <2>1. IsBody(first)
    BY BodyIsChanged
  <2>2. d = [first EXCEPT !.inputCount = b.inputCount + 1]
    BY <1>5 DEF IsBody
  <2> HIDE DEF first
  <2> QED
    BY <2>1, <2>2, BodyIsChanged
<1>6. CASE d = [b EXCEPT !.inputs = Front(@)]
  BY <1>2, <1>6, BodyIsChanged
<1>7. CASE d = [b EXCEPT !.inputs = Front(@), !.inputCount = @ - 1, !.final = @ - 1]
  <2> DEFINE front == Front(is)
             first == [b EXCEPT !.inputs = front]
             second == [first EXCEPT !.inputCount = b.inputCount - 1]
  <2>1. IsBody(first)
    BY <1>2, BodyIsChanged
  <2> HIDE DEF front
  <2>2. d = [second EXCEPT !.final = b.final - 1]
    BY <1>7 DEF IsBody, front
  <2> HIDE DEF first
  <2>3. IsBody(second)
    BY <2>1, BodyIsChanged
  <2> HIDE DEF second
  <2> QED
    BY <2>2, <2>3, BodyIsChanged
<1>8. CASE d = [b EXCEPT !.checkpoints = Tail(@)] \/ d = [b EXCEPT !.checkpoints = Reverse(@)]
  <2>1. \E x : IsList(x) /\ d = [b EXCEPT !.checkpoints = x]
    BY <1>2, <1>8, Zenon
  <2> QED
    BY <1>0, <2>1, Zenon
<1>9. CASE d = [b EXCEPT !.checkpoints = Tail(@), !.checkpointCount = @ - 1]
  <2> DEFINE tail == Tail(cs)
             first == [b EXCEPT !.checkpoints = tail]
  <2>1. IsBody(first)
    BY <1>2, BodyIsChanged
  <2> HIDE DEF tail
  <2>2. d = [first EXCEPT !.checkpointCount = b.checkpointCount - 1]
    BY <1>9 DEF IsBody, tail
  <2> HIDE DEF first
  <2> QED
    BY <2>1, <2>2, BodyIsChanged
<1>10. CASE d = [b EXCEPT !.checkpoints = <<[frame |-> 0, hash |-> InitialWorld]>> \o @,
                          !.checkpointCount = @ + 1]
  <2> DEFINE more == <<[frame |-> 0, hash |-> InitialWorld]>> \o cs
             first == [b EXCEPT !.checkpoints = more]
             count == b.checkpointCount + 1
  <2>1. IsBody(first)
    BY <1>2, BodyIsChanged
  <2>3. d = [b EXCEPT !.checkpoints = more, !.checkpointCount = count]
    BY <1>10
  <2> HIDE DEF more, count
  <2>2. d = [first EXCEPT !.checkpointCount = count]
    BY <2>3 DEF IsBody
  <2> HIDE DEF first
  <2> QED
    BY <2>1, <2>2, BodyIsChanged
<1>11. ASSUME NEW i \in 1 .. Len(cs), NEW f \in 0 .. b.final + 1,
              d = [b EXCEPT !.checkpoints[i].frame = f]
       PROVE  IsBody(d)
  <2> DEFINE e == [cs[i] EXCEPT !.frame = f]
             list == [cs EXCEPT ![i] = e]
  <2>1. d = [b EXCEPT !.checkpoints = list]
    BY <1>11
  <2>2. IsList(list)
    BY <1>2
  <2> HIDE DEF list
  <2> QED
    BY <2>1, <2>2, BodyIsChanged
<1>12. ASSUME NEW i \in 1 .. Len(cs), d = [b EXCEPT !.checkpoints[i].hash = InitialWorld]
       PROVE  IsBody(d)
  <2> DEFINE e == [cs[i] EXCEPT !.hash = InitialWorld]
             list == [cs EXCEPT ![i] = e]
  <2>1. d = [b EXCEPT !.checkpoints = list]
    BY <1>12
  <2>2. IsList(list)
    BY <1>2
  <2> HIDE DEF list
  <2> QED
    BY <2>1, <2>2, BodyIsChanged
<1>13. ASSUME NEW i \in 1 .. Len(is), NEW f \in buttons, d = [b EXCEPT !.inputs[i].buttons = f]
       PROVE  IsBody(d)
  <2> DEFINE e == [is[i] EXCEPT !.buttons = f]
             list == [is EXCEPT ![i] = e]
  <2>1. d = [b EXCEPT !.inputs = list]
    BY <1>13
  <2>2. IsList(list)
    BY <1>2
  <2> HIDE DEF list
  <2> QED
    BY <2>1, <2>2, BodyIsChanged
<1>14. ASSUME NEW i \in 1 .. Len(is), d = [b EXCEPT !.inputs[i].frame = @ + 1]
       PROVE  IsBody(d)
  <2> DEFINE e == [is[i] EXCEPT !.frame = is[i].frame + 1]
             list == [is EXCEPT ![i] = e]
  <2>1. d = [b EXCEPT !.inputs = list]
    BY <1>14
  <2>2. IsList(list)
    BY <1>2
  <2> HIDE DEF list
  <2> QED
    BY <2>1, <2>2, BodyIsChanged
<1> QED
  BY <1>3, <1>4, <1>5, <1>6, <1>7, <1>8, <1>9, <1>10, <1>11, <1>12, <1>13, <1>14

-----------------------------------------------------------------------------
(* The invariant *)

(* What was saved is what was played, and so is the file unless damaged. *)
SavedIsPlayed ==
  /\ world.frame = target /\ replay.hash = world /\ Encodable(replay) /\ IsFile(file)
  /\ ~ damaged => file = Sealed(Encode(replay))

FilesFit ==
  /\ target \in Nat \ {0} /\ replay.final = target
  /\ Fits(world) /\ Counted(world) /\ world.ok
  /\ stage \in {"playing", "failed", "saved", "read"}
  /\ stage # "failed" => Recorded(replay, world)
  /\ stage \in {"saved", "read"} => SavedIsPlayed
  /\ stage = "read" => (accepted <=> Decodable(file) /\ Verified(Decode(file)))

(* A replay without frames is the record of a game before its first. *)
LEMMA NewIsRecorded ==
  ASSUME NEW n \in Nat \ {0}, NEW r, r = [NewReplay EXCEPT !.final = n]
  PROVE  Recorded(r, InitialWorld) /\ r.final = n
<1> DEFINE w == InitialWorld
<1>1. Fits(w) /\ Counted(w) /\ w.ok /\ w.frame = 0
  BY InitialFits
<1> HIDE DEF w
<1>2. r = [version |-> "current", variant |-> "canonical", final |-> n,
           inputs |-> <<>>, checkpoints |-> <<>>, hash |-> w]
  BY DEF NewReplay, w
<1>3. r \in Replays /\ r.final = n /\ r.inputs = <<>> /\ r.checkpoints = <<>>
  <2> DEFINE none == <<>>
  <2>1. w \in Worlds /\ n \in Nat
    BY <1>1 DEF Fits
  <2>2. none \in Seq(InputRecords) /\ none \in Seq(CheckpointRecords)
    OBVIOUS
  <2>3. r = [version |-> "current", variant |-> "canonical", final |-> n,
             inputs |-> none, checkpoints |-> none, hash |-> w]
    BY <1>2
  <2> HIDE DEF none
  <2>4. \A a, c : a \in Seq(InputRecords) /\ c \in Seq(CheckpointRecords) =>
          [version |-> "current", variant |-> "canonical", final |-> n,
           inputs |-> a, checkpoints |-> c, hash |-> w] \in Replays
    BY <2>1 DEF Replays
  <2>5. r \in Replays
    <3>1. [version |-> "current", variant |-> "canonical", final |-> n,
           inputs |-> none, checkpoints |-> none, hash |-> w] \in Replays
      BY <2>2, <2>4, Zenon
    <3> QED
      BY <2>3, <3>1, Zenon
  <2> QED
    BY <2>3, <2>5 DEF none
<1>4. InputsInTurn(r, 0) /\ CheckpointsInTurn(r, 0)
  BY <1>3 DEF InputsInTurn, CheckpointsInTurn
<1>5. \E h : Plays(h, 0, r) /\ h[0] = w /\ Checked(h, r)
  <2> DEFINE h == [k \in {0} |-> w]
  <2>1. h[0] = w
    OBVIOUS
  <2> HIDE DEF h
  <2>2. Plays(h, 0, r)
    <3>1. 1 .. 0 = {} /\ \A k \in 0 .. 0 : k = 0
      OBVIOUS
    <3> QED
      BY <1>1, <2>1, <3>1 DEF Plays, w
  <2>3. Checked(h, r)
    BY <1>3 DEF Checked
  <2> QED
    BY <2>1, <2>2, <2>3
<1> QED
  BY <1>1, <1>3, <1>4, <1>5 DEF Recorded, w

(* It holds before the first frame. *)
LEMMA FilesFitAtFirst == Init => FilesFit
<1> SUFFICES ASSUME Init
             PROVE  FilesFit
  OBVIOUS
<1>1. target \in Nat \ {0}
  BY FilesAssumption DEF Init
<1>2. Recorded(replay, InitialWorld) /\ replay.final = target
  BY <1>1, NewIsRecorded DEF Init
<1> QED
  BY <1>1, <1>2, InitialFits DEF Init, FilesFit

(* A frame of the game. *)
LEMMA FilesFitFrame ==
  ASSUME FilesFit, NEW buttons \in Inputs, PlayFrame(buttons)
  PROVE  FilesFit'
<1> DEFINE inputs == [frame |-> world.frame, buttons |-> buttons]
           played == SimulateFrame(world, inputs, "canonical")
           recorded == [replay EXCEPT !.inputs = Append(@, inputs)]
<1>1. /\ stage = "playing" /\ world.frame < target /\ target' = target
      /\ IF played.ok
         THEN world' = played /\ replay' = Checkpointed(recorded, played) /\ stage' = stage
         ELSE stage' = "failed" /\ replay' = recorded /\ world' = world
  BY DEF PlayFrame
<1>2. Recorded(replay, world) /\ replay.final = target /\ target \in Nat \ {0}
  BY <1>1 DEF FilesFit
<1>3. buttons \in [Players -> SUBSET AllButtons]
  BY FilesAssumption
<1>4. CASE played.ok
  <2>1. Grown(replay', replay, inputs, played)
    BY <1>1, <1>2, <1>4 DEF Checkpointed, Grown
  <2> HIDE DEF played, inputs
  <2>2. Recorded(replay', played) /\ replay'.final = replay.final
    <3> DEFINE made == replay'
    <3>1. inputs = [frame |-> world.frame, buttons |-> buttons]
          /\ played = SimulateFrame(world, inputs, "canonical")
      BY DEF played, inputs
    <3>2. Grown(made, replay, inputs, played) /\ Recorded(replay, world) /\ world.frame < replay.final
      BY <1>1, <1>2, <2>1
    <3> HIDE DEF made
    <3>3. Recorded(made, played) /\ made.final = replay.final
      BY <1>3, <1>4, <3>1, <3>2, RecordedFurther
    <3> QED
      BY <3>3 DEF made
  <2>3. Fits(played) /\ Counted(played) /\ played.ok
    BY <2>2 DEF Recorded
  <2> QED
    BY <1>1, <1>2, <1>4, <2>2, <2>3 DEF FilesFit
<1>5. CASE ~ played.ok
  <2>1. stage' = "failed" /\ replay' = recorded /\ world' = world
    BY <1>1, <1>5
  <2>2. recorded.final = target
    BY <1>2 DEF Recorded, Replays
  <2> HIDE DEF recorded
  <2> QED
    BY <1>1, <2>1, <2>2 DEF FilesFit
<1> QED
  BY <1>4, <1>5

(* The replay is saved. *)
LEMMA FilesFitSave ==
  ASSUME FilesFit, Save
  PROVE  FilesFit'
<1> DEFINE finished == [replay EXCEPT !.hash = world]
<1>1. /\ stage = "playing" /\ world.frame = target /\ Encodable(finished)
      /\ stage' = "saved" /\ replay' = finished /\ file' = Sealed(Encode(finished))
      /\ target' = target /\ world' = world /\ damaged' = damaged
  BY DEF Save
<1>2. Recorded(finished, world) /\ finished.hash = world /\ finished.final = target
  BY <1>1, HashIsWritten DEF FilesFit
<1>3. finished \in Replays
  BY <1>2 DEF Recorded
<1> HIDE DEF finished
<1>4. IsFile(file')
  <2> DEFINE b == Encode(finished)
  <2>1. file' = [body |-> b, crc |-> b]
    BY <1>1 DEF Sealed
  <2>2. IsBody(b)
    BY <1>3 DEF Encode, IsBody, IsList, Replays
  <2> HIDE DEF b
  <2> QED
    BY <2>1, <2>2 DEF IsFile
<1> QED
  BY <1>1, <1>2, <1>4 DEF FilesFit, SavedIsPlayed

(* The file is damaged. *)
LEMMA FilesFitDamage ==
  ASSUME FilesFit, FileDiffers
  PROVE  FilesFit'
<1>1. /\ stage = "saved" /\ ~ damaged /\ damaged' = TRUE
      /\ UNCHANGED <<stage, target, world, replay, accepted>>
  BY DEF FileDiffers
<1>2. Recorded(replay, world) /\ SavedIsPlayed /\ replay.final = target /\ target \in Nat \ {0}
  BY <1>1 DEF FilesFit
<1>3. file = Sealed(Encode(replay)) /\ IsFile(file) /\ world.frame = target
  BY <1>1, <1>2 DEF SavedIsPlayed
<1> DEFINE b == file.body
<1>4. IsBody(b) /\ file = [body |-> b, crc |-> file.crc]
  BY <1>3 DEF IsFile
<1>5. b.inputs = replay.inputs /\ b.checkpoints = replay.checkpoints
  BY <1>3 DEF Sealed, Encode
<1>6. b.inputs # <<>> /\ b.checkpoints # <<>>
  BY <1>2, <1>3, <1>5 DEF Recorded, InputsInTurn, CheckpointsInTurn
<1>7. PICK body \in Differing(b) : file' = Sealed(body) \/ file' = [file EXCEPT !.body = body]
  BY DEF FileDiffers
<1>8. IsBody(body)
  BY <1>4, <1>6, DifferingIsBody
<1> HIDE DEF b
<1>9. IsFile(file')
  <2>1. file' = [body |-> body, crc |-> body] \/ file' = [body |-> body, crc |-> file.crc]
    BY <1>4, <1>7 DEF Sealed
  <2> QED
    BY <1>8, <2>1 DEF IsFile
<1>10. SavedIsPlayed'
  BY <1>1, <1>2, <1>9 DEF SavedIsPlayed
<1> QED
  BY <1>1, <1>2, <1>10 DEF FilesFit

(* The file is read. *)
LEMMA FilesFitRead ==
  ASSUME FilesFit, ReadFile
  PROVE  FilesFit'
<1>1. /\ stage = "saved" /\ stage' = "read"
      /\ accepted' = (Decodable(file) /\ Verified(Decode(file)))
      /\ UNCHANGED <<target, world, replay, file, damaged>>
  BY DEF ReadFile
<1>2. SavedIsPlayed'
  BY <1>1 DEF FilesFit, SavedIsPlayed
<1>3. accepted' <=> (Decodable(file) /\ Verified(Decode(file)))'
  BY <1>1, Zenon DEF Decodable, Verified, Decode
<1> QED
  BY <1>1, <1>2, <1>3 DEF FilesFit

(* It is inductive. *)
LEMMA FilesFitNext == FilesFit /\ [Next]_vars => FilesFit'
<1> SUFFICES ASSUME FilesFit, [Next]_vars
             PROVE  FilesFit'
  OBVIOUS
<1>1. CASE UNCHANGED vars
  BY <1>1 DEF vars, FilesFit, SavedIsPlayed
<1>2. CASE \E buttons \in Inputs : PlayFrame(buttons)
  BY <1>2, FilesFitFrame
<1>3. CASE Save
  BY <1>3, FilesFitSave
<1>4. CASE FileDiffers
  BY <1>4, FilesFitDamage
<1>5. CASE ReadFile
  BY <1>5, FilesFitRead
<1> QED
  BY <1>1, <1>2, <1>3, <1>4, <1>5 DEF Next

(* The world that is played is one of a game, the replay records it, and   *)
(* the file holds the replay or is damaged.                                *)
THEOREM FilesFitAlways == Spec => []FilesFit
  BY FilesFitAtFirst, FilesFitNext, PTL DEF Spec

-----------------------------------------------------------------------------
(* The theorems *)

(* A world of a game adds up. *)
LEMMA FitIsAddedUp == FilesFit => GameAddsUp
<1> SUFFICES ASSUME FilesFit
             PROVE  GameAddsUp
  OBVIOUS
<1>1. Fits(world) /\ Counted(world) /\ world \in Worlds
  BY DEF FilesFit, Fits
<1>2. HitsOn("a") = HitsIn(world, "a") /\ HitsOn("b") = HitsIn(world, "b")
  BY DEF HitsOn, HitsIn, Wounds
<1>3. HitsOn("a") + HitsOn("b") + Cardinality(Active) < world.next
  BY <1>1, <1>2 DEF Counted, Active
<1>4. \A s, t \in Active : world.projectiles[s].id = world.projectiles[t].id => s = t
  BY <1>1 DEF Fits, Numbered, Active
<1>5. \A s \in Active :
        /\ world.projectiles[s].id < world.next /\ world.projectiles[s].ttl > 0
        /\ world.projectiles[s].x \in 0 .. ArenaWidth
        /\ world.projectiles[s].y \in 0 .. ArenaHeight
  BY <1>1 DEF Fits, InFlight, Active
<1>6. ASSUME NEW p \in Players
      PROVE  /\ world.players[p].hp \in 1 .. StartingHp
             /\ world.players[p].x \in PlayerRadius .. ArenaWidth - PlayerRadius
             /\ world.players[p].y \in PlayerRadius .. ArenaHeight - PlayerRadius
  <2>1. world.players[p] \in PlayerRecords
    BY <1>1 DEF Worlds
  <2> QED
    BY <1>1, <2>1 DEF Counted, HasWounds, PlayerRecords
<1> QED
  BY <1>3, <1>4, <1>5, <1>6 DEF GameAddsUp

(* GameAddsUp (simulate_frame): in every world of every game, every hit    *)
(* and every projectile in flight was an attack, the projectiles have ids  *)
(* of their own, and everyone is alive and inside the arena.               *)
THEOREM GameAddsUpAlways == Spec => []GameAddsUp
  BY FilesFitAlways, FitIsAddedUp, PTL

(* A file that was read is what was played. *)
LEMMA FitIsAccepted == FilesFit => AcceptedIsPlayed
<1> SUFFICES ASSUME FilesFit, stage = "read"
             PROVE  /\ ~ damaged => accepted
                    /\ accepted =>
                         LET r == Decode(file)
                             worlds == WorldsOf(r)
                         IN  /\ r.hash = worlds[r.final]
                             /\ \A i \in 1 .. Len(r.checkpoints) :
                                  /\ r.checkpoints[i].frame > 0
                                  /\ r.checkpoints[i].hash = worlds[r.checkpoints[i].frame]
  BY DEF AcceptedIsPlayed
<1>1. Recorded(replay, world) /\ replay.final = target /\ SavedIsPlayed
  BY DEF FilesFit
<1>2. world.frame = target /\ replay.hash = world /\ Encodable(replay) /\ IsFile(file)
  BY <1>1 DEF SavedIsPlayed
<1>3. accepted <=> Decodable(file) /\ Verified(Decode(file))
  BY DEF FilesFit
<1>4. ~ damaged => accepted
  <2> HAVE ~ damaged
  <2>1. file = Sealed(Encode(replay))
    BY <1>1 DEF SavedIsPlayed
  <2>2. Decodable(file) /\ Decode(file) = replay
    BY <1>1, <1>2, <2>1, RecordedIsRead
  <2>3. Verified(replay)
    BY <1>1, <1>2, RecordedIsVerified
  <2> QED
    BY <1>3, <2>2, <2>3
<1>5. ASSUME accepted
      PROVE  LET r == Decode(file)
                 worlds == WorldsOf(r)
             IN  /\ r.hash = worlds[r.final]
                 /\ \A i \in 1 .. Len(r.checkpoints) :
                      /\ r.checkpoints[i].frame > 0
                      /\ r.checkpoints[i].hash = worlds[r.checkpoints[i].frame]
  <2> DEFINE b == file.body
             r == Decode(file)
             n == r.final
             cs == r.checkpoints
             worlds == WorldsOf(r)
  <2>1. Decodable(file) /\ Verified(r) /\ IsBody(b)
    BY <1>2, <1>3, <1>5 DEF IsFile
  <2>2. n = b.final /\ cs = b.checkpoints
    BY DEF Decode
  <2>3. b.final = Len(b.inputs)
    BY <2>1 DEF Decodable
  <2>4. Len(b.inputs) \in Nat /\ Len(b.checkpoints) \in Nat
    <3>1. IsList(b.inputs) /\ IsList(b.checkpoints)
      BY <2>1 DEF IsBody
    <3> QED
      BY <3>1 DEF IsList
  <2>5. n \in Nat /\ Len(cs) \in Nat
    BY <2>2, <2>3, <2>4
  <2> HIDE DEF r, n
  <2>6. n = r.final
    BY DEF n
  <2>7. PICK h : /\ Unrolls(h, r) /\ r.hash = h[n]
                 /\ \A i \in 1 .. Len(cs) : cs[i].frame \in 1 .. n /\ cs[i].hash = h[cs[i].frame]
    BY <2>1, <2>5, <2>6, VerifiedIsPlayed
  <2>8. \A k \in 0 .. n : worlds[k] = h[k]
    BY <2>5, <2>6, <2>7, WorldsAreUnrolled
  <2> HIDE DEF worlds
  <2>9. r.hash = worlds[n]
    <3>1. n \in 0 .. n
      BY <2>5
    <3> QED
      BY <2>7, <2>8, <3>1
  <2>10. \A i \in 1 .. Len(cs) : cs[i].frame > 0 /\ cs[i].hash = worlds[cs[i].frame]
    <3> HIDE DEF cs
    <3> TAKE i \in 1 .. Len(cs)
    <3>1. cs[i].frame \in 1 .. n /\ cs[i].hash = h[cs[i].frame]
      BY <2>7
    <3>2. cs[i].frame \in 0 .. n /\ cs[i].frame > 0
      BY <2>5, <3>1
    <3> QED
      BY <2>8, <3>1, <3>2
  <2> QED
    BY <2>9, <2>10 DEF worlds, r, n
<1> QED
  BY <1>4, <1>5

(* AcceptedIsPlayed (decode_replay, verify_replay): of every game that is  *)
(* recorded, however its file is damaged, what is read is what was played. *)
THEOREM AcceptedIsPlayedAlways == Spec => []AcceptedIsPlayed
  BY FilesFitAlways, FitIsAccepted, PTL
====
