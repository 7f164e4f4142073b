SPECIFICATION Spec
CONSTANTS
  ArenaWidth = 12
  ArenaHeight = 4
  PlayerRadius = 1
  ProjectileRadius = 0
  PlayerSpeed = 1
  ProjectileSpeed = 2
  SpawnOffset = 1
  StartingHp = 2
  ProjectileDamage = 1
  AttackCooldown = 1
  ProjectileLifetime = 3
  MaxProjectiles = 2
  MaxId = 5
  MaxReplayFrames = 5
  MaxReplayCheckpoints = 4
  Inputs <- MCInputs
  MaxFrames = 4
  Interval = 2
  DamagedFrames = 3
INVARIANTS
  GameAddsUp
  AcceptedIsPlayed
CHECK_DEADLOCK FALSE
