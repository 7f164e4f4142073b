---- MODULE MCSession ----
(***************************************************************************)
(* Instances of SessionCalls for TLC.                                      *)
(***************************************************************************)
EXTENDS SessionCalls

(* From the worlds drivers start from no frame overflows within a run. *)
NeverFails(world, pair) == FALSE

(* A world whose next_projectile_id is 2^32 - 1: player a's attack (the    *)
(* mask 1) makes spawn_projectile report arithmetic_overflow.              *)
FailsOnAttack(world, pair) == pair["a"] = 1
====
