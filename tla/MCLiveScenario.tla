---- MODULE MCLiveScenario ----
(***************************************************************************)
(* Instances of LiveScenario for TLC.                                      *)
(***************************************************************************)
EXTENDS LiveScenario

NeverFails(world, pair) == FALSE

(* Player b changes its buttons, so that predictions are wrong. *)
Alternating(player, position) == (position + 1) % 2

(* The fault shows once player a has attacked (the mask 1). *)
AfterAttack(world) ==
  \E frame \in FrameNumbers : world.inputs[frame]["a"] = 1

PerhapsFaulty == {{}, {"b"}}
====
