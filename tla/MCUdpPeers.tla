---- MODULE MCUdpPeers ----
(***************************************************************************)
(* Instances of UdpPeers for TLC.                                          *)
(***************************************************************************)
EXTENDS UdpPeers

NeverFails(world, pair) == FALSE

(* Each player changes its buttons, so that predictions are wrong. *)
Alternating(player, position) ==
  IF player = "a" THEN (position + 1) % 2 ELSE position % 2

(* No fault shows. *)
Never(world) == FALSE

(* The fault shows once player a has attacked (the mask 1). *)
AfterAttack(world) ==
  \E frame \in FrameNumbers : world.inputs[frame]["a"] = 1

NoFault == {{}}
PerhapsFaulty == {{}, {"b"}}
PerhapsMismatch == {{}, {"b"}}
====
