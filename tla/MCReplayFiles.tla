---- MODULE MCReplayFiles ----
(* Values for ReplayFiles: who shoots where, and when. *)
EXTENDS ReplayFiles

MCInputs ==
  {f \in [Players -> {{}, {"attack"}, {"up", "attack"}, {"left", "attack"}, {"right"}}] :
     /\ f["a"] \in {{}, {"attack"}, {"up", "attack"}, {"right"}}
     /\ f["b"] \in {{}, {"attack"}, {"left", "attack"}}}
====
