---- MODULE Lockstep ----
(***************************************************************************)
(* What two rolling-back peers promise together: the result of a lockstep  *)
(* game of FrameCount frames.  A peer produces its inputs one frame at a   *)
(* time; its confirmed boundary only grows, and never past a frame whose   *)
(* input either peer has not produced; it finishes only when both have     *)
(* confirmed every frame.                                                  *)
(***************************************************************************)
EXTENDS Integers

CONSTANTS Peers, FrameCount

VARIABLES
  produced,    \* frames a peer has given its input for
  boundary,    \* frames a peer has confirmed
  done         \* has a peer finished successfully?

lockstep == <<produced, boundary, done>>

Init ==
  /\ produced = [p \in Peers |-> 0]
  /\ boundary = [p \in Peers |-> 0]
  /\ done = [p \in Peers |-> FALSE]

Step(p) ==
  /\ ~ done[p]
  /\ \E k \in {produced[p], produced[p] + 1} :
       /\ k <= FrameCount
       /\ produced' = [produced EXCEPT ![p] = k]
  /\ \E n \in boundary[p] .. FrameCount :
       /\ \A q \in Peers : n <= produced'[q]
       /\ boundary' = [boundary EXCEPT ![p] = n]
  /\ \/ done' = done
     \/ /\ \A q \in Peers : boundary'[q] = FrameCount
        /\ done' = [done EXCEPT ![p] = TRUE]

Next == \E p \in Peers : Step(p)

Spec == Init /\ [][Next]_lockstep
====
