---- MODULE SequenceWindow ----
(***************************************************************************)
(* The receive window of a peer (src/protocol/sequence_window.cpp): which  *)
(* packet sequence numbers are new, and which were seen before or are too  *)
(* old to tell.  The 64-bit mask is the set of the distances behind the    *)
(* newest sequence at which a packet was received.                         *)
(***************************************************************************)
EXTENDS Integers

CONSTANTS
  SequenceModulus,   \* 2^32
  WindowWidth        \* 64, the bits of received_mask_

ASSUME WindowAssumption ==
  /\ SequenceModulus \in Nat
  /\ WindowWidth \in Nat \ {0}
  /\ 2 * WindowWidth <= SequenceModulus

SequenceNumbers == 0 .. SequenceModulus - 1

Offsets == 0 .. WindowWidth - 1

Windows == [initialized : BOOLEAN, newest : SequenceNumbers, received : SUBSET Offsets]

NewWindow == [initialized |-> FALSE, newest |-> 0, received |-> {}]

(* A packet that the window accepts is handed on, any other is ignored. *)
Accepting == {"newest", "out_of_order"}

(* Mutant: the mask is not shifted when the window advances. *)
AdvancedWithoutShift(window, sequence, forward) ==
  [window EXCEPT !.newest = sequence, !.received = {0} \union @]

(* The window moves so that the sequence is its newest. *)
Advanced(window, sequence, forward) ==
  [window EXCEPT !.newest = sequence,
                 !.received = {0} \union ({b + forward : b \in @} \intersect Offsets)]

Observe(window, sequence) ==
  LET forward == (sequence - window.newest) % SequenceModulus
      behind  == (window.newest - sequence) % SequenceModulus
      Seen(w, d) == [window |-> w, disposition |-> d]
  IN  IF ~ window.initialized
      THEN Seen([initialized |-> TRUE, newest |-> sequence, received |-> {0}], "newest")
      ELSE IF forward = 0 THEN Seen(window, "duplicate")
      ELSE IF 2 * forward < SequenceModulus
      THEN Seen(Advanced(window, sequence, forward), "newest")
      ELSE IF behind >= WindowWidth THEN Seen(window, "stale")
      ELSE IF behind \in window.received THEN Seen(window, "duplicate")
      ELSE Seen([window EXCEPT !.received = @ \union {behind}], "out_of_order")
====
