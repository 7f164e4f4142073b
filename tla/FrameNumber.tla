---- MODULE FrameNumber ----
(***************************************************************************)
(* Frame numbers and their order: include/rollback_lab/core/frame.hpp.     *)
(* A frame number is an unsigned 32-bit integer that wraps, so its order   *)
(* is the modular one.  Modulus stands for 2^32.                           *)
(***************************************************************************)
EXTENDS Integers

CONSTANT Modulus

ASSUME ModulusAssumption == Modulus \in Nat \ {0}

FrameNumbers == 0 .. Modulus - 1

(* The number of frames from one frame forward to another. *)
FrameDistance(from, to) == (to - from) % Modulus

(* "left" precedes "right" by less than half the number space. *)
FrameBefore(left, right) ==
  /\ FrameDistance(left, right) # 0
  /\ 2 * FrameDistance(left, right) < Modulus

(* Mutant: frame arithmetic without the 32-bit wrap. *)
UnwrappedOffset(frame, k) == frame + k

(* The frame k steps after (k < 0: before) the given one. *)
FrameOffset(frame, k) == (frame + k) % Modulus

NextFrame(frame) == FrameOffset(frame, 1)
====
