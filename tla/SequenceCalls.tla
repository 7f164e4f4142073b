---- MODULE SequenceCalls ----
(***************************************************************************)
(* A SequenceWindow under packets that arrive in any order and any number  *)
(* of times.  The sender numbers its packets without end; a packet carries *)
(* its number modulo SequenceModulus, and arrives while it is less than    *)
(* half of the number space from the newest packet that has.               *)
(***************************************************************************)
EXTENDS SequenceWindow

CONSTANTS
  FirstNumber,     \* the number of the first packet, 2 in PeerRuntime
  LastNumber       \* bound: packets sent

ASSUME NumbersAssumption ==
  /\ FirstNumber \in Nat
  /\ LastNumber \in Nat

VARIABLES
  window,      \* the receiver's SequenceWindow
  accepted,    \* numbers of the packets it has accepted
  top          \* the largest of them

windowVars == <<window, accepted, top>>

Numbers == FirstNumber .. LastNumber

WindowInit ==
  /\ window = NewWindow
  /\ accepted = {}
  /\ top = FirstNumber

(* Packets that arrive close enough to the newest one. *)
Comparable(number) ==
  accepted = {} \/ (2 * (number - top) < SequenceModulus /\ 2 * (top - number) < SequenceModulus)

Arrive(number) ==
  LET seen == Observe(window, number % SequenceModulus) IN
  /\ Comparable(number)
  /\ window' = seen.window
  /\ IF seen.disposition \in Accepting
     THEN /\ accepted' = accepted \union {number}
          /\ top' = IF seen.disposition = "newest" THEN number ELSE top
     ELSE UNCHANGED <<accepted, top>>

WindowNext == \E number \in Numbers : Arrive(number)

WindowSpec == WindowInit /\ [][WindowNext]_windowVars

-----------------------------------------------------------------------------
(* Properties *)

(* What a packet that was, or was not, accepted before must be told. *)
Verdict(number) ==
  IF accepted = {} \/ number > top THEN "newest"
  ELSE IF number = top THEN "duplicate"
  ELSE IF top - number >= WindowWidth THEN "stale"
  ELSE IF number \in accepted THEN "duplicate"
  ELSE "out_of_order"

(* The window judges every packet that may arrive next by the packets it   *)
(* has accepted: none is accepted twice, and none that could still be told *)
(* apart is refused without having been accepted before (observe).         *)
VerdictsAreExact ==
  \A number \in Numbers :
    Comparable(number) =>
      Observe(window, number % SequenceModulus).disposition = Verdict(number)
====
