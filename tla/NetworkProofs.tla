---- MODULE NetworkProofs ----
(***************************************************************************)
(* Proofs about what lies between two peers: the receive window, for every *)
(* width and every number space, and the seeded transport, for every       *)
(* configuration, every size of packet and any number of sends.            *)
(*                                                                         *)
(* The window keeps just enough of the packets it has accepted: which of   *)
(* the last WindowWidth numbers are among them.                            *)
(***************************************************************************)
EXTENDS SequenceCalls, TransportCalls, FiniteSetTheorems, WellFoundedInduction, TLAPS

-----------------------------------------------------------------------------
(* The receive window: remainders *)

(* A multiple of the modulus that is not 0 is at least the modulus away. *)
LEMMA MultiplesAreApart ==
  ASSUME NEW m \in Nat \ {0}, NEW k \in Int
  PROVE  /\ k >= 1 => m * k >= m
         /\ k <= -1 => m * k <= -m
         /\ k >= 2 => m * k >= 2 * m
OBVIOUS

(* The remainder and what it leaves out. *)
LEMMA Division ==
  ASSUME NEW m \in Nat \ {0}, NEW a \in Int
  PROVE  \E q \in Int : a = m * q + (a % m) /\ a % m \in 0 .. m - 1
<1>1. a \div m \in Int /\ a % m \in 0 .. m - 1
  OBVIOUS
<1>2. a = m * (a \div m) + (a % m)
  OBVIOUS
<1>3. QED
  BY <1>1, <1>2

(* The distance of two remainders is that of the numbers, if these are     *)
(* less than the modulus apart.                                            *)
LEMMA DistanceOfRemainders ==
  ASSUME NEW m \in Nat \ {0}, NEW a \in Nat, NEW b \in Nat,
         b <= a, a - b < m
  PROVE  ((a % m) - (b % m)) % m = a - b
<1>0. a \in Int /\ b \in Int
  OBVIOUS
<1>1. PICK q \in Int : a = m * q + (a % m) /\ a % m \in 0 .. m - 1
  BY <1>0, Division, Zenon
<1>2. PICK r \in Int : b = m * r + (b % m) /\ b % m \in 0 .. m - 1
  BY <1>0, Division, Zenon
<1> DEFINE d == (a % m) - (b % m)
<1>3. d = (a - b) - m * (q - r) /\ d \in Int /\ -m < d /\ d < m
  BY <1>1, <1>2
<1>4. PICK s \in Int : d = m * s + (d % m) /\ d % m \in 0 .. m - 1
  <2> HIDE DEF d
  <2>1. QED
    BY <1>3, Division
<1> DEFINE k == s + q - r
<1>5. k \in Int /\ a - b = m * k + (d % m)
  <2> HIDE DEF d
  <2>1. QED
    BY <1>3, <1>4
<1>6. k = 0
  <2> HIDE DEF d, k
  <2>1. QED
    BY <1>4, <1>5, MultiplesAreApart
<1>7. QED
  <2> HIDE DEF k, d
  <2>1. a - b = d % m
    BY <1>4, <1>5, <1>6
  <2>2. QED
    BY <2>1 DEF d

(* The distance the other way round. *)
LEMMA OppositeRemainder ==
  ASSUME NEW m \in Nat \ {0}, NEW x \in Int, NEW y \in Int,
         y = -x, x % m # 0
  PROVE  y % m = m - (x % m)
<1>1. PICK q \in Int : x = m * q + (x % m) /\ x % m \in 0 .. m - 1
  BY Division, Zenon
<1>2. PICK r \in Int : y = m * r + (y % m) /\ y % m \in 0 .. m - 1
  BY Division, Zenon
<1> DEFINE k == q + r  u == x % m  v == y % m
<1>3. k \in Int /\ m * k + u + v = 0
  BY <1>1, <1>2
<1>4. u \in 1 .. m - 1 /\ v \in 0 .. m - 1
  BY <1>1, <1>2
<1>5. u + v = m
  <2> HIDE DEF k, u, v
  <2>1. k = -1
    <3>1. ~ (k >= 1)
      BY <1>3, <1>4, MultiplesAreApart
    <3>2. k # 0
      BY <1>3, <1>4
    <3>3. ~ (k <= -2)
      <4>1. -k \in Int /\ (-k >= 2 => m * (-k) >= 2 * m)
        BY <1>3, MultiplesAreApart
      <4>2. m * (-k) = u + v
        BY <1>3, <1>4
      <4>3. QED
        BY <1>3, <1>4, <4>1, <4>2
    <3>4. QED
      BY <1>3, <3>1, <3>2, <3>3
  <2>2. QED
    BY <1>3, <1>4, <2>1
<1>6. QED
  BY <1>4, <1>5

-----------------------------------------------------------------------------
(* What the window remembers of the accepted packets. *)

Remembers ==
  /\ window \in Windows
  /\ accepted \in SUBSET Nat
  /\ top \in Nat
  /\ window.initialized <=> accepted # {}
  /\ accepted # {} =>
       /\ top \in accepted
       /\ \A n \in accepted : n <= top
       /\ window.newest = top % SequenceModulus
       /\ \A b \in Offsets : b \in window.received <=> top - b \in accepted

Forward(number) == ((number % SequenceModulus) - window.newest) % SequenceModulus

Behind(number) == (window.newest - (number % SequenceModulus)) % SequenceModulus

(* The two distances that observe computes, of a packet that may arrive. *)
LEMMA DistancesAreTrue ==
  ASSUME Remembers, accepted # {}, NEW number \in Nat, Comparable(number)
  PROVE  /\ number >= top => Forward(number) = number - top
         /\ number < top  => /\ Behind(number) = top - number
                             /\ Forward(number) = SequenceModulus - (top - number)
<1>1. /\ SequenceModulus \in Nat \ {0}
      /\ top \in Nat
      /\ window.newest = top % SequenceModulus
      /\ number - top < SequenceModulus
      /\ top - number < SequenceModulus
  BY WindowAssumption DEF Remembers, Comparable
<1>2. ASSUME number >= top PROVE Forward(number) = number - top
  <2>1. top <= number
    BY <1>1, <1>2
  <2>2. ((number % SequenceModulus) - (top % SequenceModulus)) % SequenceModulus
          = number - top
    BY <1>1, <2>1, DistanceOfRemainders, Zenon
  <2>3. QED
    BY <1>1, <2>2 DEF Forward
<1>3. ASSUME number < top
      PROVE  /\ Behind(number) = top - number
             /\ Forward(number) = SequenceModulus - (top - number)
  <2> DEFINE x == (top % SequenceModulus) - (number % SequenceModulus)
             y == (number % SequenceModulus) - (top % SequenceModulus)
  <2>0. number <= top
    BY <1>1, <1>3
  <2>1. x % SequenceModulus = top - number
    BY <1>1, <2>0, DistanceOfRemainders, Zenon
  <2>2. x \in Int /\ y \in Int /\ y = -x
    BY <1>1
  <2>3. y % SequenceModulus = SequenceModulus - (top - number)
    <3> HIDE DEF x, y
    <3>1. x % SequenceModulus # 0
      BY <1>1, <1>3, <2>1
    <3>2. y % SequenceModulus = SequenceModulus - (x % SequenceModulus)
      BY <1>1, <2>2, <3>1, OppositeRemainder
    <3>3. QED
      BY <2>1, <3>2
  <2>4. QED
    BY <1>1, <2>1, <2>3 DEF Forward, Behind
<1>4. QED
  BY <1>2, <1>3

(* A window that remembers judges exactly. *)
LEMMA VerdictIsExact ==
  ASSUME Remembers, NEW number \in Nat, Comparable(number)
  PROVE  Observe(window, number % SequenceModulus).disposition = Verdict(number)
<1>1. CASE accepted = {}
  BY <1>1 DEF Remembers, Observe, Verdict
<1>2. CASE accepted # {} /\ number > top
  <2>1. Forward(number) = number - top
    BY <1>2, DistancesAreTrue DEF Remembers
  <2>2. Forward(number) # 0 /\ 2 * Forward(number) < SequenceModulus
    BY <1>2, <2>1 DEF Remembers, Comparable
  <2>3. QED
    BY <1>2, <2>2 DEF Remembers, Observe, Verdict, Forward
<1>3. CASE accepted # {} /\ number = top
  <2>1. Forward(number) = 0
    BY <1>3, DistancesAreTrue DEF Remembers
  <2>2. QED
    BY <1>3, <2>1 DEF Remembers, Observe, Verdict, Forward
<1>4. CASE accepted # {} /\ number < top
  <2>1. /\ Behind(number) = top - number
        /\ Forward(number) = SequenceModulus - (top - number)
    BY <1>4, DistancesAreTrue
  <2>2. Forward(number) # 0 /\ ~ (2 * Forward(number) < SequenceModulus)
    BY <1>4, <2>1, WindowAssumption DEF Remembers, Comparable
  <2>3. top - number < WindowWidth =>
          (Behind(number) \in window.received <=> number \in accepted)
    <3>1. top - number < WindowWidth =>
            top - number \in Offsets /\ top - (top - number) = number
      BY <1>4, WindowAssumption DEF Remembers, Offsets
    <3>2. QED
      BY <1>4, <2>1, <3>1 DEF Remembers
  <2>4. CASE top - number >= WindowWidth
    BY <1>4, <2>1, <2>2, <2>4 DEF Remembers, Observe, Verdict, Forward, Behind
  <2>5. CASE ~ (top - number >= WindowWidth)
    <3>1. top - number < WindowWidth
      BY <2>5, WindowAssumption DEF Remembers
    <3>2. QED
      BY <1>4, <2>1, <2>2, <2>3, <2>5, <3>1
         DEF Remembers, Observe, Verdict, Forward, Behind
  <2>6. QED
    BY <2>4, <2>5
<1>5. QED
  BY <1>1, <1>2, <1>3, <1>4 DEF Remembers

-----------------------------------------------------------------------------
(* The window keeps remembering *)

(* A new window remembers nothing, and nothing was accepted. *)
LEMMA WindowInitRemembers ==
  WindowInit => Remembers
BY WindowAssumption, NumbersAssumption
   DEF WindowInit, Remembers, NewWindow, Windows, SequenceNumbers, Offsets

(* An accepted packet newer than every other moves the window. *)
LEMMA NewestIsRemembered ==
  ASSUME Remembers, NEW number \in Nat, Comparable(number), Arrive(number),
         Verdict(number) = "newest"
  PROVE  Remembers'
<1> DEFINE sequence == number % SequenceModulus
<1>0. sequence \in SequenceNumbers /\ SequenceModulus \in Nat \ {0}
  BY WindowAssumption DEF SequenceNumbers
<1>1. Observe(window, sequence).disposition = "newest"
  BY VerdictIsExact
<1>2. accepted' = accepted \union {number} /\ top' = number
  BY <1>1 DEF Arrive, Accepting
<1>3. CASE accepted = {}
  <2>1. window' = [initialized |-> TRUE, newest |-> sequence, received |-> {0}]
    BY <1>3 DEF Arrive, Observe, Remembers
  <2>2. \A b \in Offsets : b \in window'.received <=> number - b \in accepted'
    BY <1>2, <1>3, <2>1 DEF Offsets
  <2>3. window' \in Windows
    BY <1>0, <2>1, WindowAssumption DEF Windows, Offsets
  <2>4. QED
    BY <1>2, <1>3, <2>1, <2>2, <2>3 DEF Remembers
<1>4. CASE accepted # {}
  <2>1. number > top
    BY <1>4 DEF Verdict, Remembers
  <2>2. Forward(number) = number - top
    BY <1>4, <2>1, DistancesAreTrue DEF Remembers
  <2>3. Forward(number) # 0 /\ 2 * Forward(number) < SequenceModulus
    BY <1>4, <2>1, <2>2 DEF Remembers, Comparable
  <2>4. window' = Advanced(window, sequence, Forward(number))
    BY <1>4, <2>3 DEF Arrive, Observe, Remembers, Forward
  <2>5. /\ window'.newest = sequence
        /\ window'.initialized
        /\ window'.received =
             {0} \union ({b + (number - top) : b \in window.received} \intersect Offsets)
    BY <1>4, <2>2, <2>4 DEF Advanced, Windows, Remembers
  <2>6. window' \in Windows
    <3> DEFINE mask == {0} \union
                 ({b + Forward(number) : b \in window.received} \intersect Offsets)
    <3>1. mask \in SUBSET Offsets
      BY WindowAssumption DEF Offsets
    <3>2. window' = [window EXCEPT !.newest = sequence, !.received = mask]
      BY <2>4 DEF Advanced
    <3> HIDE DEF mask, sequence
    <3>3. QED
      BY <1>0, <3>1, <3>2 DEF Windows, Remembers
  <2>7. ASSUME NEW b \in Offsets
        PROVE  b \in window'.received <=> number - b \in accepted'
    <3>0. /\ b \in Nat /\ b < WindowWidth /\ WindowWidth \in Nat
          /\ top \in Nat /\ accepted \in SUBSET Nat
          /\ \A n \in accepted : n <= top
          /\ window.received \in SUBSET Offsets
      BY <1>4, WindowAssumption DEF Offsets, Remembers, Windows
    <3>1. CASE b = 0
      BY <1>2, <2>5, <3>0, <3>1 DEF Offsets
    <3>2. CASE b # 0 /\ b < number - top
      <4>1. ~ (b \in window'.received)
        BY <2>1, <2>5, <3>0, <3>2 DEF Offsets
      <4>2. number - b > top /\ number - b # number
        BY <3>0, <3>2
      <4>3. QED
        BY <1>2, <3>0, <4>1, <4>2
    <3>3. CASE b >= number - top
      <4> DEFINE c == b - (number - top)
      <4>1. c \in Offsets /\ top - c = number - b /\ c + (number - top) = b /\ b # 0
        BY <2>1, <3>0, <3>3 DEF Offsets
      <4>2. b \in window'.received <=> c \in window.received
        <5>1. \A e \in window.received : e + (number - top) = b => e = c
          BY <2>1, <3>0 DEF Offsets
        <5>2. QED
          BY <2>5, <4>1, <5>1
      <4>3. c \in window.received <=> top - c \in accepted
        BY <1>4, <4>1 DEF Remembers
      <4>4. number - b # number
        BY <3>0, <4>1
      <4>5. QED
        BY <1>2, <4>1, <4>2, <4>3, <4>4
    <3>4. QED
      BY <2>1, <3>0, <3>1, <3>2, <3>3
  <2>8. top' \in accepted' /\ (\A n \in accepted' : n <= top')
    BY <1>2, <1>4, <2>1 DEF Remembers
  <2>9. QED
    BY <1>2, <2>5, <2>6, <2>7, <2>8 DEF Remembers
<1>5. QED
  BY <1>3, <1>4

(* A late packet fills its place in the window. *)
LEMMA LateIsRemembered ==
  ASSUME Remembers, NEW number \in Nat, Comparable(number), Arrive(number),
         Verdict(number) = "out_of_order"
  PROVE  Remembers'
<1> DEFINE sequence == number % SequenceModulus
<1>1. Observe(window, sequence).disposition = "out_of_order"
  BY VerdictIsExact
<1>2. accepted' = accepted \union {number} /\ top' = top
  BY <1>1 DEF Arrive, Accepting
<1>3. /\ accepted # {} /\ number < top /\ top - number < WindowWidth
      /\ top \in Nat /\ window \in Windows
  BY WindowAssumption DEF Verdict, Remembers
<1>4. window' = [window EXCEPT !.received = @ \union {Behind(number)}]
  BY <1>1 DEF Arrive, Observe, Behind
<1>5. Behind(number) = top - number /\ top - number \in Offsets
  BY <1>3, DistancesAreTrue, WindowAssumption DEF Offsets
<1>6. /\ window'.received = window.received \union {top - number}
      /\ window'.newest = window.newest
      /\ window'.initialized = window.initialized
      /\ window' \in Windows
  BY <1>3, <1>4, <1>5 DEF Windows
<1>7. ASSUME NEW b \in Offsets
      PROVE  b \in window'.received <=> top - b \in accepted'
  <2>1. b = top - number <=> top - b = number
    BY <1>3, WindowAssumption DEF Offsets
  <2>2. b \in window.received <=> top - b \in accepted
    BY <1>3 DEF Remembers
  <2>3. QED
    BY <1>2, <1>6, <2>1, <2>2
<1>8. top' \in accepted' /\ (\A n \in accepted' : n <= top')
  BY <1>2, <1>3 DEF Remembers
<1>9. QED
  BY <1>2, <1>3, <1>6, <1>7, <1>8 DEF Remembers

(* A packet that is refused changes nothing. *)
LEMMA RefusedChangesNothing ==
  ASSUME Remembers, NEW number \in Nat, Comparable(number), Arrive(number),
         Verdict(number) \in {"duplicate", "stale"}
  PROVE  UNCHANGED windowVars
<1> DEFINE sequence == number % SequenceModulus
<1>1. Observe(window, sequence).disposition \in {"duplicate", "stale"}
  BY VerdictIsExact
<1>2. Observe(window, sequence).window = window
  BY <1>1 DEF Observe
<1>3. QED
  BY <1>1, <1>2 DEF Arrive, Accepting, windowVars

(* Every arrival keeps the mask equal to what was accepted. *)
LEMMA WindowNextRemembers ==
  ASSUME Remembers, [WindowNext]_windowVars
  PROVE  Remembers'
<1>1. CASE UNCHANGED windowVars
  BY <1>1 DEF windowVars, Remembers
<1>2. ASSUME NEW number \in Numbers, Arrive(number) PROVE Remembers'
  <2>1. number \in Nat /\ Comparable(number)
    BY <1>2, NumbersAssumption DEF Numbers, Arrive
  <2>2. Verdict(number) \in {"newest", "out_of_order", "duplicate", "stale"}
    BY DEF Verdict
  <2>3. CASE Verdict(number) = "newest"
    BY <1>2, <2>1, <2>3, NewestIsRemembered
  <2>4. CASE Verdict(number) = "out_of_order"
    BY <1>2, <2>1, <2>4, LateIsRemembered
  <2>5. CASE Verdict(number) \in {"duplicate", "stale"}
    BY <1>1, <1>2, <2>1, <2>5, RefusedChangesNothing DEF windowVars, Remembers
  <2>6. QED
    BY <2>2, <2>3, <2>4, <2>5
<1>3. QED
  BY <1>1, <1>2 DEF WindowNext

(* observe never takes one packet for another, however packets are lost,   *)
(* repeated and reordered and however often the numbers wrap, as long as   *)
(* none arrives from half of the number space away.                        *)
THEOREM VerdictCorrectness ==
  WindowSpec => []VerdictsAreExact
<1>1. WindowInit => Remembers
  BY WindowInitRemembers
<1>2. Remembers /\ [WindowNext]_windowVars => Remembers'
  BY WindowNextRemembers
<1>3. Remembers => VerdictsAreExact
  BY VerdictIsExact, NumbersAssumption DEF VerdictsAreExact, Numbers
<1>4. QED
  BY <1>1, <1>2, <1>3, PTL DEF WindowSpec

-----------------------------------------------------------------------------
(* Sums of sizes *)

Plus(x, y) == x + y
SizeOf(p) == p.size
AnyOf(s) == CHOOSE x \in s : TRUE

(* The equation of the recursive function, on the sets in D. *)
Unfolds(g, D) ==
  g = [s \in D |-> IF s = {} THEN 0 ELSE Plus(SizeOf(AnyOf(s)), g[s \ {AnyOf(s)}])]

(* A nonempty set of natural numbers has a least one. *)
LEMMA LeastNat ==
  ASSUME NEW T \in SUBSET Nat, T # {}
  PROVE  \E n \in T : \A m \in T : n <= m
<1>1. IsWellFoundedOn(OpToRel(<, Nat), Nat)
  BY NatLessThanWellFounded
<1>2. PICK n \in T : \A m \in T : ~ (<<m, n>> \in OpToRel(<, Nat))
  BY <1>1, WFMin
<1>3. \A m \in T : ~ (m < n)
  BY <1>2 DEF OpToRel
<1>4. \A m \in T : n <= m
  <2> TAKE m \in T
  <2>1. m \in Nat /\ n \in Nat /\ ~ (m < n)
    BY <1>3
  <2> QED
    BY <2>1
<1> QED
  BY <1>4

(* A nonempty set of finite sets has a smallest one. *)
LEMMA SmallestSet ==
  ASSUME NEW T, T # {}, \A s \in T : IsFiniteSet(s)
  PROVE  \E s \in T : \A u \in T : Cardinality(s) <= Cardinality(u)
<1> DEFINE N == {Cardinality(s) : s \in T}
<1>1. N \in SUBSET Nat /\ N # {}
  BY FS_CardinalityType
<1>2. PICK n \in N : \A m \in N : n <= m
  BY <1>1, LeastNat
<1> QED
  BY <1>2

-----------------------------------------------------------------------------
(* There is a function with the fold's equation. *)

Small(S, n) == {s \in SUBSET S : Cardinality(s) <= n}

(* A subset of S without its first element is a smaller one. *)
LEMMA RestIsSmaller ==
  ASSUME NEW S, IsFiniteSet(S), NEW s \in SUBSET S, s # {}
  PROVE  /\ s \ {AnyOf(s)} \in SUBSET S /\ AnyOf(s) \in s
         /\ IsFiniteSet(s) /\ IsFiniteSet(s \ {AnyOf(s)})
         /\ Cardinality(s) \in Nat /\ Cardinality(s \ {AnyOf(s)}) \in Nat
         /\ Cardinality(s \ {AnyOf(s)}) = Cardinality(s) - 1
<1>1. AnyOf(s) \in s /\ IsFiniteSet(s)
  BY FS_Subset DEF AnyOf
<1> QED
  BY <1>1, FS_RemoveElement, FS_CardinalityType

(* The smallest size up to which no function unfolds would be one more     *)
(* than a size up to which one does, and that one could be extended.       *)
LEMMA FoldExistsBelow ==
  ASSUME NEW S, IsFiniteSet(S)
  PROVE  \A n \in Nat : \E g : Unfolds(g, Small(S, n))
<1> DEFINE bad == {n \in Nat : ~ \E g : Unfolds(g, Small(S, n))}
<1> SUFFICES ASSUME bad # {}
             PROVE  FALSE
  OBVIOUS
<1>1. PICK n \in bad : \A m \in bad : n <= m
  BY LeastNat
<1>2. n \in Nat /\ ~ \E g : Unfolds(g, Small(S, n))
  OBVIOUS
<1>3. n # 0
  <2> SUFFICES ASSUME n = 0
               PROVE  FALSE
    OBVIOUS
  <2>1. \A s \in Small(S, n) : s = {}
    BY FS_Subset, FS_EmptySet, FS_CardinalityType DEF Small
  <2> DEFINE g == [s \in Small(S, n) |-> 0]
  <2>2. Unfolds(g, Small(S, n))
    BY <2>1 DEF Unfolds
  <2> QED
    BY <1>2, <2>2
<1>4. n - 1 \in Nat /\ n - 1 \notin bad
  BY <1>1, <1>2, <1>3
<1>5. PICK g : Unfolds(g, Small(S, n - 1))
  BY <1>4
<1> DEFINE h == [s \in Small(S, n) |-> IF s = {} THEN 0 ELSE Plus(SizeOf(AnyOf(s)), g[s \ {AnyOf(s)}])]
<1>6. \A s \in Small(S, n) : s # {} => s \ {AnyOf(s)} \in Small(S, n - 1)
  <2> TAKE s \in Small(S, n)
  <2> HAVE s # {}
  <2>1. s \in SUBSET S /\ Cardinality(s) <= n
    BY DEF Small
  <2>2. /\ s \ {AnyOf(s)} \in SUBSET S
        /\ Cardinality(s) \in Nat /\ Cardinality(s \ {AnyOf(s)}) = Cardinality(s) - 1
    BY <2>1, RestIsSmaller
  <2>3. Cardinality(s \ {AnyOf(s)}) <= n - 1
    BY <1>2, <2>1, <2>2
  <2> QED
    BY <2>2, <2>3 DEF Small
<1>7. \A u \in Small(S, n - 1) : u \in Small(S, n) /\ h[u] = g[u]
  <2> TAKE u \in Small(S, n - 1)
  <2>1. Cardinality(u) \in Nat /\ Cardinality(u) <= n - 1 /\ u \in SUBSET S
    BY FS_Subset, FS_CardinalityType DEF Small
  <2>2. u \in Small(S, n)
    BY <1>2, <2>1 DEF Small
  <2>3. g[u] = IF u = {} THEN 0 ELSE Plus(SizeOf(AnyOf(u)), g[u \ {AnyOf(u)}])
    BY <1>5 DEF Unfolds
  <2> QED
    BY <2>2, <2>3
<1>8. \A s \in Small(S, n) : s # {} => h[s \ {AnyOf(s)}] = g[s \ {AnyOf(s)}]
  BY <1>6, <1>7
<1>9. Unfolds(h, Small(S, n))
  <2>1. \A s \in Small(S, n) :
          (IF s = {} THEN 0 ELSE Plus(SizeOf(AnyOf(s)), g[s \ {AnyOf(s)}]))
            = (IF s = {} THEN 0 ELSE Plus(SizeOf(AnyOf(s)), h[s \ {AnyOf(s)}]))
    BY <1>8
  <2> QED
    BY <2>1 DEF Unfolds
<1> QED
  BY <1>2, <1>9

(* The recursive function of a fold over the subsets of S exists. *)
LEMMA FoldExists ==
  ASSUME NEW S, IsFiniteSet(S)
  PROVE  \E g : Unfolds(g, SUBSET S)
<1>1. Cardinality(S) \in Nat
  BY FS_CardinalityType
<1>2. Small(S, Cardinality(S)) = SUBSET S
  BY FS_Subset DEF Small
<1>3. \E g : Unfolds(g, Small(S, Cardinality(S)))
  BY <1>1, FoldExistsBelow
<1> QED
  BY <1>2, <1>3

(* Two functions with the equation agree where both are defined. *)
LEMMA FoldIsUnique ==
  ASSUME NEW S, IsFiniteSet(S), NEW T \in SUBSET S, NEW g, NEW h,
         Unfolds(g, SUBSET S), Unfolds(h, SUBSET T)
  PROVE  g[T] = h[T]
<1> DEFINE bad == {s \in SUBSET T : g[s] # h[s]}
<1> SUFFICES ASSUME bad # {}
             PROVE  FALSE
  OBVIOUS
<1>1. \A s \in bad : IsFiniteSet(s)
  BY FS_Subset
<1>2. PICK s \in bad : \A u \in bad : Cardinality(s) <= Cardinality(u)
  BY <1>1, SmallestSet
<1>3. s \in SUBSET T /\ s \in SUBSET S /\ g[s] # h[s]
  OBVIOUS
<1>4. /\ g[s] = IF s = {} THEN 0 ELSE Plus(SizeOf(AnyOf(s)), g[s \ {AnyOf(s)}])
      /\ h[s] = IF s = {} THEN 0 ELSE Plus(SizeOf(AnyOf(s)), h[s \ {AnyOf(s)}])
  BY <1>3 DEF Unfolds
<1>5. s # {}
  BY <1>3, <1>4
<1> DEFINE rest == s \ {AnyOf(s)}
<1>6. rest \in SUBSET T /\ Cardinality(s) \in Nat /\ Cardinality(rest) = Cardinality(s) - 1
  BY <1>3, <1>5, RestIsSmaller
<1>7. rest \notin bad
  <2> HIDE DEF rest, bad
  <2> QED
    BY <1>2, <1>6
<1> QED
  BY <1>3, <1>4, <1>5, <1>6, <1>7

(* The fold is the value of that function. *)
LEMMA FoldedIsUnfolded ==
  ASSUME NEW S, IsFiniteSet(S)
  PROVE  \E g : Unfolds(g, SUBSET S) /\ BytesOf(S) = g[S]
<1> DEFINE iter == CHOOSE g : Unfolds(g, SUBSET S)
<1>1. Unfolds(iter, SUBSET S)
  BY FoldExists
<1>2. BytesOf(S) = iter[S]
  BY DEF BytesOf, MapThenSumSet, MapThenFoldSet, Unfolds, Plus, SizeOf, AnyOf
<1> HIDE DEF iter
<1> QED
  BY <1>1, <1>2

(* A fold over nothing is its base, and a fold over a finite set combines  *)
(* the first element with the fold of the rest.                            *)
LEMMA BytesUnfold ==
  ASSUME NEW S, IsFiniteSet(S)
  PROVE  /\ S = {} => BytesOf(S) = 0
         /\ S # {} => BytesOf(S) = Plus(SizeOf(AnyOf(S)), BytesOf(S \ {AnyOf(S)}))
<1>1. PICK g : Unfolds(g, SUBSET S) /\ BytesOf(S) = g[S]
  BY FoldedIsUnfolded
<1>2. g[S] = IF S = {} THEN 0 ELSE Plus(SizeOf(AnyOf(S)), g[S \ {AnyOf(S)}])
  BY <1>1 DEF Unfolds
<1>3. ASSUME S # {}
      PROVE  g[S \ {AnyOf(S)}] = BytesOf(S \ {AnyOf(S)})
  <2> DEFINE T == S \ {AnyOf(S)}
  <2>1. IsFiniteSet(T) /\ T \in SUBSET S
    BY FS_Subset DEF AnyOf
  <2> HIDE DEF T
  <2>2. PICK h : Unfolds(h, SUBSET T) /\ BytesOf(T) = h[T]
    BY <2>1, FoldedIsUnfolded
  <2>3. g[T] = h[T]
    BY <1>1, <2>1, <2>2, FoldIsUnique
  <2> QED
    BY <2>2, <2>3 DEF T
<1> QED
  BY <1>1, <1>2, <1>3

(* Finite sets of packets whose sizes are numbers. *)
Sized(S) == IsFiniteSet(S) /\ \A p \in S : p.size \in Nat

(* A subset of a finite set of packets with sizes is one. *)
LEMMA SizedSubset ==
  ASSUME NEW S, Sized(S), NEW T \in SUBSET S
  PROVE  Sized(T)
  BY FS_Subset DEF Sized

(* The bytes of no packets are 0; those of some are the size of one of     *)
(* them and the bytes of the others.                                       *)
LEMMA BytesStep ==
  ASSUME NEW S, Sized(S)
  PROVE  /\ S = {} => BytesOf(S) = 0
         /\ S # {} => AnyOf(S) \in S /\ BytesOf(S) = AnyOf(S).size + BytesOf(S \ {AnyOf(S)})
<1>1. \A s : s # {} => AnyOf(s) \in s
  BY DEF AnyOf
<1>2. /\ S = {} => BytesOf(S) = 0
      /\ S # {} => BytesOf(S) = Plus(SizeOf(AnyOf(S)), BytesOf(S \ {AnyOf(S)}))
  BY BytesUnfold DEF Sized
<1> QED
  BY <1>1, <1>2 DEF Plus, SizeOf

(* Of the subsets of a finite set that have some property, one is such     *)
(* that no proper part of it has the property.                             *)
LEMMA SmallestPart ==
  ASSUME NEW S, IsFiniteSet(S), NEW T \in SUBSET SUBSET S, T # {}
  PROVE  \E s \in T : IsFiniteSet(s) /\ \A x \in s : s \ {x} \notin T
<1> DEFINE N == {Cardinality(s) : s \in T}
<1>1. \A s \in T : IsFiniteSet(s) /\ Cardinality(s) \in Nat
  BY FS_Subset, FS_CardinalityType
<1>2. N \in SUBSET Nat /\ N # {}
  BY <1>1
<1>3. PICK n \in N : \A m \in N : n <= m
  BY <1>2, LeastNat
<1>4. PICK s \in T : n = Cardinality(s)
  OBVIOUS
<1>5. ASSUME NEW x \in s, s \ {x} \in T
      PROVE  FALSE
  <2>1. Cardinality(s \ {x}) = Cardinality(s) - 1 /\ Cardinality(s) \in Nat
    BY <1>1, FS_RemoveElement
  <2>2. n <= Cardinality(s \ {x})
    BY <1>3, <1>5
  <2> QED
    BY <1>4, <2>1, <2>2
<1> QED
  BY <1>1, <1>4, <1>5

(* The bytes of a finite set of packets are a natural number. *)
LEMMA BytesType ==
  ASSUME NEW S, Sized(S)
  PROVE  BytesOf(S) \in Nat
<1> DEFINE bad == {s \in SUBSET S : BytesOf(s) \notin Nat}
<1> SUFFICES ASSUME bad # {}
             PROVE  FALSE
  OBVIOUS
<1>1. PICK s \in bad : \A x \in s : s \ {x} \notin bad
  BY SmallestPart DEF Sized
<1>2. s \in SUBSET S /\ BytesOf(s) \notin Nat /\ Sized(s)
  BY SizedSubset
<1>3. s # {}
  <2>1. s = {} => BytesOf(s) = 0
    BY <1>2, BytesStep
  <2> QED
    BY <1>2, <2>1
<1> DEFINE c == AnyOf(s)
<1>4. c \in s /\ BytesOf(s) = c.size + BytesOf(s \ {c})
  BY <1>2, <1>3, BytesStep
<1> HIDE DEF c
<1>5. c.size \in Nat /\ BytesOf(s \ {c}) \in Nat
  BY <1>1, <1>2, <1>4 DEF Sized
<1> QED
  BY <1>2, <1>4, <1>5

(* The element that is taken first does not matter. *)
LEMMA BytesWithout ==
  ASSUME NEW S, Sized(S), NEW p \in S
  PROVE  BytesOf(S) = p.size + BytesOf(S \ {p})
<1> DEFINE bad == {s \in SUBSET S : \E x \in s : BytesOf(s) # x.size + BytesOf(s \ {x})}
<1> SUFFICES ASSUME bad # {}
             PROVE  FALSE
  OBVIOUS
<1>1. PICK s \in bad : \A x \in s : s \ {x} \notin bad
  BY SmallestPart DEF Sized
<1>2. PICK x \in s : BytesOf(s) # x.size + BytesOf(s \ {x})
  BY <1>1
<1>3. s \in SUBSET S /\ Sized(s) /\ s # {}
  BY <1>2, SizedSubset
<1> DEFINE c == AnyOf(s)
<1>4. c \in s /\ BytesOf(s) = c.size + BytesOf(s \ {c})
  BY <1>3, BytesStep
<1> HIDE DEF c
<1>5. c # x
  BY <1>2, <1>4
<1>6. BytesOf(s \ {c}) = x.size + BytesOf((s \ {c}) \ {x})
  BY <1>1, <1>2, <1>3, <1>4, <1>5
<1>7. BytesOf(s \ {x}) = c.size + BytesOf((s \ {x}) \ {c})
  BY <1>1, <1>2, <1>3, <1>4, <1>5
<1>8. (s \ {c}) \ {x} = (s \ {x}) \ {c}
  OBVIOUS
<1> DEFINE rest == (s \ {x}) \ {c}
<1>9. x.size \in Nat /\ c.size \in Nat /\ BytesOf(rest) \in Nat
  <2>1. Sized(rest)
    BY <1>3, SizedSubset
  <2> QED
    BY <1>2, <1>3, <1>4, <2>1, BytesType DEF Sized
<1> HIDE DEF rest
<1>10. BytesOf(s \ {c}) = x.size + BytesOf(rest) /\ BytesOf(s \ {x}) = c.size + BytesOf(rest)
  BY <1>6, <1>7, <1>8 DEF rest
<1> QED
  BY <1>2, <1>4, <1>9, <1>10

(* The bytes of a set are those of a part and those of the rest. *)
LEMMA BytesSplit ==
  ASSUME NEW S, Sized(S), NEW T \in SUBSET S
  PROVE  BytesOf(S) = BytesOf(T) + BytesOf(S \ T)
<1> DEFINE bad == {s \in SUBSET T : BytesOf(S) # BytesOf(s) + BytesOf(S \ s)}
<1> SUFFICES ASSUME bad # {}
             PROVE  FALSE
  OBVIOUS
<1>1. PICK s \in bad : \A x \in s : s \ {x} \notin bad
  <2>1. IsFiniteSet(T)
    BY FS_Subset DEF Sized
  <2> QED
    BY <2>1, SmallestPart
<1>2. s \in SUBSET T /\ s \in SUBSET S /\ BytesOf(S) # BytesOf(s) + BytesOf(S \ s)
  OBVIOUS
<1>3. s # {}
  <2> SUFFICES ASSUME s = {}
               PROVE  FALSE
    OBVIOUS
  <2>1. BytesOf(s) = 0 /\ S \ s = S
    BY <1>2, SizedSubset, BytesStep
  <2>2. BytesOf(S) \in Nat
    BY BytesType
  <2> QED
    BY <1>2, <2>1, <2>2
<1>4. PICK x : x \in s
  BY <1>3
<1> DEFINE u == s \ {x}
           v == S \ u
<1>5. BytesOf(S) = BytesOf(u) + BytesOf(v)
  BY <1>1, <1>2, <1>4
<1>6. BytesOf(s) = x.size + BytesOf(u)
  BY <1>2, <1>4, SizedSubset, BytesWithout
<1>7. BytesOf(v) = x.size + BytesOf(S \ s)
  <2>1. v \in SUBSET S /\ x \in v /\ v \ {x} = S \ s
    BY <1>2, <1>4
  <2>2. Sized(v)
    BY <2>1, SizedSubset
  <2>3. BytesOf(v) = x.size + BytesOf(v \ {x})
    BY <2>1, <2>2, BytesWithout
  <2> QED
    BY <2>1, <2>3
<1>8. x.size \in Nat /\ BytesOf(u) \in Nat /\ BytesOf(S \ s) \in Nat
  <2>1. u \in SUBSET S /\ S \ s \in SUBSET S /\ x \in S
    BY <1>2, <1>4
  <2>2. Sized(u) /\ Sized(S \ s)
    BY <2>1, SizedSubset
  <2> QED
    BY <2>1, <2>2, BytesType DEF Sized
<1> HIDE DEF u, v
<1> QED
  BY <1>2, <1>5, <1>6, <1>7, <1>8

(* A part of a set of packets has no more bytes, and the rest has the      *)
(* difference.                                                             *)
LEMMA BytesOfPart ==
  ASSUME NEW S, Sized(S), NEW T \in SUBSET S
  PROVE  /\ BytesOf(T) \in Nat /\ BytesOf(S) \in Nat
         /\ BytesOf(T) <= BytesOf(S)
         /\ BytesOf(S \ T) = BytesOf(S) - BytesOf(T)
<1>1. Sized(T) /\ Sized(S \ T)
  BY SizedSubset
<1>2. BytesOf(T) \in Nat /\ BytesOf(S \ T) \in Nat /\ BytesOf(S) \in Nat
  BY <1>1, BytesType
<1>3. BytesOf(S) = BytesOf(T) + BytesOf(S \ T)
  BY BytesSplit
<1> QED
  BY <1>2, <1>3

(* The bytes of two sets without a common packet add up. *)
LEMMA BytesOfUnion ==
  ASSUME NEW S, Sized(S), NEW T, Sized(T), S \cap T = {}
  PROVE  Sized(S \union T) /\ BytesOf(S \union T) = BytesOf(S) + BytesOf(T)
<1>1. Sized(S \union T)
  BY FS_Union DEF Sized
<1>2. (S \union T) \ S = T /\ S \in SUBSET (S \union T)
  OBVIOUS
<1>3. BytesOf(S \union T) = BytesOf(S) + BytesOf((S \union T) \ S)
  BY <1>1, <1>2, BytesSplit
<1> QED
  BY <1>1, <1>2, <1>3

-----------------------------------------------------------------------------
(* Least and greatest elements, and the oldest packets *)

(* Min of a set of numbers that is not empty is its least element. *)
LEMMA MinOfNats ==
  ASSUME NEW S \in SUBSET Nat, S # {}
  PROVE  Min(S) \in S /\ \A x \in S : Min(S) <= x
<1>1. \E m \in S : \A x \in S : m <= x
  BY LeastNat
<1> QED
  BY <1>1 DEF Min

(* Min and Max of two numbers. *)
LEMMA MinMaxOfTwo ==
  ASSUME NEW x \in Int, NEW y \in Int
  PROVE  /\ Min({x, y}) = IF x <= y THEN x ELSE y
         /\ Max({x, y}) = IF x <= y THEN y ELSE x
  BY DEF Min, Max

(* Finite sets of packets with different ordinals. *)
Numbered(Q) ==
  /\ IsFiniteSet(Q)
  /\ \A p \in Q : p.ordinal \in Nat
  /\ \A p, q \in Q : p.ordinal = q.ordinal => p = q

Older(Q, p) == {q \in Q : q.ordinal < p.ordinal}

Oldest(Q, k) == {p \in Q : Cardinality(Older(Q, p)) < k}

(* Fewer packets are older than a packet of a queue than there are in it. *)
LEMMA OlderCount ==
  ASSUME NEW Q, Numbered(Q), NEW p \in Q
  PROVE  /\ IsFiniteSet(Older(Q, p)) /\ Cardinality(Older(Q, p)) \in Nat
         /\ Cardinality(Older(Q, p)) < Cardinality(Q) /\ Cardinality(Q) \in Nat
<1>1. Older(Q, p) \in SUBSET Q /\ Older(Q, p) # Q
  BY DEF Older, Numbered
<1> QED
  BY <1>1, FS_Subset, FS_CardinalityType DEF Numbered

(* There are k among the k oldest of at least k packets, and all of them   *)
(* are the oldest when k is their number.                                  *)
LEMMA OldestCount ==
  ASSUME NEW Q, Numbered(Q), NEW k \in 0 .. Cardinality(Q)
  PROVE  Cardinality(Oldest(Q, k)) = k
<1>1. Cardinality(Q) \in Nat
  BY FS_CardinalityType DEF Numbered
<1> DEFINE bad == {n \in 0 .. Cardinality(Q) : Cardinality(Oldest(Q, n)) # n}
<1> SUFFICES ASSUME bad # {}
             PROVE  FALSE
  OBVIOUS
<1>2. bad \in SUBSET Nat
  BY <1>1
<1>3. PICK n \in bad : \A m \in bad : n <= m
  BY <1>2, LeastNat
<1>4. n \in 0 .. Cardinality(Q) /\ Cardinality(Oldest(Q, n)) # n
  OBVIOUS
<1>5. n # 0
  <2> SUFFICES ASSUME n = 0
               PROVE  FALSE
    OBVIOUS
  <2>1. Oldest(Q, n) = {}
    BY OlderCount DEF Oldest
  <2> QED
    BY <1>4, <2>1, FS_EmptySet
<1> DEFINE m == n - 1
           before == Oldest(Q, m)
<1>6. m \in Nat /\ n = m + 1 /\ m < Cardinality(Q) /\ Cardinality(before) = m
  <2>1. m \in Nat /\ n = m + 1 /\ m < Cardinality(Q) /\ m \notin bad
    BY <1>1, <1>3, <1>4, <1>5
  <2> QED
    BY <1>1, <2>1
<1> HIDE DEF m
<1>7. before \in SUBSET Q /\ IsFiniteSet(before)
  BY FS_Subset DEF Oldest, Numbered
<1>8. Q \ before # {}
  BY <1>6, <1>7
<1>9. PICK p \in Q \ before : \A q \in Q \ before : p.ordinal <= q.ordinal
  <2> DEFINE ordinals == {q.ordinal : q \in Q \ before}
  <2>1. ordinals \in SUBSET Nat /\ ordinals # {}
    BY <1>8 DEF Numbered
  <2>2. PICK o \in ordinals : \A x \in ordinals : o <= x
    BY <2>1, LeastNat
  <2> QED
    BY <2>2
<1>10. Older(Q, p) \in SUBSET before
  <2> SUFFICES ASSUME NEW q \in Q, q.ordinal < p.ordinal, q \notin before
               PROVE  FALSE
    BY DEF Older
  <2>1. p.ordinal <= q.ordinal /\ p.ordinal \in Nat /\ q.ordinal \in Nat
    BY <1>9 DEF Numbered
  <2> QED
    BY <2>1
<1>11. Cardinality(Older(Q, p)) = m /\ Older(Q, p) = before
  <2>1. Cardinality(Older(Q, p)) <= m
    BY <1>6, <1>7, <1>10, FS_Subset
  <2>2. Cardinality(Older(Q, p)) \in Nat /\ ~ (Cardinality(Older(Q, p)) < m)
    BY <1>9, OlderCount DEF Oldest
  <2>3. Cardinality(Older(Q, p)) = m
    BY <1>6, <2>1, <2>2
  <2> QED
    BY <1>6, <1>7, <1>10, <2>3, FS_Subset
<1>12. Cardinality(before \union {p}) = m + 1
  <2> HIDE DEF before
  <2>1. p \notin before
    BY <1>9
  <2>2. Cardinality(before \union {p}) = Cardinality(before) + 1
    BY <1>7, <2>1, FS_AddElement
  <2> QED
    BY <1>6, <2>2
<1>13. Oldest(Q, n) = before \union {p}
  <2>1. before \union {p} \subseteq Oldest(Q, n)
    <3>1. Cardinality(Older(Q, p)) < n
      BY <1>6, <1>11
    <3>2. \A q \in before : Cardinality(Older(Q, q)) < n
      <4> TAKE q \in before
      <4>1. Cardinality(Older(Q, q)) < m /\ Cardinality(Older(Q, q)) \in Nat
        BY <1>7, OlderCount DEF Oldest
      <4> QED
        BY <1>6, <4>1
    <3> QED
      BY <1>7, <1>9, <3>1, <3>2 DEF Oldest
  <2>2. ASSUME NEW q \in Oldest(Q, n), q \notin before
        PROVE  q = p
    <3>1. /\ q \in Q /\ p.ordinal <= q.ordinal /\ p.ordinal \in Nat /\ q.ordinal \in Nat
          /\ Cardinality(Older(Q, q)) \in Nat /\ Cardinality(Older(Q, q)) < n
      BY <1>9, <2>2, OlderCount DEF Oldest, Numbered
    <3>2. CASE q.ordinal = p.ordinal
      BY <1>9, <3>1, <3>2 DEF Numbered
    <3>3. CASE p.ordinal < q.ordinal
      <4>1. before \union {p} \subseteq Older(Q, q)
        <5>1. \A r \in before : r \in Q /\ r.ordinal < p.ordinal /\ r.ordinal \in Nat
          BY <1>11 DEF Older, Numbered
        <5>2. \A r \in before : r.ordinal < q.ordinal
          BY <3>1, <3>3, <5>1
        <5> QED
          BY <1>9, <3>3, <5>1, <5>2 DEF Older
      <4>2. Cardinality(before \union {p}) <= Cardinality(Older(Q, q))
        BY <3>1, <4>1, OlderCount, FS_Subset
      <4> QED
        BY <1>6, <1>12, <3>1, <4>2
    <3> QED
      BY <3>1, <3>2, <3>3
  <2> QED
    BY <2>1, <2>2
<1> QED
  BY <1>4, <1>6, <1>12, <1>13

(* The oldest packets, as many as there are, are all of them. *)
LEMMA AllAreOldest ==
  ASSUME NEW Q, Numbered(Q)
  PROVE  Oldest(Q, Cardinality(Q)) = Q
  BY OlderCount DEF Oldest

-----------------------------------------------------------------------------
(* A transport whose books are in order *)

Packets ==
  [packet : [size : Nat], size : Nat, enqueued : Nat, scheduled : Nat, rank : Nat,
   ordinal : Nat, duplicate : BOOLEAN]

Metrics ==
  [sent : Nat, delivered : Nat, loss : Nat, overflow : Nat, age : Nat, duplicated : Nat,
   reordered : Nat]

Transports ==
  [queue : SUBSET Packets, bytes : Int, ordinal : Nat, burst : Nat, metrics : Metrics]

(* The queue is finite, its ordinals are different and below the next one, *)
(* its bytes are counted and within the limits.                            *)
QueueInOrder(t) ==
  /\ t \in Transports
  /\ Numbered(t.queue)
  /\ \A p \in t.queue : p.ordinal < t.ordinal
  /\ t.bytes = BytesOf(t.queue)
  /\ t.bytes <= MaxQueueBytes
  /\ Cardinality(t.queue) <= MaxQueuePackets

(* What was sent or duplicated and is not accounted for yet: the refusals. *)
Unaccounted(t) ==
  t.metrics.sent + t.metrics.duplicated
    - (t.metrics.delivered + t.metrics.loss + t.metrics.overflow + t.metrics.age
       + Cardinality(t.queue))

(* The fields of a transport and its counters. *)
LEMMA MetricsTyped ==
  ASSUME NEW t \in Transports
  PROVE  /\ t.queue \in SUBSET Packets /\ t.bytes \in Int /\ t.ordinal \in Nat
         /\ t.burst \in Nat /\ t.metrics \in Metrics
         /\ t.metrics.sent \in Nat /\ t.metrics.delivered \in Nat /\ t.metrics.loss \in Nat
         /\ t.metrics.overflow \in Nat /\ t.metrics.age \in Nat
         /\ t.metrics.duplicated \in Nat /\ t.metrics.reordered \in Nat
<1>1. /\ t.queue \in SUBSET Packets /\ t.bytes \in Int /\ t.ordinal \in Nat
      /\ t.burst \in Nat /\ t.metrics \in Metrics
  BY DEF Transports
<1> QED
  BY <1>1 DEF Metrics

(* The fields of a copy in the queue. *)
LEMMA PacketTyped ==
  ASSUME NEW p \in Packets
  PROVE  /\ p.size \in Nat /\ p.enqueued \in Nat /\ p.scheduled \in Nat /\ p.rank \in Nat
         /\ p.ordinal \in Nat
  BY DEF Packets

(* What a queue in order says of itself. *)
LEMMA QueueFacts ==
  ASSUME NEW t, QueueInOrder(t)
  PROVE  /\ t \in Transports /\ t.queue \in SUBSET Packets
         /\ IsFiniteSet(t.queue) /\ Sized(t.queue) /\ Numbered(t.queue)
         /\ Cardinality(t.queue) \in Nat
         /\ t.bytes = BytesOf(t.queue) /\ t.bytes \in Nat
<1>1. /\ t \in Transports /\ t.queue \in SUBSET Packets /\ Numbered(t.queue)
      /\ t.bytes = BytesOf(t.queue)
  BY MetricsTyped DEF QueueInOrder
<1>2. IsFiniteSet(t.queue) /\ Sized(t.queue)
  BY <1>1, PacketTyped DEF Numbered, Sized
<1> QED
  BY <1>1, <1>2, FS_CardinalityType, BytesType

(* A queue that loses packets stays in order. *)
LEMMA RemovalKeepsOrder ==
  ASSUME NEW t, QueueInOrder(t), NEW gone \in SUBSET t.queue, NEW u \in Transports,
         u.queue = t.queue \ gone, u.bytes = t.bytes - BytesOf(gone), u.ordinal = t.ordinal
  PROVE  /\ QueueInOrder(u)
         /\ Cardinality(u.queue) = Cardinality(t.queue) - Cardinality(gone)
         /\ Cardinality(gone) \in Nat /\ Cardinality(t.queue) \in Nat
         /\ u.bytes <= t.bytes
<1>1. /\ t.queue \in SUBSET Packets /\ IsFiniteSet(t.queue) /\ Sized(t.queue) /\ Numbered(t.queue)
      /\ Cardinality(t.queue) \in Nat /\ t.bytes = BytesOf(t.queue) /\ t.bytes \in Nat
  BY QueueFacts
<1>2. IsFiniteSet(gone) /\ Cardinality(gone) \in Nat /\ t.queue \cap gone = gone
  BY <1>1, FS_Subset, FS_CardinalityType
<1>3. IsFiniteSet(u.queue) /\ Cardinality(u.queue) = Cardinality(t.queue) - Cardinality(gone)
  <2>1. /\ IsFiniteSet(t.queue \ gone)
        /\ Cardinality(t.queue \ gone) = Cardinality(t.queue) - Cardinality(t.queue \cap gone)
    BY <1>1, FS_Difference
  <2> QED
    BY <1>2, <2>1
<1>4. /\ BytesOf(gone) \in Nat /\ BytesOf(gone) <= BytesOf(t.queue)
      /\ BytesOf(u.queue) = BytesOf(t.queue) - BytesOf(gone)
  BY <1>1, BytesOfPart
<1>5. Numbered(u.queue)
  BY <1>1, <1>3 DEF Numbered
<1>6. \A p \in u.queue : p.ordinal < u.ordinal
  BY DEF QueueInOrder
<1>7. u.bytes = BytesOf(u.queue) /\ u.bytes <= t.bytes
  BY <1>1, <1>4
<1>8. u.bytes <= MaxQueueBytes /\ Cardinality(u.queue) <= MaxQueuePackets
  <2>1. t.bytes <= MaxQueueBytes /\ Cardinality(t.queue) <= MaxQueuePackets
    BY DEF QueueInOrder
  <2>2. MaxQueueBytes \in Nat /\ MaxQueuePackets \in Nat
    BY TransportAssumption
  <2> QED
    BY <1>1, <1>2, <1>3, <1>4, <2>1, <2>2
<1> QED
  BY <1>1, <1>2, <1>3, <1>5, <1>6, <1>7, <1>8 DEF QueueInOrder

-----------------------------------------------------------------------------
(* ensure_capacity *)

(* Dropping the k oldest packets keeps the queue in order and counts each  *)
(* of them.                                                                *)
LEMMA WithoutOldestFacts ==
  ASSUME NEW t, QueueInOrder(t), NEW k \in 0 .. Cardinality(t.queue), NEW u, u = WithoutOldest(t, k)
  PROVE  /\ QueueInOrder(u)
         /\ u.queue = t.queue \ Oldest(t.queue, k)
         /\ Cardinality(u.queue) = Cardinality(t.queue) - k
         /\ u.ordinal = t.ordinal
         /\ Unaccounted(u) = Unaccounted(t)
<1> DEFINE gone == Oldest(t.queue, k)
           overflow == t.metrics.overflow + k
           metrics == [t.metrics EXCEPT !.overflow = overflow]
           queue == t.queue \ gone
           bytes == t.bytes - BytesOf(gone)
<1>1. /\ t \in Transports /\ t.queue \in SUBSET Packets /\ Sized(t.queue) /\ Numbered(t.queue)
      /\ Cardinality(t.queue) \in Nat /\ t.bytes \in Nat
  BY QueueFacts
<1>2. gone \in SUBSET t.queue /\ Cardinality(gone) = k
  BY <1>1, OldestCount DEF Oldest
<1>3. u = [t EXCEPT !.queue = queue, !.bytes = bytes, !.metrics = metrics]
  BY DEF WithoutOldest, Oldest, Older
<1>4. overflow \in Nat
  BY <1>1, MetricsTyped
<1>5. BytesOf(gone) \in Nat
  BY <1>1, <1>2, BytesOfPart
<1>6. bytes \in Int /\ queue \in SUBSET Packets
  BY <1>1, <1>5
<1> HIDE DEF overflow
<1>7. /\ metrics \in Metrics /\ metrics.overflow = overflow /\ metrics.sent = t.metrics.sent
      /\ metrics.duplicated = t.metrics.duplicated /\ metrics.delivered = t.metrics.delivered
      /\ metrics.loss = t.metrics.loss /\ metrics.age = t.metrics.age
  BY <1>1, <1>4, MetricsTyped DEF Metrics
<1> HIDE DEF metrics, queue, bytes
<1>8. u \in Transports /\ u.queue = queue /\ u.bytes = bytes /\ u.ordinal = t.ordinal /\ u.metrics = metrics
  BY <1>1, <1>3, <1>6, <1>7 DEF Transports
<1>9. QueueInOrder(u) /\ Cardinality(u.queue) = Cardinality(t.queue) - k
  <2>1. u.queue = t.queue \ gone /\ u.bytes = t.bytes - BytesOf(gone)
    BY <1>8 DEF queue, bytes
  <2> HIDE DEF gone
  <2> QED
    BY <1>2, <1>8, <2>1, RemovalKeepsOrder
<1>10. Unaccounted(u) = Unaccounted(t)
  BY <1>1, <1>7, <1>8, <1>9, MetricsTyped DEF Unaccounted, overflow
<1> QED
  BY <1>8, <1>9, <1>10 DEF queue

(* Nothing dropped is nothing changed, as far as capacity goes; everything *)
(* dropped leaves an empty queue.                                          *)
LEMMA DropNoneDropAll ==
  ASSUME NEW t, QueueInOrder(t), NEW count \in Nat, NEW bytes \in Nat
  PROVE  /\ Exceeds(WithoutOldest(t, 0), count, bytes) <=> Exceeds(t, count, bytes)
         /\ LET all == WithoutOldest(t, Cardinality(t.queue))
            IN  all.queue = {} /\ (Exceeds(all, count, bytes) <=> count > MaxQueuePackets \/ bytes > MaxQueueBytes)
<1>1. /\ t.queue \in SUBSET Packets /\ Numbered(t.queue) /\ Sized(t.queue)
      /\ Cardinality(t.queue) \in Nat /\ t.bytes = BytesOf(t.queue)
  BY QueueFacts
<1>2. 0 \in 0 .. Cardinality(t.queue) /\ Cardinality(t.queue) \in 0 .. Cardinality(t.queue)
  BY <1>1
<1> DEFINE none == WithoutOldest(t, 0)
           all == WithoutOldest(t, Cardinality(t.queue))
<1>3. QueueInOrder(none) /\ none.queue = t.queue
  <2>1. QueueInOrder(none) /\ none.queue = t.queue \ Oldest(t.queue, 0)
    BY <1>2, WithoutOldestFacts
  <2>2. Oldest(t.queue, 0) = {}
    BY <1>1, OlderCount DEF Oldest
  <2> QED
    BY <2>1, <2>2
<1>4. QueueInOrder(all) /\ all.queue = {}
  <2>1. QueueInOrder(all) /\ all.queue = t.queue \ Oldest(t.queue, Cardinality(t.queue))
    BY <1>2, WithoutOldestFacts
  <2> QED
    BY <1>1, <2>1, AllAreOldest
<1> HIDE DEF none, all
<1>5. none.bytes = t.bytes
  BY <1>1, <1>3, QueueFacts
<1>6. all.bytes = 0 /\ Cardinality(all.queue) = 0
  BY <1>4, QueueFacts, BytesStep, FS_EmptySet
<1>7. Exceeds(none, count, bytes) <=> Exceeds(t, count, bytes)
  BY <1>3, <1>5 DEF Exceeds
<1>8. Exceeds(all, count, bytes) <=> count > MaxQueuePackets \/ bytes > MaxQueueBytes
  BY <1>6 DEF Exceeds
<1> QED
  BY <1>4, <1>7, <1>8 DEF none, all

(* More than an empty queue holds. *)
NeverFits(count, bytes) == count > MaxQueuePackets \/ bytes > MaxQueueBytes

(* With drop_oldest, a refusal leaves an empty queue. *)
EmptiedForNothing(r, count, bytes) ==
  r.error # "ok" /\ DropsOldest => r.transport.queue = {} /\ NeverFits(count, bytes)

(* The answer r of ensure_capacity to t. *)
MakesRoom(t, r, count, bytes) ==
  /\ QueueInOrder(r.transport)
  /\ r.transport.queue \in SUBSET t.queue
  /\ r.transport.ordinal = t.ordinal
  /\ Unaccounted(r.transport) = Unaccounted(t)
  /\ r.error = "ok" => ~ Exceeds(r.transport, count, bytes)
  /\ EmptiedForNothing(r, count, bytes)

(* ensure_capacity makes room or says that it cannot; with drop_oldest it  *)
(* cannot only where an empty queue has no room.                           *)
LEMMA EnsureCapacityFacts ==
  ASSUME NEW t, QueueInOrder(t), NEW count \in Nat, NEW bytes \in Nat, NEW r,
         r = EnsureCapacity(t, count, bytes)
  PROVE  MakesRoom(t, r, count, bytes)
<1> DEFINE queued == Cardinality(t.queue)
           Enough(k) == ~ Exceeds(WithoutOldest(t, k), count, bytes)
           choices == {queued} \union {k \in 0 .. queued : Enough(k)}
           dropped == Min(choices)
<1>1. queued \in Nat
  BY QueueFacts
<1>2. choices \in SUBSET Nat /\ choices # {}
  BY <1>1
<1>3. dropped \in choices
  BY <1>2, MinOfNats
<1>4. dropped \in 0 .. queued /\ (~ Enough(dropped) => dropped = queued)
  BY <1>1, <1>3
<1>5. r = IF Enough(0) THEN SendResult(t, "ok")
          ELSE IF ~ DropsOldest THEN SendResult(t, "queue_overflow")
          ELSE SendResult(WithoutOldest(t, dropped),
                          IF Enough(dropped) THEN "ok" ELSE "queue_overflow")
  BY DEF EnsureCapacity
<1> HIDE DEF dropped
<1>6. CASE Enough(0)
  <2>1. r.transport = t /\ r.error = "ok"
    BY <1>5, <1>6 DEF SendResult
  <2> QED
    BY <1>6, <2>1, DropNoneDropAll DEF EmptiedForNothing, MakesRoom
<1>7. CASE ~ Enough(0) /\ ~ DropsOldest
  <2>1. r.transport = t /\ r.error = "queue_overflow"
    BY <1>5, <1>7 DEF SendResult
  <2> QED
    BY <1>7, <2>1 DEF EmptiedForNothing, MakesRoom
<1>8. CASE ~ Enough(0) /\ DropsOldest
  <2>1. r.transport = WithoutOldest(t, dropped) /\ (r.error = "ok" <=> Enough(dropped))
    BY <1>5, <1>8 DEF SendResult
  <2>2. /\ QueueInOrder(r.transport) /\ r.transport.queue \in SUBSET t.queue
        /\ r.transport.ordinal = t.ordinal /\ Unaccounted(r.transport) = Unaccounted(t)
    BY <1>4, <2>1, WithoutOldestFacts
  <2>3. ~ Enough(dropped) => r.transport.queue = {} /\ NeverFits(count, bytes)
    BY <1>4, <2>1, DropNoneDropAll DEF NeverFits
  <2> QED
    BY <2>1, <2>2, <2>3 DEF EmptiedForNothing, MakesRoom
<1> QED
  BY <1>6, <1>7, <1>8

-----------------------------------------------------------------------------
(* The copies of a packet *)

(* No earlier than the least latency after it was sent, or at the last tick. *)
OnTime(p) == p.scheduled >= Min({p.enqueued + Latency - Jitter, LastTick})

(* The limits of the configuration are natural numbers. *)
LEMMA TicksAreNat ==
  /\ Latency \in Nat /\ Jitter \in Nat /\ LastTick \in Nat /\ MaxPacketAge \in Nat
  /\ Bandwidth \in Nat /\ MaxQueueBytes \in Nat /\ MaxQueuePackets \in Nat /\ MaxPacketBytes \in Nat
  BY TransportAssumption

(* What the generator draws are natural numbers. *)
LEMMA DrawsTyped ==
  ASSUME NEW draw \in Draws
  PROVE  /\ draw.burst \in Nat
         /\ \A i \in 1 .. 2 : draw.copies[i].jitter \in Nat /\ draw.copies[i].rank \in Nat
<1>1. draw.burst \in BurstDraws /\ draw.copies \in [1 .. 2 -> CopyDraws]
  BY DEF Draws
<1>2. BurstDraws \in SUBSET Nat
  BY DEF BurstDraws
<1>3. RankDraws \in SUBSET Nat
  <2>1. Jitter + 2 \in Int
    BY TicksAreNat
  <2> DEFINE high == Jitter + 2
             most == Max({2, high})
  <2> HIDE DEF high
  <2>2. most \in Int
    <3>1. high \in Int
      BY <2>1 DEF high
    <3>2. most = IF 2 <= high THEN high ELSE 2
      BY <3>1 DEF Max
    <3> QED
      BY <3>1, <3>2
  <2>3. RankDraws = UNION {IF reordered THEN 1 .. most ELSE {0} : reordered \in Chance(ReorderPercent)}
    BY DEF RankDraws, high
  <2> HIDE DEF most
  <2>4. 1 .. most \in SUBSET Nat
    BY <2>2
  <2> QED
    BY <2>3, <2>4
<1>4. 0 .. 2 * Jitter \in SUBSET Nat
  BY TicksAreNat
<1>5. \A c \in CopyDraws : c.jitter \in Nat /\ c.rank \in Nat
  BY <1>3, <1>4 DEF CopyDraws
<1> QED
  BY <1>1, <1>2, <1>5

(* A new copy is typed and is scheduled no earlier than the least latency, *)
(* or for the last tick.                                                   *)
LEMMA ScheduledFacts ==
  ASSUME NEW size \in Nat, NEW tick \in 0 .. LastTick, NEW d, d.jitter \in Nat, d.rank \in Nat,
         NEW ordinal \in Nat, NEW duplicate \in BOOLEAN,
         NEW p, p = Scheduled([size |-> size], tick, d, ordinal, duplicate)
  PROVE  /\ p \in Packets /\ p.size = size /\ p.enqueued = tick /\ p.ordinal = ordinal
         /\ OnTime(p)
<1> DEFINE wait == Latency + d.jitter - Jitter
           at == ScheduledFor(tick, d)
<1>1. wait \in Int /\ tick \in Nat /\ LastTick \in Nat /\ wait >= Latency - Jitter
  BY TicksAreNat
<1>3. Delay(d) = Max({0, wait}) + d.rank
  BY DEF Delay
<1> HIDE DEF wait
<1>2. Max({0, wait}) \in Nat /\ Max({0, wait}) >= wait
  <2>1. Max({0, wait}) = IF 0 <= wait THEN wait ELSE 0
    BY <1>1 DEF Max
  <2> QED
    BY <1>1, <2>1
<1>4. Delay(d) \in Nat /\ Delay(d) >= Latency - Jitter
  BY <1>1, <1>2, <1>3, TicksAreNat
<1>5. at = Min({tick + Delay(d), LastTick})
  BY DEF ScheduledFor
<1>6. at \in Nat /\ at >= Min({tick + Latency - Jitter, LastTick})
  <2>1. tick + Delay(d) \in Nat /\ tick + Latency - Jitter \in Int /\ tick + Latency - Jitter <= tick + Delay(d)
    BY <1>1, <1>4, TicksAreNat
  <2> QED
    BY <1>1, <1>5, <2>1, MinMaxOfTwo
<1> HIDE DEF at
<1>7. p = [packet |-> [size |-> size], size |-> size, enqueued |-> tick, scheduled |-> at,
           rank |-> d.rank, ordinal |-> ordinal, duplicate |-> duplicate]
  BY DEF Scheduled, at
<1>8. /\ p \in Packets /\ p.size = size /\ p.enqueued = tick /\ p.ordinal = ordinal
      /\ p.scheduled = at
  BY <1>1, <1>6, <1>7 DEF Packets
<1> QED
  BY <1>6, <1>8 DEF OnTime

(* The new packets of a send: one or two, with the next ordinals. *)
NewCopies(size, tick, draw, ordinal) ==
  {Scheduled([size |-> size], tick, draw.copies[i], ordinal + i - 1, i = 2) :
     i \in IF draw.duplicate THEN 1 .. 2 ELSE {1}}

CopyCount(draw) == IF draw.duplicate THEN 2 ELSE 1

(* send makes one copy, or two with different ordinals, and their bytes. *)
LEMMA CopiesFacts ==
  ASSUME NEW size \in Nat, NEW tick \in 0 .. LastTick, NEW draw \in Draws, NEW ordinal \in Nat,
         NEW added, added = NewCopies(size, tick, draw, ordinal)
  PROVE  /\ added \in SUBSET Packets /\ Numbered(added)
         /\ Cardinality(IF draw.duplicate THEN 1 .. 2 ELSE {1}) = CopyCount(draw)
         /\ Cardinality(added) = CopyCount(draw)
         /\ BytesOf(added) = size * CopyCount(draw)
         /\ \A p \in added : /\ p.enqueued = tick /\ OnTime(p)
                             /\ ordinal <= p.ordinal /\ p.ordinal < ordinal + CopyCount(draw)
<1> DEFINE copies == IF draw.duplicate THEN 1 .. 2 ELSE {1}
           count == CopyCount(draw)
<1> DEFINE no == 1 = 2
           yes == 2 = 2
           o1 == ordinal + 1 - 1
           o2 == ordinal + 2 - 1
           first == Scheduled([size |-> size], tick, draw.copies[1], o1, no)
           second == Scheduled([size |-> size], tick, draw.copies[2], o2, yes)
<1>1. no \in BOOLEAN /\ yes \in BOOLEAN /\ o1 = ordinal /\ o2 = ordinal + 1 /\ o1 \in Nat /\ o2 \in Nat
  OBVIOUS
<1>2. /\ ~ draw.duplicate => copies = {1} /\ added = {first}
      /\ draw.duplicate => copies = {1, 2} /\ added = {first, second}
  <2>1. 1 .. 2 = {1, 2}
    OBVIOUS
  <2> QED
    BY <2>1 DEF NewCopies
<1>3. /\ first \in Packets /\ first.size = size /\ first.enqueued = tick
      /\ first.ordinal = ordinal /\ OnTime(first)
  <2>1. draw.copies[1].jitter \in Nat /\ draw.copies[1].rank \in Nat
    BY DrawsTyped
  <2> HIDE DEF no, o1
  <2> QED
    BY <1>1, <2>1, ScheduledFacts
<1>4. /\ second \in Packets /\ second.size = size /\ second.enqueued = tick
      /\ second.ordinal = ordinal + 1 /\ OnTime(second)
  <2>1. draw.copies[2].jitter \in Nat /\ draw.copies[2].rank \in Nat
    BY DrawsTyped
  <2> HIDE DEF yes, o2
  <2> QED
    BY <1>1, <2>1, ScheduledFacts
<1> HIDE DEF first, second
<1>5. CASE ~ draw.duplicate
  <2>0. copies = {1} /\ added = {first} /\ count = 1
    BY <1>2, <1>5 DEF CopyCount
  <2>1. IsFiniteSet({first}) /\ Cardinality({first}) = 1 /\ Cardinality({1}) = 1
    BY FS_Singleton
  <2>2. Sized({first}) /\ {first} \ {first} = {} /\ Sized({})
    BY <1>3, <2>1, FS_EmptySet DEF Sized
  <2>3. BytesOf({first}) = size + 0
    BY <1>3, <2>2, BytesWithout, BytesStep
  <2>4. BytesOf({first}) = size * 1
    BY <2>3
  <2>5. Numbered({first})
    BY <1>3, <2>1 DEF Numbered
  <2>6. ordinal <= first.ordinal /\ first.ordinal < ordinal + 1
    BY <1>3
  <2> QED
    BY <1>3, <2>0, <2>1, <2>4, <2>5, <2>6
<1>6. CASE draw.duplicate
  <2>1. first # second
    BY <1>3, <1>4
  <2>2. /\ IsFiniteSet({second}) /\ Cardinality({second}) = 1
        /\ IsFiniteSet({2}) /\ Cardinality({2}) = 1
    BY FS_Singleton
  <2>3. {first, second} = {second} \union {first} /\ {1, 2} = {2} \union {1}
    OBVIOUS
  <2>4. IsFiniteSet({first, second}) /\ Cardinality({first, second}) = 2 /\ Cardinality({1, 2}) = 2
    <3>1. IsFiniteSet({second} \union {first}) /\ Cardinality({second} \union {first}) = 1 + 1
      <4>1. first \notin {second}
        BY <2>1
      <4> QED
        BY <2>2, <4>1, FS_AddElement
    <3>2. Cardinality({2} \union {1}) = 1 + 1
      <4>1. 1 \notin {2}
        OBVIOUS
      <4> QED
        BY <2>2, <4>1, FS_AddElement
    <3> QED
      BY <2>3, <3>1, <3>2
  <2>5. Sized({first, second}) /\ Sized({second}) /\ Sized({})
    BY <1>3, <1>4, <2>2, <2>4, FS_EmptySet DEF Sized
  <2>6. {first, second} \ {first} = {second} /\ {second} \ {second} = {}
    BY <2>1
  <2>7. BytesOf({first, second}) = size + BytesOf({second})
    BY <1>3, <2>5, <2>6, BytesWithout
  <2>8. BytesOf({second}) = size + 0
    BY <1>4, <2>5, <2>6, BytesWithout, BytesStep
  <2>9. BytesOf({first, second}) = size * 2
    BY <2>7, <2>8
  <2>10. Numbered({first, second})
    BY <1>3, <1>4, <2>4 DEF Numbered
  <2>11. copies = {1, 2} /\ added = {first, second} /\ count = 2
    BY <1>2, <1>6 DEF CopyCount
  <2>12. /\ ordinal <= first.ordinal /\ first.ordinal < ordinal + 2
         /\ ordinal <= second.ordinal /\ second.ordinal < ordinal + 2
    BY <1>3, <1>4
  <2> QED
    BY <1>3, <1>4, <2>4, <2>9, <2>10, <2>11, <2>12
<1> QED
  BY <1>5, <1>6

-----------------------------------------------------------------------------
(* send *)

(* A packet for which there is room is put into the queue with its         *)
(* duplicate, each copy of them counted.                                   *)
LEMMA EnqueueFacts ==
  ASSUME NEW t, QueueInOrder(t), NEW size \in Nat, NEW tick \in 0 .. LastTick, NEW draw \in Draws,
         ~ Exceeds(t, CopyCount(draw), size * CopyCount(draw)),
         NEW u, u = Enqueue(t, [size |-> size], tick, draw)
  PROVE  /\ QueueInOrder(u)
         /\ Unaccounted(u) = Unaccounted(t) - 1
         /\ t.ordinal <= u.ordinal
         /\ \A p \in u.queue : p \in t.queue \/ (p.enqueued = tick /\ OnTime(p) /\ t.ordinal <= p.ordinal)
<1> DEFINE copies == IF draw.duplicate THEN 1 .. 2 ELSE {1}
           count == CopyCount(draw)
           added == NewCopies(size, tick, draw, t.ordinal)
           late == {i \in copies : draw.copies[i].rank > 0}
           reordered == t.metrics.reordered + Cardinality(late)
           duplicated == IF draw.duplicate THEN t.metrics.duplicated + 1 ELSE t.metrics.duplicated
           metrics == [t.metrics EXCEPT !.reordered = reordered, !.duplicated = duplicated]
           queue == t.queue \union added
           bytes == t.bytes + BytesOf(added)
           ordinal == t.ordinal + Cardinality(copies)
<1>1. u = [t EXCEPT !.queue = queue, !.bytes = bytes, !.ordinal = ordinal, !.metrics = metrics]
  BY DEF Enqueue, NewCopies
<1>2. /\ t \in Transports /\ t.queue \in SUBSET Packets /\ Sized(t.queue) /\ Numbered(t.queue)
      /\ IsFiniteSet(t.queue) /\ Cardinality(t.queue) \in Nat /\ t.bytes = BytesOf(t.queue)
      /\ t.bytes \in Nat
  BY QueueFacts
<1>3. t.ordinal \in Nat /\ t.metrics \in Metrics /\ t.metrics.reordered \in Nat /\ t.metrics.duplicated \in Nat
  BY <1>2, MetricsTyped
<1>4. count \in {1, 2} /\ count \in Nat /\ (count = 2 <=> draw.duplicate)
  BY DEF CopyCount
<1>5. /\ added \in SUBSET Packets /\ Numbered(added)
      /\ Cardinality(copies) = count /\ Cardinality(added) = count
      /\ BytesOf(added) = size * count
      /\ \A p \in added : /\ p.enqueued = tick /\ OnTime(p)
                          /\ t.ordinal <= p.ordinal /\ p.ordinal < t.ordinal + count
  BY <1>3, CopiesFacts
<1>6. IsFiniteSet(added) /\ Sized(added)
  BY <1>5, PacketTyped DEF Numbered, Sized
<1>7. reordered \in Nat
  <2>1. IsFiniteSet(copies)
    <3>1. 1 \in Int /\ 2 \in Int
      OBVIOUS
    <3>2. IsFiniteSet(1 .. 2)
      BY <3>1, FS_Interval, Zenon
    <3>3. IsFiniteSet({1})
      BY FS_Singleton, Zenon
    <3> QED
      BY <3>2, <3>3
  <2>2. Cardinality(late) \in Nat
    BY <2>1, FS_Subset, FS_CardinalityType
  <2> QED
    BY <1>3, <2>2
<1>8. duplicated \in Nat /\ duplicated = t.metrics.duplicated + count - 1
  BY <1>3, <1>4
<1> HIDE DEF copies, count, added, reordered, duplicated
<1>9. /\ metrics \in Metrics /\ metrics.overflow = t.metrics.overflow /\ metrics.sent = t.metrics.sent
      /\ metrics.duplicated = duplicated /\ metrics.delivered = t.metrics.delivered
      /\ metrics.loss = t.metrics.loss /\ metrics.age = t.metrics.age
  BY <1>3, <1>7, <1>8 DEF Metrics
<1>10. queue \in SUBSET Packets /\ ordinal \in Nat /\ ordinal = t.ordinal + count
  BY <1>2, <1>3, <1>4, <1>5
<1>11. size * count \in Nat
  <2>1. count = 1 \/ count = 2
    BY <1>4
  <2>2. size * 1 \in Nat /\ size * 2 \in Nat
    OBVIOUS
  <2> QED
    BY <2>1, <2>2
<1>12. bytes \in Int
  BY <1>2, <1>5, <1>11
<1>13. t.queue \cap added = {}
  <2> SUFFICES ASSUME NEW p \in t.queue, p \in added
               PROVE  FALSE
    OBVIOUS
  <2>1. p.ordinal < t.ordinal /\ t.ordinal <= p.ordinal /\ p.ordinal \in Nat
    BY <1>2, <1>5, PacketTyped DEF QueueInOrder
  <2> QED
    BY <1>3, <2>1
<1>14. /\ IsFiniteSet(queue) /\ Cardinality(queue) = Cardinality(t.queue) + count
       /\ bytes = BytesOf(queue)
  <2>1. /\ IsFiniteSet(queue)
        /\ Cardinality(queue) = Cardinality(t.queue) + Cardinality(added) - Cardinality(t.queue \cap added)
    BY <1>2, <1>6, FS_Union
  <2>2. Cardinality(t.queue \cap added) = 0
    BY <1>13, FS_EmptySet
  <2>3. bytes = BytesOf(queue)
    BY <1>2, <1>6, <1>13, BytesOfUnion
  <2> QED
    BY <1>2, <1>4, <1>5, <2>1, <2>2, <2>3
<1>15. Numbered(queue)
  <2>1. \A p \in queue : p.ordinal \in Nat
    BY <1>10, PacketTyped
  <2>2. ASSUME NEW p \in queue, NEW q \in queue, p.ordinal = q.ordinal
        PROVE  p = q
    <3>1. CASE p \in t.queue /\ q \in t.queue
      BY <1>2, <2>2, <3>1 DEF Numbered
    <3>2. CASE p \in added /\ q \in added
      BY <1>5, <2>2, <3>2 DEF Numbered
    <3>3. \A x \in t.queue, y \in added : x.ordinal < y.ordinal
      <4> TAKE x \in t.queue, y \in added
      <4>1. /\ x.ordinal < t.ordinal /\ t.ordinal <= y.ordinal /\ x.ordinal \in Nat
            /\ y.ordinal \in Nat
        BY <1>2, <1>5, PacketTyped DEF QueueInOrder
      <4> QED
        BY <1>3, <4>1
    <3> QED
      BY <2>1, <2>2, <3>1, <3>2, <3>3
  <2> QED
    BY <1>14, <2>1, <2>2 DEF Numbered
<1>16. Cardinality(queue) <= MaxQueuePackets /\ bytes <= MaxQueueBytes
  <2>1. /\ ~ (Cardinality(t.queue) + count > MaxQueuePackets)
        /\ ~ (t.bytes + size * count > MaxQueueBytes)
    BY DEF Exceeds, count
  <2>2. MaxQueuePackets \in Nat /\ MaxQueueBytes \in Nat
    BY TicksAreNat
  <2> QED
    BY <1>2, <1>4, <1>5, <1>11, <1>14, <2>1, <2>2
<1> HIDE DEF queue, bytes, ordinal, metrics
<1>17. /\ u \in Transports /\ u.queue = queue /\ u.bytes = bytes /\ u.ordinal = ordinal
       /\ u.metrics = metrics
  BY <1>1, <1>2, <1>9, <1>10, <1>12 DEF Transports
<1>18. \A p \in queue : p \in t.queue \/ p \in added
  BY DEF queue
<1>19. \A p \in queue : p.ordinal < ordinal
  <2> TAKE p \in queue
  <2>1. p.ordinal \in Nat /\ (p.ordinal < t.ordinal \/ p.ordinal < t.ordinal + count)
    BY <1>5, <1>10, <1>18, PacketTyped DEF QueueInOrder
  <2> QED
    BY <1>3, <1>4, <1>10, <2>1
<1>20. QueueInOrder(u)
  BY <1>14, <1>15, <1>16, <1>17, <1>19 DEF QueueInOrder
<1>21. Unaccounted(u) = Unaccounted(t) - 1
  BY <1>2, <1>4, <1>8, <1>9, <1>14, <1>17, MetricsTyped DEF Unaccounted
<1> QED
  BY <1>3, <1>4, <1>5, <1>10, <1>17, <1>18, <1>20, <1>21

(* The answer r of send to t, at a tick, for a packet of a size: what it   *)
(* leaves unaccounted for is a refusal.                                    *)
Sends(t, r, size, tick, draw) ==
  /\ QueueInOrder(r.transport)
  /\ Unaccounted(r.transport) = IF r.error = "ok" THEN Unaccounted(t) ELSE Unaccounted(t) + 1
  /\ t.ordinal <= r.transport.ordinal
  /\ \A p \in r.transport.queue :
       p \in t.queue \/ (p.enqueued = tick /\ OnTime(p) /\ t.ordinal <= p.ordinal)
  /\ r.error # "ok" /\ DropsOldest /\ ~ InvalidPercent =>
       \/ size > MaxPacketBytes
       \/ r.transport.queue = {} /\ NeverFits(CopyCount(draw), size * CopyCount(draw))

(* The books after a send: what it leaves unaccounted for is a refusal. *)
LEMMA SendFacts ==
  ASSUME NEW t, QueueInOrder(t), NEW size \in Nat, NEW tick \in 0 .. LastTick, NEW draw \in Draws,
         NEW r, r = Send(t, [size |-> size], tick, draw)
  PROVE  Sends(t, r, size, tick, draw)
<1> DEFINE sent == t.metrics.sent + 1
           m1 == [t.metrics EXCEPT !.sent = sent]
           counted == [t EXCEPT !.metrics = m1]
           burst == Burst(t, draw)
           drawn == [counted EXCEPT !.burst = burst]
           count == CopyCount(draw)
           need == size * count
           room == EnsureCapacity(drawn, count, need)
           loss == t.metrics.loss + 1
           m2 == [m1 EXCEPT !.loss = loss]
           lost == [drawn EXCEPT !.metrics = m2]
<1>1. /\ t \in Transports /\ t.ordinal \in Nat /\ t.burst \in Nat /\ t.metrics \in Metrics
      /\ t.queue \in SUBSET Packets /\ t.bytes \in Int /\ Cardinality(t.queue) \in Nat
  BY QueueFacts, MetricsTyped
<1>2. sent \in Nat /\ loss \in Nat
  BY <1>1, MetricsTyped
<1>3. burst \in Nat
  BY <1>1, DrawsTyped DEF Burst
<1>4. count \in Nat /\ need \in Nat
  <2>1. count = 1 \/ count = 2
    BY DEF CopyCount
  <2>2. size * 1 \in Nat /\ size * 2 \in Nat
    OBVIOUS
  <2> QED
    BY <2>1, <2>2
<1>5. r = IF size > MaxPacketBytes THEN SendResult(counted, "invalid_length")
          ELSE IF InvalidPercent THEN SendResult(counted, "invalid_argument")
          ELSE IF Lost(t, draw) THEN SendResult(lost, "ok")
          ELSE IF room.error # "ok" THEN room
          ELSE SendResult(Enqueue(room.transport, [size |-> size], tick, draw), "ok")
  <2>1. lost = [drawn EXCEPT !.metrics.loss = @ + 1]
    BY <1>1, <1>2, <1>3 DEF Transports, Metrics
  <2>2. [size |-> size].size = size
    OBVIOUS
  <2> QED
    BY <2>1, <2>2 DEF Send, CopyCount
<1> HIDE DEF sent, loss, burst
<1>6. /\ m1 \in Metrics /\ m1.sent = sent /\ m1.duplicated = t.metrics.duplicated
      /\ m1.delivered = t.metrics.delivered /\ m1.loss = t.metrics.loss
      /\ m1.overflow = t.metrics.overflow /\ m1.age = t.metrics.age
  BY <1>1, <1>2 DEF Metrics
<1> HIDE DEF m1
<1>7. /\ m2 \in Metrics /\ m2.sent = sent /\ m2.duplicated = t.metrics.duplicated
      /\ m2.delivered = t.metrics.delivered /\ m2.loss = loss
      /\ m2.overflow = t.metrics.overflow /\ m2.age = t.metrics.age
  BY <1>2, <1>6 DEF Metrics
<1> HIDE DEF m2
<1>8. /\ counted \in Transports /\ counted.queue = t.queue /\ counted.bytes = t.bytes
      /\ counted.ordinal = t.ordinal /\ counted.metrics = m1
  BY <1>1, <1>6 DEF Transports
<1> HIDE DEF counted
<1>9. /\ drawn \in Transports /\ drawn.queue = t.queue /\ drawn.bytes = t.bytes
      /\ drawn.ordinal = t.ordinal /\ drawn.metrics = m1
  BY <1>3, <1>8 DEF Transports
<1> HIDE DEF drawn
<1>10. /\ lost \in Transports /\ lost.queue = t.queue /\ lost.bytes = t.bytes
       /\ lost.ordinal = t.ordinal /\ lost.metrics = m2
  BY <1>7, <1>9 DEF Transports
<1> HIDE DEF lost
<1>11. QueueInOrder(counted) /\ QueueInOrder(drawn) /\ QueueInOrder(lost)
  BY <1>8, <1>9, <1>10 DEF QueueInOrder
<1>12. /\ Unaccounted(counted) = Unaccounted(t) + 1
       /\ Unaccounted(drawn) = Unaccounted(t) + 1
       /\ Unaccounted(lost) = Unaccounted(t)
  BY <1>1, <1>6, <1>7, <1>8, <1>9, <1>10, MetricsTyped DEF Unaccounted, sent, loss
<1>13. CASE size > MaxPacketBytes \/ InvalidPercent
  <2>1. r.transport = counted /\ r.error # "ok"
    BY <1>5, <1>13 DEF SendResult
  <2> QED
    BY <1>1, <1>8, <1>11, <1>12, <1>13, <2>1 DEF Sends
<1>14. CASE ~ (size > MaxPacketBytes) /\ ~ InvalidPercent /\ Lost(t, draw)
  <2>1. r.transport = lost /\ r.error = "ok"
    BY <1>5, <1>14 DEF SendResult
  <2> QED
    BY <1>1, <1>10, <1>11, <1>12, <2>1 DEF Sends
<1>15. CASE ~ (size > MaxPacketBytes) /\ ~ InvalidPercent /\ ~ Lost(t, draw)
  <2> HIDE DEF count, need
  <2>1. room = EnsureCapacity(drawn, count, need)
    OBVIOUS
  <2> HIDE DEF room
  <2>2. MakesRoom(drawn, room, count, need)
    BY <1>4, <1>11, <2>1, EnsureCapacityFacts
  <2>3. /\ QueueInOrder(room.transport)
        /\ room.transport.queue \in SUBSET drawn.queue
        /\ room.transport.ordinal = drawn.ordinal
        /\ Unaccounted(room.transport) = Unaccounted(drawn)
    BY <2>2 DEF MakesRoom
  <2>4. room.error = "ok" => ~ Exceeds(room.transport, count, need)
    BY <2>2 DEF MakesRoom
  <2>5. EmptiedForNothing(room, count, need)
    BY <2>2 DEF MakesRoom
  <2>6. CASE room.error # "ok"
    <3>1. r = room
      BY <1>5, <1>15, <2>6
    <3>2. t.ordinal <= r.transport.ordinal
      BY <1>1, <1>9, <2>3, <3>1
    <3>3. DropsOldest =>
            r.transport.queue = {} /\ NeverFits(CopyCount(draw), size * CopyCount(draw))
      BY <2>6, <2>5, <3>1 DEF EmptiedForNothing, count, need
    <3> QED
      BY <1>9, <1>12, <2>3, <2>6, <3>1, <3>2, <3>3 DEF Sends
  <2>7. CASE room.error = "ok"
    <3> DEFINE u == Enqueue(room.transport, [size |-> size], tick, draw)
    <3>1. r.transport = u /\ r.error = "ok"
      BY <1>5, <1>15, <2>7 DEF SendResult
    <3>2. /\ QueueInOrder(u) /\ Unaccounted(u) = Unaccounted(room.transport) - 1
          /\ room.transport.ordinal <= u.ordinal
          /\ \A p \in u.queue : \/ p \in room.transport.queue
                                \/ p.enqueued = tick /\ OnTime(p) /\ room.transport.ordinal <= p.ordinal
      BY <2>3, <2>7, <2>4, EnqueueFacts DEF count, need
    <3> HIDE DEF u
    <3>3. Unaccounted(t) \in Int
      BY <1>1, MetricsTyped DEF Unaccounted
    <3> QED
      BY <1>9, <1>12, <2>3, <3>1, <3>2, <3>3 DEF Sends
  <2> QED
    BY <2>6, <2>7
<1> QED
  BY <1>13, <1>14, <1>15

-----------------------------------------------------------------------------
(* deliver *)

(* The age of a packet that was sent at or before the tick. *)
LEMMA AgeIsElapsed ==
  ASSUME NEW tick \in 0 .. LastTick, NEW from \in Nat, from <= tick
  PROVE  (tick - from) % (LastTick + 1) = tick - from
<1>1. LastTick \in Nat
  BY TicksAreNat
<1> DEFINE age == tick - from
           size == LastTick + 1
<1>2. age \in Nat /\ size \in Nat \ {0} /\ age < size
  BY <1>1
<1> HIDE DEF age, size
<1>3. age % size = age
  BY <1>2
<1> QED
  BY <1>3 DEF age, size

(* What deliver takes is due and of an age at which it is still delivered, *)
(* and what it takes or removes was in the queue.                          *)
LEMMA TakenFacts ==
  ASSUME NEW t, NEW tick
  PROVE  /\ TakenFrom(t, tick) \in SUBSET t.queue /\ Expired(t, tick) \in SUBSET t.queue
         /\ TakenFrom(t, tick) \cap Expired(t, tick) = {}
         /\ \A p \in TakenFrom(t, tick) : p.scheduled <= tick
<1>1. /\ TakenFrom(t, tick) \in SUBSET {p \in t.queue \ Expired(t, tick) : p.scheduled <= tick}
  BY DEF TakenFrom
<1>2. Expired(t, tick) \in SUBSET t.queue
  BY DEF Expired
<1> QED
  BY <1>1, <1>2

(* The books after a delivery: what left the queue is counted. *)
LEMMA DeliverFacts ==
  ASSUME NEW t, QueueInOrder(t), NEW tick, NEW u, u = Deliver(t, tick)
  PROVE  /\ QueueInOrder(u)
         /\ u.queue = t.queue \ (Expired(t, tick) \union TakenFrom(t, tick))
         /\ u.ordinal = t.ordinal
         /\ Unaccounted(u) = Unaccounted(t)
<1> DEFINE expired == Expired(t, tick)
           taken == TakenFrom(t, tick)
           gone == expired \union taken
           queue == t.queue \ gone
           bytes == t.bytes - BytesOf(gone)
           age == t.metrics.age + Cardinality(expired)
           delivered == t.metrics.delivered + Cardinality(taken)
           m1 == [t.metrics EXCEPT !.age = age]
           metrics == [m1 EXCEPT !.delivered = delivered]
<1>1. /\ t \in Transports /\ t.queue \in SUBSET Packets /\ IsFiniteSet(t.queue)
      /\ Sized(t.queue) /\ Cardinality(t.queue) \in Nat /\ t.bytes \in Nat
      /\ t.ordinal \in Nat /\ t.burst \in Nat /\ t.metrics \in Metrics
  BY QueueFacts, MetricsTyped
<1>2. /\ expired \in SUBSET t.queue /\ taken \in SUBSET t.queue /\ gone \in SUBSET t.queue
      /\ expired \cap taken = {}
  BY TakenFacts
<1>3. u = [t EXCEPT !.queue = queue, !.bytes = bytes, !.metrics = metrics]
  BY <1>1 DEF Deliver, Transports, Metrics
<1> HIDE DEF expired, taken
<1>4. /\ IsFiniteSet(expired) /\ IsFiniteSet(taken)
      /\ Cardinality(expired) \in Nat /\ Cardinality(taken) \in Nat
      /\ Cardinality(gone) = Cardinality(expired) + Cardinality(taken)
  <2>1. IsFiniteSet(expired) /\ IsFiniteSet(taken)
    BY <1>1, <1>2, FS_Subset
  <2>2. Cardinality(gone) = Cardinality(expired) + Cardinality(taken) - Cardinality(expired \cap taken)
    BY <2>1, FS_Union
  <2>3. Cardinality(expired \cap taken) = 0
    BY <1>2, FS_EmptySet
  <2>4. Cardinality(expired) \in Nat /\ Cardinality(taken) \in Nat
    BY <2>1, FS_CardinalityType
  <2> QED
    BY <2>1, <2>2, <2>3, <2>4
<1>5. age \in Nat /\ delivered \in Nat
  BY <1>1, <1>4, MetricsTyped
<1>6. BytesOf(gone) \in Nat
  BY <1>1, <1>2, BytesOfPart
<1>7. queue \in SUBSET Packets /\ bytes \in Int
  BY <1>1, <1>6
<1>8. /\ age = t.metrics.age + Cardinality(expired)
      /\ delivered = t.metrics.delivered + Cardinality(taken)
      /\ queue = t.queue \ gone /\ bytes = t.bytes - BytesOf(gone)
  OBVIOUS
<1> HIDE DEF gone, queue, bytes, age, delivered
<1>9. /\ m1 \in Metrics /\ m1.sent = t.metrics.sent /\ m1.duplicated = t.metrics.duplicated
      /\ m1.delivered = t.metrics.delivered /\ m1.loss = t.metrics.loss
      /\ m1.overflow = t.metrics.overflow /\ m1.age = age
  BY <1>1, <1>5 DEF Metrics
<1> HIDE DEF m1
<1>10. /\ metrics \in Metrics /\ metrics.sent = t.metrics.sent
       /\ metrics.duplicated = t.metrics.duplicated /\ metrics.delivered = delivered
       /\ metrics.loss = t.metrics.loss /\ metrics.overflow = t.metrics.overflow
       /\ metrics.age = age
  BY <1>5, <1>9 DEF Metrics
<1> HIDE DEF metrics
<1>11. /\ u \in Transports /\ u.queue = queue /\ u.bytes = bytes /\ u.ordinal = t.ordinal
       /\ u.metrics = metrics
  BY <1>1, <1>3, <1>7, <1>10 DEF Transports
<1>12. QueueInOrder(u) /\ Cardinality(u.queue) = Cardinality(t.queue) - Cardinality(gone)
  BY <1>2, <1>8, <1>11, RemovalKeepsOrder
<1>13. Unaccounted(u) = Unaccounted(t)
  BY <1>1, <1>4, <1>8, <1>10, <1>11, <1>12, MetricsTyped DEF Unaccounted
<1> QED
  BY <1>8, <1>11, <1>12, <1>13 DEF gone, expired, taken

-----------------------------------------------------------------------------
(* The inductive invariant *)

Deliveries == [copy : Packets, at : Nat]

(* The queue is in order and its packets are of the past, every packet is  *)
(* accounted for, and no delivered copy is, or comes back, in the queue.   *)
Balanced ==
  /\ now \in 0 .. LastTick
  /\ refused \in Seq([size : Nat, copies : {1, 2}])
  /\ received \in SUBSET Deliveries
  /\ QueueInOrder(transport)
  /\ Unaccounted(transport) = Len(refused)
  /\ \A p \in transport.queue : OnTime(p) /\ p.enqueued <= now
  /\ \A r \in received : /\ r.copy.ordinal < transport.ordinal
                         /\ \A p \in transport.queue : p.ordinal # r.copy.ordinal
  /\ DeliveredInTime

(* A new transport has nothing to account for. *)
LEMMA StartsBalanced == Init => Balanced
<1> SUFFICES ASSUME Init
             PROVE  Balanced
  OBVIOUS
<1> DEFINE metrics == NewTransport.metrics
<1>1. /\ transport.queue = {} /\ transport.bytes = 0 /\ transport.ordinal = 0
      /\ now = 0 /\ refused = <<>> /\ received = {}
  BY DEF Init, NewTransport
<1>2. metrics \in Metrics
  BY DEF NewTransport, Metrics
<1>3. transport \in Transports
  BY DEF Init, NewTransport, Metrics, Transports
<1>4. IsFiniteSet(transport.queue) /\ Cardinality(transport.queue) = 0
  BY <1>1, FS_EmptySet
<1>5. BytesOf(transport.queue) = 0
  BY <1>1, <1>4, BytesStep DEF Sized
<1>6. QueueInOrder(transport)
  BY <1>1, <1>3, <1>4, <1>5, TicksAreNat DEF QueueInOrder, Numbered
<1>7. Unaccounted(transport) = 0
  BY <1>4 DEF Unaccounted, Init, NewTransport
<1> QED
  BY <1>1, <1>6, <1>7, TicksAreNat DEF Balanced, DeliveredInTime

(* A delivered copy, its types spelled out. *)
LEMMA DeliveryTyped ==
  ASSUME Balanced, NEW r \in received
  PROVE  /\ r.copy \in Packets /\ r.at \in Nat /\ r.copy.ordinal \in Nat
         /\ r.copy.enqueued \in Nat
  BY PacketTyped DEF Balanced, Deliveries

(* send keeps the books: what it does not put into the queue or count as   *)
(* lost it refuses.                                                        *)
LEMMA SendKeepsBalance ==
  ASSUME Balanced, NEW size \in Sizes, NEW draw \in Draws, CallSend(size, draw)
  PROVE  Balanced'
<1> DEFINE sent == Send(transport, [size |-> size], now, draw)
           refusal == [size |-> size, copies |-> IF draw.duplicate THEN 2 ELSE 1]
<1>1. /\ transport' = sent.transport /\ now' = now /\ received' = received
      /\ refused' = IF sent.error = "ok" THEN refused ELSE Append(refused, refusal)
  BY DEF CallSend
<1>2. size \in Nat
  BY CallsAssumption
<1>3. sent = Send(transport, [size |-> size], now, draw)
  OBVIOUS
<1> HIDE DEF sent
<1>4. Sends(transport, sent, size, now, draw)
  BY <1>2, <1>3, SendFacts DEF Balanced
<1>5. /\ QueueInOrder(sent.transport)
      /\ Unaccounted(sent.transport) =
           IF sent.error = "ok" THEN Unaccounted(transport) ELSE Unaccounted(transport) + 1
      /\ transport.ordinal <= sent.transport.ordinal
      /\ \A p \in sent.transport.queue :
           p \in transport.queue \/ (p.enqueued = now /\ OnTime(p) /\ transport.ordinal <= p.ordinal)
  BY <1>4 DEF Sends
<1>6. refusal \in [size : Nat, copies : {1, 2}]
  BY <1>2
<1> HIDE DEF refusal
<1>7. /\ refused' \in Seq([size : Nat, copies : {1, 2}])
      /\ Len(refused') = IF sent.error = "ok" THEN Len(refused) ELSE Len(refused) + 1
  <2> DEFINE S == [size : Nat, copies : {1, 2}]
  <2>1. refused \in Seq(S) /\ refusal \in S
    BY <1>6 DEF Balanced
  <2> HIDE DEF S
  <2>2. Append(refused, refusal) \in Seq(S) /\ Len(Append(refused, refusal)) = Len(refused) + 1
    BY <2>1
  <2> QED
    BY <1>1, <2>1, <2>2 DEF S
<1>8. /\ transport.ordinal \in Nat /\ sent.transport.ordinal \in Nat
      /\ sent.transport.queue \in SUBSET Packets
  BY <1>5, QueueFacts, MetricsTyped DEF Balanced
<1>9. ASSUME NEW p \in transport'.queue
      PROVE  OnTime(p) /\ p.enqueued <= now
  BY <1>1, <1>5, <1>9 DEF Balanced
<1>10. ASSUME NEW r \in received
      PROVE  /\ r.copy.ordinal < transport'.ordinal
             /\ \A p \in transport'.queue : p.ordinal # r.copy.ordinal
  <2>1. r.copy.ordinal \in Nat /\ r.copy.ordinal < transport.ordinal
    BY DeliveryTyped DEF Balanced
  <2>2. ASSUME NEW p \in transport'.queue
        PROVE  p.ordinal # r.copy.ordinal
    <3>1. p.ordinal \in Nat
      BY <1>1, <1>8, PacketTyped
    <3> QED
      BY <1>1, <1>5, <1>8, <2>1, <3>1 DEF Balanced
  <2> QED
    BY <1>1, <1>5, <1>8, <2>1, <2>2
<1>11. DeliveredInTime'
  BY <1>1 DEF Balanced, DeliveredInTime
<1>12. Unaccounted(transport') = Len(refused')
  BY <1>1, <1>5, <1>7 DEF Balanced
<1> QED
  BY <1>1, <1>5, <1>7, <1>9, <1>10, <1>11, <1>12 DEF Balanced

(* deliver keeps the books, and what it hands over was due, young enough   *)
(* and not handed over before.                                             *)
LEMMA DeliverKeepsBalance ==
  ASSUME Balanced, CallDeliver
  PROVE  Balanced'
<1> DEFINE taken == TakenFrom(transport, now)
           new == {[copy |-> p, at |-> now] : p \in taken}
<1>1. /\ transport' = Deliver(transport, now) /\ received' = received \union new
      /\ now' = now /\ refused' = refused
  BY DEF CallDeliver
<1>2. /\ QueueInOrder(transport')
      /\ transport'.queue = transport.queue \ (Expired(transport, now) \union taken)
      /\ transport'.ordinal = transport.ordinal
      /\ Unaccounted(transport') = Unaccounted(transport)
  BY <1>1, DeliverFacts DEF Balanced
<1>3. /\ transport.queue \in SUBSET Packets /\ Numbered(transport.queue)
      /\ transport.ordinal \in Nat /\ now \in Nat
  BY QueueFacts, MetricsTyped, TicksAreNat DEF Balanced
<1>4. ASSUME NEW p \in taken
      PROVE  /\ p \in transport.queue /\ p \notin transport'.queue /\ p \in Packets
             /\ p.ordinal < transport.ordinal
             /\ now >= Min({p.enqueued + Latency - Jitter, LastTick})
             /\ now <= p.enqueued + MaxPacketAge
  <2>1. p \in transport.queue /\ p \notin Expired(transport, now) /\ p.scheduled <= now
    BY TakenFacts
  <2>2. p \in Packets /\ p.enqueued \in Nat /\ p.scheduled \in Nat
    BY <1>3, <2>1, PacketTyped
  <2>3. p.enqueued <= now /\ OnTime(p) /\ p.ordinal < transport.ordinal
    BY <2>1 DEF Balanced, QueueInOrder
  <2>4. (now - p.enqueued) % (LastTick + 1) = now - p.enqueued
    BY <2>2, <2>3, AgeIsElapsed DEF Balanced
  <2>5. ~ (now - p.enqueued > MaxPacketAge)
    BY <2>1, <2>4 DEF Expired
  <2> DEFINE least == p.enqueued + Latency - Jitter
  <2>6. least \in Int /\ LastTick \in Int /\ MaxPacketAge \in Nat
    BY <2>2, TicksAreNat
  <2>7. p.scheduled >= Min({least, LastTick})
    BY <2>3 DEF OnTime
  <2> HIDE DEF least
  <2>8. Min({least, LastTick}) \in Int
    BY <2>6, MinMaxOfTwo
  <2>9. now >= Min({least, LastTick})
    BY <1>3, <2>1, <2>2, <2>7, <2>8
  <2>10. now <= p.enqueued + MaxPacketAge
    BY <1>3, <2>2, <2>5, <2>6
  <2> QED
    BY <1>2, <2>1, <2>2, <2>3, <2>9, <2>10 DEF least
<1>5. \A r \in new : r.copy \in taken /\ r.at = now /\ r = [copy |-> r.copy, at |-> now]
  OBVIOUS
<1>6. received' \in SUBSET Deliveries
  <2>1. new \in SUBSET Deliveries
    <3>1. \A p \in taken : [copy |-> p, at |-> now] \in Deliveries
      BY <1>3, <1>4 DEF Deliveries
    <3> QED
      BY <3>1
  <2> QED
    BY <1>1, <2>1 DEF Balanced
<1> HIDE DEF taken, new
<1>7. ASSUME NEW r \in received'
      PROVE  /\ r.copy.ordinal < transport.ordinal
             /\ \A p \in transport'.queue : p.ordinal # r.copy.ordinal
             /\ r.at >= Min({r.copy.enqueued + Latency - Jitter, LastTick})
             /\ r.at <= r.copy.enqueued + MaxPacketAge
  <2>1. CASE r \in received
    BY <1>2, <2>1 DEF Balanced, DeliveredInTime
  <2>2. CASE r \in new
    <3>1. r.copy \in taken /\ r.at = now
      BY <1>5, <2>2
    <3>2. ASSUME NEW p \in transport'.queue
          PROVE  p.ordinal # r.copy.ordinal
      BY <1>2, <1>3, <1>4, <3>1 DEF Numbered
    <3> QED
      BY <1>4, <3>1, <3>2
  <2> QED
    BY <1>1, <2>1, <2>2
<1>8. ASSUME NEW r \in received', NEW s \in received', r.copy.ordinal = s.copy.ordinal
      PROVE  r = s
  <2>1. CASE r \in received /\ s \in received
    BY <1>8, <2>1 DEF Balanced, DeliveredInTime
  <2>2. ASSUME NEW x \in received, NEW y \in new
        PROVE  x.copy.ordinal # y.copy.ordinal
    BY <1>4, <1>5 DEF Balanced
  <2>3. CASE r \in new /\ s \in new
    <3>1. r.copy = s.copy
      BY <1>3, <1>4, <1>5, <1>8, <2>3 DEF Numbered
    <3> QED
      BY <1>5, <2>3, <3>1
  <2> QED
    BY <1>1, <1>8, <2>1, <2>2, <2>3
<1>9. DeliveredInTime'
  BY <1>7, <1>8 DEF DeliveredInTime
<1>10. \A p \in transport'.queue : OnTime(p) /\ p.enqueued <= now
  BY <1>2 DEF Balanced
<1> QED
  BY <1>1, <1>2, <1>6, <1>7, <1>9, <1>10 DEF Balanced

(* Time passing changes nothing in the books. *)
LEMMA TickKeepsBalance ==
  ASSUME Balanced, Tick
  PROVE  Balanced'
<1>1. /\ now' = now + 1 /\ now < LastTick /\ transport' = transport /\ refused' = refused
      /\ received' = received
  BY DEF Tick
<1>2. now' \in 0 .. LastTick /\ now \in Nat /\ transport.queue \in SUBSET Packets
  BY <1>1, QueueFacts, TicksAreNat DEF Balanced
<1>3. ASSUME NEW p \in transport.queue
      PROVE  OnTime(p) /\ p.enqueued <= now'
  BY <1>1, <1>2, PacketTyped DEF Balanced
<1>4. DeliveredInTime'
  BY <1>1 DEF Balanced, DeliveredInTime
<1> QED
  BY <1>1, <1>2, <1>3, <1>4 DEF Balanced

(* Every step keeps the books. *)
LEMMA StaysBalanced == Balanced /\ [Next]_vars => Balanced'
<1> SUFFICES ASSUME Balanced, [Next]_vars
             PROVE  Balanced'
  OBVIOUS
<1>1. ASSUME NEW size \in Sizes, NEW draw \in Draws, CallSend(size, draw)
      PROVE  Balanced'
  BY <1>1, SendKeepsBalance
<1>2. CASE CallDeliver
  BY <1>2, DeliverKeepsBalance
<1>3. CASE Tick
  BY <1>3, TickKeepsBalance
<1>4. CASE UNCHANGED vars
  BY <1>4 DEF vars, Balanced, DeliveredInTime
<1> QED
  BY <1>1, <1>2, <1>3, <1>4 DEF Next

(* The books are balanced in every execution. *)
LEMMA TransportStaysBalanced == Spec => []Balanced
<1> QED
  BY StartsBalanced, StaysBalanced, PTL DEF Spec

-----------------------------------------------------------------------------
(* What the transport promises *)

(* What was sent or duplicated was delivered, lost, dropped, aged out or   *)
(* refused, or waits in the queue, which keeps to its limits: send,        *)
(* ensure_capacity and deliver keep the books of the transport in order,   *)
(* whatever its configuration, the packets and what the generator draws.   *)
THEOREM PacketsAreConservedAlways == Spec => []PacketsAreConserved
<1>1. ASSUME Balanced
      PROVE  PacketsAreConserved
  <2>1. QueueInOrder(transport) /\ Unaccounted(transport) = Len(refused)
    BY <1>1 DEF Balanced
  <2>2. /\ transport \in Transports /\ Cardinality(transport.queue) \in Nat
    BY <2>1, QueueFacts
  <2>3. Len(refused) \in Nat
    BY <1>1 DEF Balanced
  <2> DEFINE m == transport.metrics
             queued == Cardinality(transport.queue)
  <2>4. /\ m.sent \in Nat /\ m.duplicated \in Nat /\ m.delivered \in Nat /\ m.loss \in Nat
        /\ m.overflow \in Nat /\ m.age \in Nat
    BY <2>2, MetricsTyped
  <2>5. m.sent + m.duplicated - (m.delivered + m.loss + m.overflow + m.age + queued) = Len(refused)
    BY <2>1 DEF Unaccounted
  <2> HIDE DEF m, queued
  <2>6. m.sent + m.duplicated =
          m.delivered + m.loss + m.overflow + m.age + Len(refused) + queued
    <3> DEFINE s == m.sent          d == m.duplicated    v == m.delivered
               l == m.loss          o == m.overflow      a == m.age
               r == Len(refused)
    <3>1. /\ s \in Nat /\ d \in Nat /\ v \in Nat /\ l \in Nat /\ o \in Nat /\ a \in Nat
          /\ r \in Nat /\ queued \in Nat
      BY <2>2, <2>3, <2>4 DEF queued
    <3>2. s + d - (v + l + o + a + queued) = r
      BY <2>5
    <3> HIDE DEF s, d, v, l, o, a, r
    <3>3. s + d = v + l + o + a + r + queued
      BY <3>1, <3>2
    <3> QED
      BY <3>3 DEF s, d, v, l, o, a, r
  <2> QED
    BY <2>1, <2>6 DEF PacketsAreConserved, QueueInOrder, m, queued
<1> QED
  BY <1>1, TransportStaysBalanced, PTL

(* deliver hands a copy over once, no earlier than the least latency after *)
(* the packet was sent (or at the last tick, where the scheduled tick      *)
(* saturates) and no later than its age allows.                            *)
THEOREM DeliveredInTimeAlways == Spec => []DeliveredInTime
<1>1. Balanced => DeliveredInTime
  BY DEF Balanced
<1> QED
  BY <1>1, TransportStaysBalanced, PTL

-----------------------------------------------------------------------------
(* The order of the deliveries and the budget *)

(* deliver sorts by a total order: no two packets have the same ordinal. *)
LEMMA BeforeIsAnOrder ==
  ASSUME NEW D \in SUBSET Packets, Numbered(D)
  PROVE  /\ \A p \in D : ~ Before(p, p)
         /\ \A p, q \in D : p # q => Before(p, q) \/ Before(q, p)
         /\ \A p, q \in D : Before(p, q) => ~ Before(q, p)
         /\ \A p, q, r \in D : Before(p, q) /\ Before(q, r) => Before(p, r)
<1>1. \A p \in D : p.scheduled \in Nat /\ p.rank \in Nat /\ p.ordinal \in Nat
  BY PacketTyped
<1>2. \A p \in D : ~ Before(p, p)
  BY <1>1 DEF Before
<1>3. \A p, q \in D : p # q => Before(p, q) \/ Before(q, p)
  BY <1>1 DEF Before, Numbered
<1>4. \A p, q \in D : Before(p, q) => ~ Before(q, p)
  BY <1>1 DEF Before
<1>5. \A p, q, r \in D : Before(p, q) /\ Before(q, r) => Before(p, r)
  BY <1>1 DEF Before
<1> QED
  BY <1>2, <1>3, <1>4, <1>5

(* A finite set of packets has a last one. *)
LEMMA LastExists ==
  ASSUME NEW D \in SUBSET Packets, Numbered(D), D # {}
  PROVE  \E l \in D : \A p \in D : p # l => Before(p, l)
<1> DEFINE HasLast(s) == \E l \in s : \A p \in s : p # l => Before(p, l)
           bad == {s \in SUBSET D : s # {} /\ ~ HasLast(s)}
<1> SUFFICES ASSUME bad # {}
             PROVE  FALSE
  OBVIOUS
<1>1. PICK s \in bad : \A x \in s : s \ {x} \notin bad
  BY SmallestPart DEF Numbered
<1>2. PICK x \in s : s \ {x} \notin bad
  BY <1>1
<1>3. s \in SUBSET D /\ ~ HasLast(s)
  OBVIOUS
<1>4. CASE s \ {x} = {}
  BY <1>3, <1>4
<1>5. CASE s \ {x} # {}
  <2>1. PICK l \in s \ {x} : \A p \in s \ {x} : p # l => Before(p, l)
    BY <1>2, <1>3, <1>5
  <2>2. CASE Before(x, l)
    BY <1>3, <2>1, <2>2
  <2>3. CASE ~ Before(x, l)
    <3>1. Before(l, x)
      BY <1>3, <2>1, <2>3, BeforeIsAnOrder
    <3>2. \A p \in s : p # x => Before(p, x)
      BY <1>3, <2>1, <3>1, BeforeIsAnOrder
    <3> QED
      BY <1>3, <3>2
  <2> QED
    BY <2>2, <2>3
<1> QED
  BY <1>4, <1>5

(* p fits what the packets of T before it leave of the budget. *)
Fits(T, p) == p.size + BytesOf({q \in T : Before(q, p)}) <= Bandwidth

(* T is what the loop of deliver takes of the packets D. *)
Takes(D, T) == T \in SUBSET D /\ \A p \in D : p \in T <=> Fits(T, p)

(* The loop takes some packets: without the last of D by induction, and    *)
(* the last does not matter to the others.                                 *)
LEMMA TakesExists ==
  ASSUME NEW D \in SUBSET Packets, Numbered(D)
  PROVE  \E T : Takes(D, T)
<1> DEFINE bad == {s \in SUBSET D : ~ \E T : Takes(s, T)}
<1> SUFFICES ASSUME bad # {}
             PROVE  FALSE
  <2>1. D \notin bad
    OBVIOUS
  <2> QED
    BY <2>1
<1>1. PICK s \in bad : \A x \in s : s \ {x} \notin bad
  BY SmallestPart DEF Numbered
<1>2. s \in SUBSET D /\ s \in SUBSET Packets /\ ~ \E T : Takes(s, T)
  OBVIOUS
<1>3. s # {}
  <2>1. s = {} => Takes(s, {})
    BY DEF Takes
  <2> QED
    BY <1>2, <2>1
<1>4. Numbered(s)
  BY <1>2, FS_Subset DEF Numbered
<1>5. PICK l \in s : \A p \in s : p # l => Before(p, l)
  BY <1>2, <1>3, <1>4, LastExists
<1>6. PICK T : Takes(s \ {l}, T)
  BY <1>1, <1>2
<1>7. T \in SUBSET (s \ {l}) /\ \A p \in s \ {l} : p \in T <=> Fits(T, p)
  BY <1>6 DEF Takes
<1>8. \A p \in s : ~ Before(l, p)
  BY <1>2, <1>4, <1>5, BeforeIsAnOrder
<1>9. \A p \in s : {q \in T \union {l} : Before(q, p)} = {q \in T : Before(q, p)}
  BY <1>8
<1>10. \A p \in s : Fits(T \union {l}, p) <=> Fits(T, p)
  BY <1>9 DEF Fits
<1>11. CASE Fits(T, l)
  <2>1. Takes(s, T \union {l})
    BY <1>7, <1>10, <1>11 DEF Takes
  <2> QED
    BY <1>2, <2>1
<1>12. CASE ~ Fits(T, l)
  <2>1. Takes(s, T)
    BY <1>7, <1>12 DEF Takes
  <2> QED
    BY <1>2, <2>1
<1> QED
  BY <1>11, <1>12

(* The packets that deliver looks at. *)
Due(t, tick) == {p \in t.queue \ Expired(t, tick) : p.scheduled <= tick}

(* TakenFrom is what the loop takes: its recursive function exists. *)
LEMMA TakenFromTakes ==
  ASSUME NEW t, QueueInOrder(t), NEW tick
  PROVE  Takes(Due(t, tick), TakenFrom(t, tick))
<1> DEFINE due == Due(t, tick)
           Rule(g) == [p \in due |->
                         p.size + BytesOf({q \in due : Before(q, p) /\ g[q]}) <= Bandwidth]
           taken == CHOOSE g : g = Rule(g)
<1>1. TakenFrom(t, tick) = {p \in due : taken[p]}
  BY DEF TakenFrom, Due
<1>2. due \in SUBSET Packets /\ Numbered(due)
  <2>1. t.queue \in SUBSET Packets /\ Numbered(t.queue)
    BY QueueFacts
  <2>2. due \in SUBSET t.queue
    BY DEF Due
  <2> QED
    BY <2>1, <2>2, FS_Subset DEF Numbered
<1> HIDE DEF due
<1>3. PICK T : Takes(due, T)
  BY <1>2, TakesExists
<1>4. \E g : g = Rule(g)
  <2> DEFINE g == [p \in due |-> p \in T]
  <2>1. ASSUME NEW p \in due
        PROVE  {q \in due : Before(q, p) /\ g[q]} = {q \in T : Before(q, p)}
    BY <1>3 DEF Takes
  <2>2. ASSUME NEW p \in due
        PROVE  (p \in T) = (p.size + BytesOf({q \in due : Before(q, p) /\ g[q]}) <= Bandwidth)
    <3>1. (p \in T) <=> (p.size + BytesOf({q \in T : Before(q, p)}) <= Bandwidth)
      BY <1>3 DEF Takes, Fits
    <3> DEFINE before == {q \in due : Before(q, p) /\ g[q]}
    <3>2. (p \in T) <=> (p.size + BytesOf(before) <= Bandwidth)
      BY <2>1, <3>1
    <3> HIDE DEF before
    <3>3. (p \in T) = (p.size + BytesOf(before) <= Bandwidth)
      BY <3>2
    <3> QED
      BY <3>3 DEF before
  <2>3. g = Rule(g)
    BY <2>2
  <2> QED
    BY <2>3
<1>5. taken = Rule(taken)
  BY <1>4
<1> HIDE DEF taken
<1> DEFINE U == {p \in due : taken[p]}
<1>6. ASSUME NEW p \in due
      PROVE  p \in U <=> Fits(U, p)
  <2>1. taken[p] = (p.size + BytesOf({q \in due : Before(q, p) /\ taken[q]}) <= Bandwidth)
    BY <1>5
  <2>2. {q \in due : Before(q, p) /\ taken[q]} = {q \in U : Before(q, p)}
    OBVIOUS
  <2> QED
    BY <2>1, <2>2 DEF Fits
<1> QED
  BY <1>1, <1>6 DEF Takes, due

(* Of two packets that are due, the one whose turn is later is smaller if  *)
(* it is taken and the other is not.                                       *)
LEMMA LaterTakenIsSmaller ==
  ASSUME NEW t, QueueInOrder(t), NEW tick, NEW c \in TakenFrom(t, tick), NEW p \in Due(t, tick),
         p \notin TakenFrom(t, tick), Before(p, c)
  PROVE  c.size < p.size
<1> DEFINE T == TakenFrom(t, tick)
           ahead(x) == {q \in T : Before(q, x)}
           ofP == BytesOf(ahead(p))
           ofC == BytesOf(ahead(c))
<1>1. t.queue \in SUBSET Packets /\ Numbered(t.queue) /\ Sized(t.queue)
  BY QueueFacts
<1>2. T \in SUBSET t.queue /\ c \in Due(t, tick) /\ c \in t.queue /\ p \in t.queue
  BY TakenFromTakes DEF Takes, Due
<1>3. Fits(T, c) /\ ~ Fits(T, p)
  BY <1>2, TakenFromTakes DEF Takes
<1> HIDE DEF T
<1>4. ahead(p) \in SUBSET ahead(c)
  BY <1>1, <1>2, BeforeIsAnOrder
<1>5. Sized(ahead(c))
  BY <1>1, <1>2, SizedSubset
<1>6. ofP \in Nat /\ ofC \in Nat /\ ofP <= ofC
  BY <1>4, <1>5, BytesOfPart
<1>7. c.size + ofC <= Bandwidth /\ ~ (p.size + ofP <= Bandwidth)
  BY <1>3 DEF Fits
<1>8. c.size \in Nat /\ p.size \in Nat /\ Bandwidth \in Nat
  BY <1>1, <1>2, PacketTyped, TicksAreNat
<1> HIDE DEF ofP, ofC
<1> QED
  BY <1>6, <1>7, <1>8

(* With drop_oldest and valid percentages, send refuses a packet only if   *)
(* it is too large, or the queue, which ensure_capacity has then emptied,  *)
(* could not hold it and its copy even when empty.                         *)
THEOREM RefusedOnlyWhatNeverFitsAlways == Spec => RefusedOnlyWhatNeverFits
<1> DEFINE Refusals ==
             DropsOldest /\ ~ InvalidPercent =>
               \A i \in (DOMAIN refused') \ (DOMAIN refused) :
                 LET bytes == refused'[i].size * refused'[i].copies
                 IN  \/ refused'[i].size > MaxPacketBytes
                     \/ transport'.queue = {} /\ bytes > MaxQueueBytes
                     \/ transport'.queue = {} /\ refused'[i].copies > MaxQueuePackets
<1>1. ASSUME Balanced, NEW size \in Sizes, NEW draw \in Draws, CallSend(size, draw)
      PROVE  Refusals
  <2> SUFFICES ASSUME DropsOldest, ~ InvalidPercent,
                      NEW i \in (DOMAIN refused') \ (DOMAIN refused)
               PROVE  \/ refused'[i].size > MaxPacketBytes
                      \/ /\ transport'.queue = {}
                         /\ NeverFits(refused'[i].copies, refused'[i].size * refused'[i].copies)
    BY DEF NeverFits
  <2> DEFINE sent == Send(transport, [size |-> size], now, draw)
             refusal == [size |-> size, copies |-> CopyCount(draw)]
  <2>1. /\ transport' = sent.transport
        /\ refused' = IF sent.error = "ok" THEN refused ELSE Append(refused, refusal)
    BY <1>1 DEF CallSend, CopyCount
  <2>2. sent = Send(transport, [size |-> size], now, draw) /\ size \in Nat
    BY CallsAssumption
  <2> HIDE DEF sent
  <2>3. Sends(transport, sent, size, now, draw)
    BY <1>1, <2>2, SendFacts DEF Balanced
  <2>4. sent.error # "ok" /\ refused' = Append(refused, refusal)
    BY <2>1
  <2>5. refused'[i] = refusal
    BY <1>1, <2>4 DEF Balanced
  <2> QED
    BY <2>1, <2>3, <2>4, <2>5 DEF Sends
<1>2. ASSUME refused' = refused
      PROVE  Refusals
  BY <1>2
<1>3. Balanced /\ [Next]_vars => [Refusals]_vars
  BY <1>1, <1>2 DEF Next, CallDeliver, Tick, vars
<1> HIDE DEF Refusals
<1>4. Spec => [][Refusals]_vars
  BY <1>3, TransportStaysBalanced, PTL DEF Spec
<1> QED
  BY <1>4 DEF RefusedOnlyWhatNeverFits, Refusals

(* deliver's byte budget lets a copy overtake one that was due before it   *)
(* only if it is smaller: a packet that does not fit is skipped, and what  *)
(* comes after it has no more of the budget than it had.                   *)
THEOREM OnlySmallerOvertakesAlways == Spec => OnlySmallerOvertakes
<1> DEFINE Overtakings ==
             \A r \in received' \ received, p \in transport'.queue :
               p.scheduled <= now /\ p.scheduled < r.copy.scheduled => r.copy.size < p.size
<1>1. ASSUME Balanced, CallDeliver
      PROVE  Overtakings
  <2> SUFFICES ASSUME NEW r \in received' \ received, NEW p \in transport'.queue,
                      p.scheduled <= now, p.scheduled < r.copy.scheduled
               PROVE  r.copy.size < p.size
    OBVIOUS
  <2>1. /\ transport' = Deliver(transport, now) /\ QueueInOrder(transport)
        /\ r \in {[copy |-> c, at |-> now] : c \in TakenFrom(transport, now)}
    BY <1>1 DEF CallDeliver, Balanced
  <2>2. r.copy \in TakenFrom(transport, now)
    BY <2>1
  <2>3. transport'.queue = transport.queue \ (Expired(transport, now) \union TakenFrom(transport, now))
    BY <2>1, DeliverFacts
  <2>4. p \in Due(transport, now) /\ p \notin TakenFrom(transport, now)
    BY <2>3 DEF Due
  <2>5. Before(p, r.copy)
    BY DEF Before
  <2> QED
    BY <2>1, <2>2, <2>4, <2>5, LaterTakenIsSmaller
<1>2. ASSUME received' = received
      PROVE  Overtakings
  BY <1>2
<1>3. Balanced /\ [Next]_vars => [Overtakings]_vars
  BY <1>1, <1>2 DEF Next, CallSend, Tick, vars
<1> HIDE DEF Overtakings
<1>4. Spec => [][Overtakings]_vars
  BY <1>3, TransportStaysBalanced, PTL DEF Spec
<1> QED
  BY <1>4 DEF OnlySmallerOvertakes, Overtakings
====
