---- MODULE Handles ----
(***************************************************************************)
(* Who may use what across the C ABI (src/c_api): sessions, and live and   *)
(* UDP drivers that borrow them.  A handle belongs to the thread that made *)
(* it; a borrowed session is changed by its driver alone; a driver is      *)
(* made only of untouched sessions; the failure of a driver is sticky.     *)
(*                                                                         *)
(* Of a session's state only the number of changes counts.  A call that is *)
(* refused changes nothing and is left out: its guard is the refusal.      *)
(***************************************************************************)
EXTENDS Naturals, FiniteSets

CONSTANTS
  Threads,        \* the threads that call
  SessionIds,     \* addresses of sessions
  DriverIds,      \* addresses of drivers
  MoveLimit       \* bound: changes of one session

ASSUME HandlesAssumption == MoveLimit \in Nat

VARIABLES
  session,        \* the rl_session at each address
  driver          \* the rl_live or rl_udp_peer at each address

handlesVars == <<session, driver>>

PeerIds == {"a", "b"}

Absent == [exists |-> FALSE]

Exists(handle) == handle.exists

HandlesInit ==
  /\ session = [s \in SessionIds |-> Absent]
  /\ driver = [d \in DriverIds |-> Absent]

(* check_session with mutation. *)
MayMutate(t, s) ==
  /\ Exists(session[s])
  /\ session[s].owner = t
  /\ ~ session[s].borrowed

-----------------------------------------------------------------------------
(* Sessions *)

SessionCreate(t, s, peer) ==
  /\ ~ Exists(session[s])
  /\ session' = [session EXCEPT ![s] =
       [exists |-> TRUE, owner |-> t, peer |-> peer,
        borrowed |-> FALSE, touched |-> FALSE, moves |-> 0]]
  /\ UNCHANGED driver

SessionDestroy(t, s) ==
  /\ MayMutate(t, s)
  /\ session' = [session EXCEPT ![s] = Absent]
  /\ UNCHANGED driver

(* rl_session_advance, rl_session_ingest_remote, and                       *)
(* rl_session_flush_corrections with a correction to make.                 *)
SessionChange(t, s) ==
  /\ MayMutate(t, s)
  /\ session[s].moves < MoveLimit
  /\ session' = [session EXCEPT ![s].moves = @ + 1, ![s].touched = TRUE]
  /\ UNCHANGED driver

(* An advance or a correction that fails half way leaves a trace in the    *)
(* session without marking it.  Either takes a correction that is pending  *)
(* or a world of many frames, so the session has been marked before.       *)
SessionChangeFails(t, s) ==
  /\ MayMutate(t, s)
  /\ session[s].touched
  /\ session[s].moves < MoveLimit
  /\ session' = [session EXCEPT ![s].moves = @ + 1]
  /\ UNCHANGED driver

-----------------------------------------------------------------------------
(* Drivers *)

(* Borrowing is published after everything else has succeeded. *)
Borrow(t, d, kind, phase, borrowed) ==
  /\ driver' = [driver EXCEPT ![d] =
       [exists |-> TRUE, owner |-> t, kind |-> kind, sessions |-> borrowed,
        failed |-> FALSE, phase |-> phase]]
  /\ session' = [s \in SessionIds |->
       IF s \in borrowed THEN [session[s] EXCEPT !.borrowed = TRUE] ELSE session[s]]

(* Mutant: the sessions' owner is checked, but not whether they are lent. *)
LiveCreateUnchecked(t, d, a, b) ==
  /\ ~ Exists(driver[d])
  /\ \A s \in {a, b} : Exists(session[s]) /\ session[s].owner = t
  /\ session[a].peer = "a" /\ session[b].peer = "b"
  /\ ~ session[a].touched /\ ~ session[b].touched
  /\ Borrow(t, d, "live", "game", {a, b})

LiveCreate(t, d, a, b) ==
  /\ ~ Exists(driver[d])
  /\ MayMutate(t, a) /\ MayMutate(t, b)
  /\ session[a].peer = "a" /\ session[b].peer = "b"
  /\ ~ session[a].touched /\ ~ session[b].touched
  /\ Borrow(t, d, "live", "game", {a, b})

GivenBack(d) ==
  /\ driver' = [driver EXCEPT ![d] = Absent]
  /\ session' = [s \in SessionIds |->
       IF s \in driver[d].sessions THEN [session[s] EXCEPT !.borrowed = FALSE] ELSE session[s]]

LiveDestroy(t, d) ==
  /\ Exists(driver[d]) /\ driver[d].kind = "live" /\ driver[d].owner = t
  /\ GivenBack(d)

(* The sessions of a step: those it moves, those it marks. *)
Stepped(d, moved, touches) ==
  session' = [s \in SessionIds |->
    IF s \notin driver[d].sessions THEN session[s]
    ELSE [session[s] EXCEPT !.moves = IF s \in moved THEN @ + 1 ELSE @,
                            !.touched = @ \/ touches]]

Movable(d) == {s \in driver[d].sessions : session[s].moves < MoveLimit}

(* Mutant: a driver that failed is stepped again. *)
LiveStepRetrying(t, d, moved, fails) ==
  /\ Exists(driver[d]) /\ driver[d].kind = "live" /\ driver[d].owner = t
  /\ moved \subseteq Movable(d)
  /\ Stepped(d, moved, TRUE)
  /\ driver' = [driver EXCEPT ![d].failed = fails]

(* Mutant: the sessions are marked when the step has succeeded. *)
LiveStepTouchingLate(t, d, moved, fails) ==
  /\ Exists(driver[d]) /\ driver[d].kind = "live" /\ driver[d].owner = t
  /\ ~ driver[d].failed
  /\ moved \subseteq Movable(d)
  /\ Stepped(d, moved, ~ fails)
  /\ driver' = [driver EXCEPT ![d].failed = fails]

(* A step marks both sessions before it does anything, and may move them   *)
(* and fail then.                                                          *)
LiveStep(t, d, moved, fails) ==
  /\ Exists(driver[d]) /\ driver[d].kind = "live" /\ driver[d].owner = t
  /\ ~ driver[d].failed
  /\ moved \subseteq Movable(d)
  /\ Stepped(d, moved, TRUE)
  /\ driver' = [driver EXCEPT ![d].failed = fails]

UdpCreate(t, d, s) ==
  /\ ~ Exists(driver[d])
  /\ MayMutate(t, s)
  /\ ~ session[s].touched
  /\ Borrow(t, d, "udp", "handshake", {s})

UdpDestroy(t, d) ==
  /\ Exists(driver[d]) /\ driver[d].kind = "udp" /\ driver[d].owner = t
  /\ GivenBack(d)

(* A step marks the session only when it has succeeded; a handshake does   *)
(* not move it, and ends in a step that succeeds.                          *)
UdpStep(t, d, moved, fails, phase) ==
  /\ Exists(driver[d]) /\ driver[d].kind = "udp" /\ driver[d].owner = t
  /\ ~ driver[d].failed
  /\ moved \subseteq (IF driver[d].phase = "game" THEN Movable(d) ELSE {})
  /\ phase = "game" \/ (driver[d].phase = "handshake" /\ phase = "handshake")
  /\ fails => phase = driver[d].phase
  /\ Stepped(d, moved, ~ fails)
  /\ driver' = [driver EXCEPT ![d].failed = fails, ![d].phase = phase]

HandlesNext ==
  \E t \in Threads :
    \/ \E s \in SessionIds, peer \in PeerIds : SessionCreate(t, s, peer)
    \/ \E s \in SessionIds : SessionDestroy(t, s)
    \/ \E s \in SessionIds : SessionChange(t, s)
    \/ \E s \in SessionIds : SessionChangeFails(t, s)
    \/ \E d \in DriverIds, a, b \in SessionIds : LiveCreate(t, d, a, b)
    \/ \E d \in DriverIds : LiveDestroy(t, d)
    \/ \E d \in DriverIds, moved \in SUBSET SessionIds, fails \in BOOLEAN :
         LiveStep(t, d, moved, fails)
    \/ \E d \in DriverIds, s \in SessionIds : UdpCreate(t, d, s)
    \/ \E d \in DriverIds : UdpDestroy(t, d)
    \/ \E d \in DriverIds, moved \in SUBSET SessionIds, fails \in BOOLEAN,
          phase \in {"handshake", "game"} : UdpStep(t, d, moved, fails, phase)

HandlesSpec == HandlesInit /\ [][HandlesNext]_handlesVars

-----------------------------------------------------------------------------
(* Properties *)

(* A session is borrowed if and only if exactly one driver has it, and     *)
(* what a driver has exists, belongs to the driver's thread and, for a     *)
(* live driver, is one session of each peer: no order of creates, steps,   *)
(* failures and destroys leaves a session locked for good or a driver with *)
(* a session that is gone.                                                 *)
OneBorrower ==
  LET Borrowers(s) == {d \in DriverIds : Exists(driver[d]) /\ s \in driver[d].sessions}
  IN  /\ \A s \in SessionIds :
           IF Exists(session[s])
           THEN Cardinality(Borrowers(s)) = IF session[s].borrowed THEN 1 ELSE 0
           ELSE Borrowers(s) = {}
      /\ \A d \in DriverIds : Exists(driver[d]) =>
           /\ \A s \in driver[d].sessions : session[s].owner = driver[d].owner
           /\ driver[d].kind = "live" =>
                {session[s].peer : s \in driver[d].sessions} = PeerIds

(* A session that is not marked as touched is as it was made, whatever     *)
(* failed half way: a driver never starts from a session that has moved.   *)
UntouchedIsFresh ==
  \A s \in SessionIds : Exists(session[s]) /\ ~ session[s].touched => session[s].moves = 0

(* A borrowed session changes only in a step of its driver that had not    *)
(* failed, and cannot be destroyed under it.                               *)
BorrowedMovesWithItsDriver ==
  [][\A s \in SessionIds : Exists(session[s]) /\ session[s].borrowed =>
       /\ Exists(session'[s])
       /\ session'[s].moves # session[s].moves =>
            \E d \in DriverIds : Exists(driver[d]) /\ s \in driver[d].sessions /\ ~ driver[d].failed]_handlesVars
====
