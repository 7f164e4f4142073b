---- MODULE OwnershipProofs ----
(***************************************************************************)
(* Proofs about what is lent and started, and has to be given back and     *)
(* stopped: Handles, for any number of threads, sessions and drivers, and  *)
(* Supervisor, for any games, leftovers and number of crashes.             *)
(*                                                                         *)
(* OneBorrower counts the drivers of a session and is not inductive: that  *)
(* a session's driver is the only one follows from who set the borrowed    *)
(* flag.  Consistent says of each driver what its sessions are like, of    *)
(* each borrowed session that it has a driver, and that two drivers share  *)
(* none; for UntouchedIsFresh it adds that a UDP driver past its handshake *)
(* has marked its session.                                                 *)
(*                                                                         *)
(* The supervisor's verdict is given long after the evidence for it was    *)
(* seen.  Orderly says what is known at each place of the supervisor (no   *)
(* peer has been started, every exit seen was 0, which children are gone), *)
(* that an exit once seen is the child's last word, and that a peer that   *)
(* found a desync has left its diagnostic and does not end with 0.         *)
(***************************************************************************)
EXTENDS Handles, Supervisor, FiniteSetTheorems, TLAPS

-----------------------------------------------------------------------------
(* Handles *)

SessionRecords ==
  [exists : {TRUE}, owner : Threads, peer : PeerIds, borrowed : BOOLEAN,
   touched : BOOLEAN, moves : Nat]

DriverRecords ==
  [exists : {TRUE}, owner : Threads, kind : {"live", "udp"}, sessions : SUBSET SessionIds,
   failed : BOOLEAN, phase : {"handshake", "game"}]

HandleTypes ==
  /\ session \in [SessionIds -> SessionRecords \union {Absent}]
  /\ driver \in [DriverIds -> DriverRecords \union {Absent}]

Has(d, s) == Exists(driver[d]) /\ s \in driver[d].sessions

(* What a driver has is lent to it. *)
LentToDrivers ==
  \A d \in DriverIds, s \in SessionIds : Has(d, s) =>
    Exists(session[s]) /\ session[s].borrowed /\ session[s].owner = driver[d].owner

(* What is lent, some driver has. *)
BorrowedBySomeone ==
  \A s \in SessionIds : Exists(session[s]) /\ session[s].borrowed => \E d \in DriverIds : Has(d, s)

NothingShared ==
  \A d, e \in DriverIds, s \in SessionIds : Has(d, s) /\ Has(e, s) => d = e

(* A live driver has a session of each peer. *)
LiveHasBoth ==
  \A d \in DriverIds : Exists(driver[d]) /\ driver[d].kind = "live" =>
    \A peer \in PeerIds : \E s \in driver[d].sessions : session[s].peer = peer

(* A UDP driver that plays has marked its session. *)
PlayingIsTouched ==
  \A d \in DriverIds, s \in SessionIds :
    Has(d, s) /\ driver[d].kind = "udp" /\ driver[d].phase = "game" => session[s].touched

Consistent ==
  /\ HandleTypes
  /\ LentToDrivers
  /\ BorrowedBySomeone
  /\ NothingShared
  /\ LiveHasBoth
  /\ PlayingIsTouched
  /\ UntouchedIsFresh

-----------------------------------------------------------------------------
(* Handles that exist are whole records, and stay so. *)

(* A session that exists is a whole record. *)
LEMMA SessionTyped ==
  ASSUME HandleTypes, NEW s \in SessionIds, Exists(session[s])
  PROVE  session[s] \in SessionRecords
  BY DEF HandleTypes, Exists, Absent

(* A driver that exists is a whole record, of sessions there may be. *)
LEMMA DriverTyped ==
  ASSUME HandleTypes, NEW d \in DriverIds, Exists(driver[d])
  PROVE  driver[d] \in DriverRecords /\ driver[d].sessions \subseteq SessionIds
<1>1. driver[d] \in DriverRecords
  BY DEF HandleTypes, Exists, Absent
<1> QED
  BY <1>1 DEF DriverRecords

(* A whole record is one of a handle that exists. *)
LEMMA RecordsExist ==
  /\ \A r \in SessionRecords : Exists(r)
  /\ \A r \in DriverRecords : Exists(r)
  /\ ~ Exists(Absent)
  BY DEF SessionRecords, DriverRecords, Exists, Absent

(* A session with another count of moves and another mark. *)
LEMMA SessionMoved ==
  ASSUME NEW r \in SessionRecords, NEW n \in Nat, NEW b \in BOOLEAN
  PROVE  LET m == [r EXCEPT !.moves = n, !.touched = b]
         IN  /\ m \in SessionRecords
             /\ m.moves = n /\ m.touched = b
             /\ m.owner = r.owner /\ m.peer = r.peer /\ m.borrowed = r.borrowed
  BY DEF SessionRecords

(* A session that is lent or returned. *)
LEMMA SessionLent ==
  ASSUME NEW r \in SessionRecords, NEW b \in BOOLEAN
  PROVE  LET m == [r EXCEPT !.borrowed = b]
         IN  /\ m \in SessionRecords
             /\ m.borrowed = b
             /\ m.owner = r.owner /\ m.peer = r.peer /\ m.touched = r.touched /\ m.moves = r.moves
  BY DEF SessionRecords

(* A session of a driver that steps. *)
AfterStep(r, s, moved, touches) ==
  [r EXCEPT !.moves = IF s \in moved THEN @ + 1 ELSE @, !.touched = @ \/ touches]

(* What a step changes of a session: its moves, if it is one of those that *)
(* moved, and its mark.                                                    *)
LEMMA SessionStepped ==
  ASSUME NEW r \in SessionRecords, NEW s, NEW moved, NEW touches \in BOOLEAN, NEW m,
         m = AfterStep(r, s, moved, touches)
  PROVE  /\ m \in SessionRecords
         /\ s \notin moved => m.moves = r.moves
         /\ m.touched <=> r.touched \/ touches
         /\ m.owner = r.owner /\ m.peer = r.peer /\ m.borrowed = r.borrowed
<1> DEFINE n == IF s \in moved THEN r.moves + 1 ELSE r.moves
           b == r.touched \/ touches
<1>1. r.moves \in Nat
  BY DEF SessionRecords
<1>2. n \in Nat /\ (s \notin moved => n = r.moves)
  BY <1>1
<1>3. b \in BOOLEAN /\ (b <=> r.touched \/ touches)
  OBVIOUS
<1>4. m = [r EXCEPT !.moves = n, !.touched = b]
  BY DEF AfterStep
<1> HIDE DEF n, b
<1>5. /\ m \in SessionRecords
      /\ m.moves = n
      /\ m.owner = r.owner /\ m.peer = r.peer /\ m.borrowed = r.borrowed
  BY <1>2, <1>3, <1>4 DEF SessionRecords
<1>6. m.touched = b
  BY <1>4 DEF SessionRecords
<1>7. m.touched <=> r.touched \/ touches
  BY <1>3, <1>6
<1> QED
  BY <1>2, <1>5, <1>7

-----------------------------------------------------------------------------
(* Every operation keeps the handles consistent. *)

(* Without handles there is nothing to disagree. *)
LEMMA ConsistentInit == HandlesInit => Consistent
  BY DEF HandlesInit, Consistent, HandleTypes, LentToDrivers, BorrowedBySomeone, NothingShared,
         LiveHasBoth, PlayingIsTouched, UntouchedIsFresh, Has, Exists, Absent

(* Creation, destruction and direct calls are about a session that no      *)
(* driver has, and leave it without one.                                   *)
LEMMA FreeSessionChanges ==
  ASSUME Consistent, NEW s \in SessionIds, ~ (Exists(session[s]) /\ session[s].borrowed),
         NEW r \in SessionRecords \union {Absent},
         Exists(r) => ~ r.borrowed /\ (~ r.touched => r.moves = 0),
         session' = [session EXCEPT ![s] = r], driver' = driver
  PROVE  Consistent'
<1>1. /\ \A d \in DriverIds : ~ Has(d, s)
      /\ \A q \in SessionIds : q # s => session'[q] = session[q]
      /\ session'[s] = r
  BY DEF Consistent, LentToDrivers, Has, HandleTypes
<1>2. HandleTypes'
  BY DEF Consistent, HandleTypes
<1>3. \A d \in DriverIds, q \in SessionIds : Has(d, q)' <=> Has(d, q)
  BY DEF Has
<1>4. LentToDrivers' /\ NothingShared' /\ PlayingIsTouched'
  BY <1>1, <1>3 DEF Consistent, LentToDrivers, NothingShared, PlayingIsTouched, Has
<1>5. BorrowedBySomeone'
  BY <1>1, <1>3 DEF Consistent, BorrowedBySomeone
<1>6. LiveHasBoth'
  <2> SUFFICES ASSUME NEW d \in DriverIds, Exists(driver[d]), driver[d].kind = "live",
                      NEW peer \in PeerIds
               PROVE  \E q \in driver[d].sessions : session'[q].peer = peer
    BY DEF LiveHasBoth
  <2>1. PICK q \in driver[d].sessions : session[q].peer = peer
    BY DEF Consistent, LiveHasBoth
  <2>2. q \in SessionIds /\ q # s
    BY <1>1, DriverTyped DEF Has, Consistent
  <2> QED
    BY <1>1, <2>1, <2>2
<1>7. UntouchedIsFresh'
  BY <1>1 DEF Consistent, UntouchedIsFresh
<1> QED
  BY <1>2, <1>4, <1>5, <1>6, <1>7 DEF Consistent

(* rl_session_create, destroy, advance, ingest_remote and                  *)
(* flush_corrections keep the handles consistent.                          *)
LEMMA SessionCallsKeep ==
  ASSUME Consistent, NEW t \in Threads, NEW s \in SessionIds, NEW peer \in PeerIds,
         \/ SessionCreate(t, s, peer)
         \/ SessionDestroy(t, s)
         \/ SessionChange(t, s)
         \/ SessionChangeFails(t, s)
  PROVE  Consistent'
<1>1. CASE SessionCreate(t, s, peer)
  <2> DEFINE r == [exists |-> TRUE, owner |-> t, peer |-> peer,
                   borrowed |-> FALSE, touched |-> FALSE, moves |-> 0]
  <2>1. r \in SessionRecords /\ ~ r.borrowed /\ r.moves = 0
    BY DEF SessionRecords
  <2>2. session' = [session EXCEPT ![s] = r] /\ driver' = driver /\ ~ Exists(session[s])
    BY <1>1 DEF SessionCreate
  <2> HIDE DEF r
  <2> QED
    BY <2>1, <2>2, FreeSessionChanges
<1>2. CASE SessionDestroy(t, s)
  BY <1>2, FreeSessionChanges, RecordsExist DEF SessionDestroy, MayMutate
<1>3. CASE SessionChange(t, s) \/ SessionChangeFails(t, s)
  <2>1. /\ session[s] \in SessionRecords /\ ~ session[s].borrowed
        /\ SessionChangeFails(t, s) => session[s].touched
    BY <1>3, SessionTyped DEF SessionChange, SessionChangeFails, MayMutate, Consistent
  <2> DEFINE n == session[s].moves + 1
             r == [session[s] EXCEPT !.moves = n, !.touched = TRUE]
  <2>2. n \in Nat
    <3>1. session[s].moves \in Nat
      BY <2>1 DEF SessionRecords
    <3> QED
      BY <3>1
  <2>3. session' = [session EXCEPT ![s] = r] /\ driver' = driver
    <3>1. CASE SessionChange(t, s)
      BY <3>1 DEF SessionChange, Consistent, HandleTypes
    <3>2. CASE SessionChangeFails(t, s)
      <4>1. session[s].touched = TRUE
        BY <3>2, <2>1 DEF SessionRecords
      <4>2. r = [session[s] EXCEPT !.moves = n]
        BY <4>1, <2>1 DEF SessionRecords
      <4> QED
        BY <3>2, <4>2 DEF SessionChangeFails, Consistent, HandleTypes
    <3> QED
      BY <1>3, <3>1, <3>2
  <2> HIDE DEF n
  <2>4. r \in SessionRecords /\ ~ r.borrowed /\ r.touched
    BY <2>1, <2>2, SessionMoved
  <2> HIDE DEF r
  <2> QED
    BY <2>1, <2>3, <2>4, FreeSessionChanges
<1> QED
  BY <1>1, <1>2, <1>3

(* A driver is made of sessions that nobody has. *)
LEMMA BorrowKeeps ==
  ASSUME Consistent, NEW t \in Threads, NEW d \in DriverIds, ~ Exists(driver[d]),
         NEW kind \in {"live", "udp"}, NEW phase \in {"handshake", "game"},
         NEW lent \in SUBSET SessionIds, \A s \in lent : MayMutate(t, s),
         kind = "live" => \A peer \in PeerIds : \E s \in lent : session[s].peer = peer,
         kind = "udp" => phase = "handshake",
         Borrow(t, d, kind, phase, lent)
  PROVE  Consistent'
<1> DEFINE new == [exists |-> TRUE, owner |-> t, kind |-> kind, sessions |-> lent,
                   failed |-> FALSE, phase |-> phase]
<1>1. new \in DriverRecords /\ new.sessions = lent /\ new.owner = t /\ new.kind = kind /\ new.phase = phase
  BY DEF DriverRecords
<1>2. driver' = [driver EXCEPT ![d] = new]
  BY DEF Borrow
<1> HIDE DEF new
<1>3. /\ driver'[d] = new
      /\ \A e \in DriverIds : e # d => driver'[e] = driver[e]
  BY <1>2 DEF Consistent, HandleTypes
<1>4. \A s \in SessionIds : s \notin lent => session'[s] = session[s]
  BY DEF Borrow
<1>5. \A s \in lent :
        /\ session[s] \in SessionRecords /\ session'[s] \in SessionRecords
        /\ session'[s].borrowed = TRUE
        /\ session'[s].owner = t /\ session'[s].peer = session[s].peer
        /\ session'[s].touched = session[s].touched /\ session'[s].moves = session[s].moves
  <2> TAKE s \in lent
  <2>1. session[s] \in SessionRecords /\ session[s].owner = t
    BY SessionTyped DEF MayMutate, Consistent
  <2>2. session'[s] = [session[s] EXCEPT !.borrowed = TRUE]
    BY DEF Borrow
  <2> DEFINE r == session[s]
             m == [r EXCEPT !.borrowed = TRUE]
  <2>3. r \in SessionRecords /\ r.owner = t /\ session'[s] = m
    BY <2>1, <2>2
  <2> HIDE DEF r
  <2>4. /\ m \in SessionRecords /\ m.borrowed = TRUE /\ m.owner = r.owner
        /\ m.peer = r.peer /\ m.touched = r.touched /\ m.moves = r.moves
    BY <2>3, SessionLent
  <2> HIDE DEF m
  <2> QED
    BY <2>3, <2>4 DEF r
<1>6. HandleTypes'
  <2>1. driver' \in [DriverIds -> DriverRecords \union {Absent}]
    BY <1>1, <1>2 DEF Consistent, HandleTypes
  <2>2. \A s \in SessionIds : session'[s] \in SessionRecords \union {Absent}
    BY <1>4, <1>5 DEF Consistent, HandleTypes
  <2>3. session' = [s \in SessionIds |-> session'[s]]
    BY DEF Borrow
  <2> QED
    BY <2>1, <2>2, <2>3 DEF HandleTypes
<1>7. \A e \in DriverIds, s \in SessionIds : Has(e, s)' <=> IF e = d THEN s \in lent ELSE Has(e, s)
  BY <1>1, <1>3, RecordsExist DEF Has
<1>8. \A e \in DriverIds, s \in lent : ~ Has(e, s)
  BY DEF Consistent, LentToDrivers, MayMutate
<1>9. LentToDrivers'
  <2> SUFFICES ASSUME NEW e \in DriverIds, NEW s \in SessionIds, Has(e, s)'
               PROVE  Exists(session'[s]) /\ session'[s].borrowed /\ session'[s].owner = driver'[e].owner
    BY DEF LentToDrivers
  <2>1. CASE e = d
    BY <2>1, <1>1, <1>3, <1>5, <1>7, RecordsExist
  <2>2. CASE e # d
    BY <2>2, <1>3, <1>4, <1>7, <1>8 DEF Consistent, LentToDrivers
  <2> QED
    BY <2>1, <2>2
<1>10. BorrowedBySomeone'
  <2> SUFFICES ASSUME NEW s \in SessionIds, Exists(session'[s]), session'[s].borrowed
               PROVE  \E e \in DriverIds : Has(e, s)'
    BY DEF BorrowedBySomeone
  <2>1. CASE s \in lent
    BY <2>1, <1>7
  <2>2. CASE s \notin lent
    <3>1. PICK e \in DriverIds : Has(e, s)
      BY <2>2, <1>4 DEF Consistent, BorrowedBySomeone
    <3>2. e # d
      BY <3>1 DEF Has
    <3> QED
      BY <3>1, <3>2, <1>7
  <2> QED
    BY <2>1, <2>2
<1>11. NothingShared'
  BY <1>7, <1>8 DEF Consistent, NothingShared
<1>12. LiveHasBoth'
  <2> SUFFICES ASSUME NEW e \in DriverIds, Exists(driver'[e]), driver'[e].kind = "live",
                      NEW peer \in PeerIds
               PROVE  \E s \in driver'[e].sessions : session'[s].peer = peer
    BY DEF LiveHasBoth
  <2>1. CASE e = d
    BY <2>1, <1>1, <1>3, <1>5
  <2>2. CASE e # d
    <3>1. Exists(driver[e]) /\ driver[e].kind = "live" /\ driver'[e] = driver[e]
      BY <2>2, <1>3
    <3>2. PICK s \in driver[e].sessions : session[s].peer = peer
      BY <3>1 DEF Consistent, LiveHasBoth
    <3>3. s \in SessionIds /\ Has(e, s)
      BY <3>1, DriverTyped DEF Has, Consistent
    <3> QED
      BY <3>1, <3>2, <3>3, <1>4, <1>8
  <2> QED
    BY <2>1, <2>2
<1>13. PlayingIsTouched'
  <2> SUFFICES ASSUME NEW e \in DriverIds, NEW s \in SessionIds, Has(e, s)',
                      driver'[e].kind = "udp", driver'[e].phase = "game"
               PROVE  session'[s].touched
    BY DEF PlayingIsTouched
  <2>1. e # d
    BY <1>1, <1>3
  <2> QED
    BY <2>1, <1>3, <1>4, <1>7, <1>8 DEF Consistent, PlayingIsTouched
<1>14. UntouchedIsFresh'
  BY <1>4, <1>5, RecordsExist DEF Consistent, UntouchedIsFresh
<1> QED
  BY <1>6, <1>9, <1>10, <1>11, <1>12, <1>13, <1>14 DEF Consistent

(* A driver that goes away returns what it had. *)
LEMMA GiveBackKeeps ==
  ASSUME Consistent, NEW d \in DriverIds, Exists(driver[d]), GivenBack(d)
  PROVE  Consistent'
<1> DEFINE lent == driver[d].sessions
<1>1. lent \in SUBSET SessionIds
  BY DriverTyped DEF Consistent
<1>2. driver' = [driver EXCEPT ![d] = Absent]
  BY DEF GivenBack
<1>3. \A s \in SessionIds : s \notin lent => session'[s] = session[s]
  BY DEF GivenBack
<1>4. \A s \in lent : Has(d, s) /\ session'[s] = [session[s] EXCEPT !.borrowed = FALSE]
  BY <1>1 DEF GivenBack, Has
<1>5. session' = [s \in SessionIds |-> session'[s]]
  BY DEF GivenBack
<1>6. \A s \in SessionIds : Has(d, s) <=> s \in lent
  BY DEF Has
<1> HIDE DEF lent
<1>7. /\ driver'[d] = Absent
      /\ \A e \in DriverIds : e # d => driver'[e] = driver[e]
  BY <1>2 DEF Consistent, HandleTypes
<1>8. \A s \in lent :
        /\ session[s] \in SessionRecords /\ session'[s] \in SessionRecords
        /\ session'[s].borrowed = FALSE
        /\ session'[s].owner = session[s].owner /\ session'[s].peer = session[s].peer
        /\ session'[s].touched = session[s].touched /\ session'[s].moves = session[s].moves
  <2> TAKE s \in lent
  <2>1. session[s] \in SessionRecords
    BY <1>1, <1>4, SessionTyped DEF Consistent, LentToDrivers
  <2> QED
    BY <2>1, <1>4, SessionLent
<1>9. HandleTypes'
  <2>1. driver' \in [DriverIds -> DriverRecords \union {Absent}]
    BY <1>2 DEF Consistent, HandleTypes
  <2>2. \A s \in SessionIds : session'[s] \in SessionRecords \union {Absent}
    BY <1>3, <1>8 DEF Consistent, HandleTypes
  <2> QED
    BY <2>1, <2>2, <1>5 DEF HandleTypes
<1>10. \A e \in DriverIds, s \in SessionIds : Has(e, s)' <=> e # d /\ Has(e, s)
  BY <1>7, RecordsExist DEF Has
<1>11. \A e \in DriverIds, s \in lent : Has(e, s) => e = d
  BY <1>1, <1>6 DEF Consistent, NothingShared
<1>12. LentToDrivers'
  BY <1>3, <1>7, <1>10, <1>11 DEF Consistent, LentToDrivers
<1>13. BorrowedBySomeone'
  <2> SUFFICES ASSUME NEW s \in SessionIds, Exists(session'[s]), session'[s].borrowed
               PROVE  \E e \in DriverIds : Has(e, s)'
    BY DEF BorrowedBySomeone
  <2>1. s \notin lent
    BY <1>8
  <2>2. PICK e \in DriverIds : Has(e, s)
    BY <2>1, <1>3 DEF Consistent, BorrowedBySomeone
  <2> QED
    BY <2>1, <2>2, <1>6, <1>10
<1>14. NothingShared'
  BY <1>10 DEF Consistent, NothingShared
<1>15. LiveHasBoth'
  <2> SUFFICES ASSUME NEW e \in DriverIds, Exists(driver'[e]), driver'[e].kind = "live",
                      NEW peer \in PeerIds
               PROVE  \E s \in driver'[e].sessions : session'[s].peer = peer
    BY DEF LiveHasBoth
  <2>1. e # d /\ Exists(driver[e]) /\ driver[e].kind = "live" /\ driver'[e] = driver[e]
    BY <1>7, RecordsExist
  <2>2. PICK s \in driver[e].sessions : session[s].peer = peer
    BY <2>1 DEF Consistent, LiveHasBoth
  <2>3. s \in SessionIds /\ Has(e, s)
    BY <2>1, DriverTyped DEF Has, Consistent
  <2> QED
    BY <2>1, <2>2, <2>3, <1>3, <1>11
<1>16. PlayingIsTouched'
  BY <1>3, <1>7, <1>10, <1>11 DEF Consistent, PlayingIsTouched
<1>17. UntouchedIsFresh'
  BY <1>3, <1>8, RecordsExist DEF Consistent, UntouchedIsFresh
<1> QED
  BY <1>9, <1>12, <1>13, <1>14, <1>15, <1>16, <1>17 DEF Consistent

(* A driver's step changes the moves and the marks of its sessions; it     *)
(* moves none that is not marked then.                                     *)
LEMMA StepKeeps ==
  ASSUME Consistent, NEW d \in DriverIds, Exists(driver[d]),
         NEW moved \in SUBSET SessionIds, NEW touches \in BOOLEAN,
         NEW fails \in BOOLEAN, NEW phase \in {"handshake", "game"},
         Stepped(d, moved, touches),
         driver' = [driver EXCEPT ![d] = [driver[d] EXCEPT !.failed = fails, !.phase = phase]],
         \A s \in driver[d].sessions : s \in moved => session[s].touched \/ touches,
         driver[d].kind = "udp" /\ phase = "game" => driver[d].phase = "game" \/ touches
  PROVE  Consistent'
<1> DEFINE new == [driver[d] EXCEPT !.failed = fails, !.phase = phase]
           own == driver[d].sessions
<1>1. driver[d] \in DriverRecords /\ own \in SUBSET SessionIds
  BY DriverTyped DEF Consistent
<1>2. /\ new \in DriverRecords /\ new.sessions = driver[d].sessions /\ new.owner = driver[d].owner
      /\ new.kind = driver[d].kind /\ new.phase = phase
  BY <1>1 DEF DriverRecords
<1>3. driver' = [driver EXCEPT ![d] = new]
  OBVIOUS
<1> HIDE DEF new
<1>4. /\ driver'[d] = new
      /\ \A e \in DriverIds : e # d => driver'[e] = driver[e]
  BY <1>3 DEF Consistent, HandleTypes
<1>5. \A s \in SessionIds : s \notin own => session'[s] = session[s]
  BY DEF Stepped
<1>6. session' = [s \in SessionIds |-> session'[s]]
  BY DEF Stepped
<1>7. \A s \in own :
        /\ session[s] \in SessionRecords /\ session'[s] \in SessionRecords
        /\ session'[s].borrowed = session[s].borrowed
        /\ session'[s].owner = session[s].owner /\ session'[s].peer = session[s].peer
        /\ session'[s].touched <=> session[s].touched \/ touches
        /\ s \notin moved => session'[s].moves = session[s].moves
  <2> TAKE s \in own
  <2>1. session[s] \in SessionRecords
    BY <1>1, SessionTyped DEF Consistent, LentToDrivers, Has
  <2>2. session'[s] = AfterStep(session[s], s, moved, touches)
    BY <1>1 DEF Stepped, AfterStep
  <2> QED
    BY <2>1, <2>2, SessionStepped
<1>8. HandleTypes'
  <2>1. driver' \in [DriverIds -> DriverRecords \union {Absent}]
    BY <1>2, <1>3 DEF Consistent, HandleTypes
  <2>2. \A s \in SessionIds : session'[s] \in SessionRecords \union {Absent}
    BY <1>5, <1>7 DEF Consistent, HandleTypes
  <2> QED
    BY <2>1, <2>2, <1>6 DEF HandleTypes
<1>9. \A e \in DriverIds : /\ Exists(driver'[e]) <=> Exists(driver[e])
                           /\ Exists(driver[e]) => /\ driver'[e].sessions = driver[e].sessions
                                                   /\ driver'[e].owner = driver[e].owner
                                                   /\ driver'[e].kind = driver[e].kind
  BY <1>2, <1>4, RecordsExist
<1>10. \A e \in DriverIds, s \in SessionIds : Has(e, s)' <=> Has(e, s)
  BY <1>9 DEF Has
<1>11. \A s \in SessionIds : /\ Exists(session'[s]) <=> Exists(session[s])
                             /\ Exists(session[s]) => /\ session'[s].borrowed = session[s].borrowed
                                                      /\ session'[s].owner = session[s].owner
                                                      /\ session'[s].peer = session[s].peer
  BY <1>5, <1>7, RecordsExist
<1>12. LentToDrivers'
  <2> SUFFICES ASSUME NEW e \in DriverIds, NEW s \in SessionIds, Has(e, s)'
               PROVE  Exists(session'[s]) /\ session'[s].borrowed /\ session'[s].owner = driver'[e].owner
    BY DEF LentToDrivers
  <2>1. Has(e, s) /\ Exists(driver[e])
    BY <1>10 DEF Has
  <2>2. Exists(session[s]) /\ session[s].borrowed /\ session[s].owner = driver[e].owner
    BY <2>1 DEF Consistent, LentToDrivers
  <2> QED
    BY <2>1, <2>2, <1>9, <1>11
<1>13. BorrowedBySomeone'
  BY <1>10, <1>11 DEF Consistent, BorrowedBySomeone
<1>14. NothingShared'
  BY <1>10 DEF Consistent, NothingShared
<1>15. LiveHasBoth'
  <2> SUFFICES ASSUME NEW e \in DriverIds, Exists(driver'[e]), driver'[e].kind = "live",
                      NEW peer \in PeerIds
               PROVE  \E s \in driver'[e].sessions : session'[s].peer = peer
    BY DEF LiveHasBoth
  <2>1. Exists(driver[e]) /\ driver[e].kind = "live" /\ driver'[e].sessions = driver[e].sessions
    BY <1>9
  <2>2. PICK s \in driver[e].sessions : session[s].peer = peer
    BY <2>1 DEF Consistent, LiveHasBoth
  <2>3. s \in SessionIds /\ Exists(session[s])
    BY <2>1, DriverTyped DEF Has, Consistent, LentToDrivers
  <2> QED
    BY <2>1, <2>2, <2>3, <1>11
<1>16. PlayingIsTouched'
  <2> SUFFICES ASSUME NEW e \in DriverIds, NEW s \in SessionIds, Has(e, s)',
                      driver'[e].kind = "udp", driver'[e].phase = "game"
               PROVE  session'[s].touched
    BY DEF PlayingIsTouched
  <2>1. Has(e, s) /\ Exists(driver[e]) /\ driver[e].kind = "udp"
    BY <1>9, <1>10 DEF Has
  <2>2. CASE e = d
    <3>1. s \in own
      BY <2>1, <2>2 DEF Has
    <3>2. driver[d].phase = "game" \/ touches
      BY <2>1, <2>2, <1>2, <1>4
    <3>3. driver[d].phase = "game" => session[s].touched
      BY <2>1, <2>2 DEF Consistent, PlayingIsTouched
    <3> QED
      BY <3>1, <3>2, <3>3, <1>7
  <2>3. CASE e # d
    <3>1. s \notin own
      BY <2>1, <2>3 DEF Consistent, NothingShared, Has
    <3> QED
      BY <3>1, <2>1, <2>3, <1>4, <1>5 DEF Consistent, PlayingIsTouched
  <2> QED
    BY <2>2, <2>3
<1>17. UntouchedIsFresh'
  <2> SUFFICES ASSUME NEW s \in SessionIds, Exists(session'[s]), ~ session'[s].touched
               PROVE  session'[s].moves = 0
    BY DEF UntouchedIsFresh
  <2>1. CASE s \in own
    <3>1. ~ session[s].touched /\ ~ touches
      BY <2>1, <1>7
    <3>2. session'[s].moves = session[s].moves
      BY <2>1, <3>1, <1>7
    <3> QED
      BY <3>1, <3>2, <1>11 DEF Consistent, UntouchedIsFresh
  <2>2. CASE s \notin own
    BY <2>2, <1>5 DEF Consistent, UntouchedIsFresh
  <2> QED
    BY <2>1, <2>2
<1> QED
  BY <1>8, <1>12, <1>13, <1>14, <1>15, <1>16, <1>17 DEF Consistent

(* The creation and the destruction of live and UDP drivers keep the       *)
(* handles consistent.                                                     *)
LEMMA DriverCallsKeep ==
  ASSUME Consistent, NEW t \in Threads, NEW d \in DriverIds,
         \/ \E a, b \in SessionIds : LiveCreate(t, d, a, b)
         \/ LiveDestroy(t, d)
         \/ \E s \in SessionIds : UdpCreate(t, d, s)
         \/ UdpDestroy(t, d)
  PROVE  Consistent'
<1>1. ASSUME NEW a \in SessionIds, NEW b \in SessionIds, LiveCreate(t, d, a, b)
      PROVE  Consistent'
  <2> DEFINE lent == {a, b}
  <2>1. /\ ~ Exists(driver[d])
        /\ \A s \in lent : MayMutate(t, s)
        /\ \A peer \in PeerIds : \E s \in lent : session[s].peer = peer
        /\ Borrow(t, d, "live", "game", lent)
    BY <1>1 DEF LiveCreate, PeerIds
  <2>2. lent \in SUBSET SessionIds
    OBVIOUS
  <2> HIDE DEF lent
  <2> QED
    BY <2>1, <2>2, BorrowKeeps
<1>2. ASSUME NEW s \in SessionIds, UdpCreate(t, d, s)
      PROVE  Consistent'
  <2> DEFINE lent == {s}
  <2>1. ~ Exists(driver[d]) /\ (\A q \in lent : MayMutate(t, q)) /\ Borrow(t, d, "udp", "handshake", lent)
    BY <1>2 DEF UdpCreate
  <2>2. lent \in SUBSET SessionIds
    OBVIOUS
  <2> HIDE DEF lent
  <2> QED
    BY <2>1, <2>2, BorrowKeeps
<1>3. CASE LiveDestroy(t, d) \/ UdpDestroy(t, d)
  BY <1>3, GiveBackKeeps DEF LiveDestroy, UdpDestroy
<1> QED
  BY <1>1, <1>2, <1>3

(* rl_live_step and rl_udp_peer_step keep the handles consistent, also if  *)
(* they fail half way.                                                     *)
LEMMA StepsKeep ==
  ASSUME Consistent, NEW t \in Threads, NEW d \in DriverIds, NEW moved \in SUBSET SessionIds,
         NEW fails \in BOOLEAN,
         \/ LiveStep(t, d, moved, fails)
         \/ \E phase \in {"handshake", "game"} : UdpStep(t, d, moved, fails, phase)
  PROVE  Consistent'
<1>1. Exists(driver[d])
  BY DEF LiveStep, UdpStep
<1>2. driver[d] \in DriverRecords /\ driver[d].sessions \subseteq SessionIds
  BY <1>1, DriverTyped DEF Consistent
<1>3. CASE LiveStep(t, d, moved, fails)
  <2>1. driver[d].phase \in {"handshake", "game"} /\ driver[d].kind = "live"
    BY <1>2, <1>3 DEF DriverRecords, LiveStep
  <2>2. [driver[d] EXCEPT !.failed = fails] = [driver[d] EXCEPT !.failed = fails, !.phase = driver[d].phase]
    BY <1>2 DEF DriverRecords
  <2>3. driver' = [driver EXCEPT ![d] = [driver[d] EXCEPT !.failed = fails, !.phase = driver[d].phase]]
    BY <1>3, <2>2 DEF LiveStep
  <2>4. Stepped(d, moved, TRUE)
    BY <1>3 DEF LiveStep
  <2> QED
    BY <1>1, <2>1, <2>3, <2>4, StepKeeps
<1>4. ASSUME NEW phase \in {"handshake", "game"}, UdpStep(t, d, moved, fails, phase)
      PROVE  Consistent'
  <2>1. driver' = [driver EXCEPT ![d] = [driver[d] EXCEPT !.failed = fails, !.phase = phase]]
    BY <1>4 DEF UdpStep
  <2>2. /\ Stepped(d, moved, ~ fails) /\ driver[d].kind = "udp"
        /\ fails => phase = driver[d].phase
        /\ moved # {} => driver[d].phase = "game"
    BY <1>4 DEF UdpStep
  <2>3. \A s \in driver[d].sessions : s \in moved => session[s].touched
    BY <1>1, <1>2, <2>2 DEF Consistent, PlayingIsTouched, Has
  <2>4. (~ fails) \in BOOLEAN
    OBVIOUS
  <2> DEFINE touches == ~ fails
  <2>5. /\ Stepped(d, moved, touches) /\ touches \in BOOLEAN
        /\ phase = "game" => driver[d].phase = "game" \/ touches
    BY <2>2, <2>4
  <2> HIDE DEF touches
  <2> QED
    BY <1>1, <2>1, <2>3, <2>5, StepKeeps
<1> QED
  BY <1>3, <1>4

(* Every call keeps the handles consistent. *)
LEMMA ConsistentStep == Consistent /\ [HandlesNext]_handlesVars => Consistent'
<1> SUFFICES ASSUME Consistent, [HandlesNext]_handlesVars
             PROVE  Consistent'
  OBVIOUS
<1>1. CASE HandlesNext
  BY <1>1, SessionCallsKeep, DriverCallsKeep, StepsKeep, Zenon DEF HandlesNext, PeerIds
<1>2. CASE UNCHANGED handlesVars
  BY <1>2 DEF handlesVars, Consistent, HandleTypes, LentToDrivers, BorrowedBySomeone, NothingShared,
              LiveHasBoth, PlayingIsTouched, UntouchedIsFresh, Has
<1> QED
  BY <1>1, <1>2

(* The handles are consistent in every execution. *)
LEMMA HandlesAreConsistent == HandlesSpec => []Consistent
  BY ConsistentInit, ConsistentStep, PTL DEF HandlesSpec

-----------------------------------------------------------------------------
(* What follows for every thread, session and driver. *)

(* In every execution of the handles, a session is borrowed if and only if *)
(* exactly one driver has it, and each driver's sessions exist, belong to  *)
(* its thread and, for a live driver, are one of each peer.                *)
THEOREM OneBorrowerAlways == HandlesSpec => []OneBorrower
<1>1. Consistent => OneBorrower
  <2> SUFFICES ASSUME Consistent
               PROVE  OneBorrower
    OBVIOUS
  <2> DEFINE Borrowers(s) == {d \in DriverIds : Exists(driver[d]) /\ s \in driver[d].sessions}
  <2>1. ASSUME NEW s \in SessionIds
        PROVE  IF Exists(session[s])
               THEN Cardinality(Borrowers(s)) = IF session[s].borrowed THEN 1 ELSE 0
               ELSE Borrowers(s) = {}
    <3>1. Borrowers(s) = {} \/ (Exists(session[s]) /\ session[s].borrowed)
      BY DEF Consistent, LentToDrivers, Has
    <3>2. ASSUME Exists(session[s]), session[s].borrowed
          PROVE  Cardinality(Borrowers(s)) = 1
      <4>1. PICK d \in DriverIds : Has(d, s)
        BY <3>2 DEF Consistent, BorrowedBySomeone
      <4>2. Borrowers(s) = {d}
        BY <4>1 DEF Consistent, NothingShared, Has
      <4> QED
        BY <4>2, FS_Singleton
    <3>3. Borrowers(s) = {} => Cardinality(Borrowers(s)) = 0
      BY FS_EmptySet
    <3> QED
      BY <3>1, <3>2, <3>3
  <2>2. ASSUME NEW d \in DriverIds, Exists(driver[d])
        PROVE  /\ \A s \in driver[d].sessions : session[s].owner = driver[d].owner
               /\ driver[d].kind = "live" =>
                    {session[s].peer : s \in driver[d].sessions} = PeerIds
    <3>1. \A s \in driver[d].sessions : s \in SessionIds /\ Has(d, s)
      BY <2>2, DriverTyped DEF Has, Consistent
    <3>2. \A s \in driver[d].sessions : Exists(session[s]) /\ session[s].owner = driver[d].owner
      BY <3>1 DEF Consistent, LentToDrivers
    <3>3. \A s \in driver[d].sessions : session[s].peer \in PeerIds
      <4> TAKE s \in driver[d].sessions
      <4>1. session[s] \in SessionRecords
        BY <3>1, <3>2, SessionTyped DEF Consistent
      <4> QED
        BY <4>1 DEF SessionRecords
    <3>4. ASSUME driver[d].kind = "live"
          PROVE  {session[s].peer : s \in driver[d].sessions} = PeerIds
      <4>1. \A peer \in PeerIds : \E s \in driver[d].sessions : session[s].peer = peer
        BY <2>2, <3>4 DEF Consistent, LiveHasBoth
      <4> QED
        BY <3>3, <4>1
    <3> QED
      BY <3>2, <3>4
  <2> QED
    BY <2>1, <2>2 DEF OneBorrower
<1> QED
  BY <1>1, HandlesAreConsistent, PTL

(* In every execution of the handles, a session that no call has marked    *)
(* has not moved, so that a driver starts only from a fresh session.       *)
THEOREM UntouchedIsFreshAlways == HandlesSpec => []UntouchedIsFresh
<1>1. Consistent => UntouchedIsFresh
  BY DEF Consistent
<1> QED
  BY <1>1, HandlesAreConsistent, PTL

(* A lent session survives every call, and moves only in a step of its own *)
(* driver while that has not failed.                                       *)
THEOREM BorrowedMovesWithItsDriverAlways == HandlesSpec => BorrowedMovesWithItsDriver
<1> DEFINE Kept(s) ==
      Exists(session[s]) /\ session[s].borrowed =>
        /\ Exists(session'[s])
        /\ session'[s].moves # session[s].moves =>
             \E d \in DriverIds : Exists(driver[d]) /\ s \in driver[d].sessions /\ ~ driver[d].failed
<1>1. ASSUME Consistent, [HandlesNext]_handlesVars, NEW s \in SessionIds
      PROVE  Kept(s)
  <2> SUFFICES ASSUME Exists(session[s]), session[s].borrowed
               PROVE  /\ Exists(session'[s])
                      /\ session'[s].moves # session[s].moves =>
                           \E d \in DriverIds : /\ Exists(driver[d]) /\ s \in driver[d].sessions
                                               /\ ~ driver[d].failed
    OBVIOUS
  <2>1. session[s] \in SessionRecords
    BY <1>1, SessionTyped DEF Consistent
  <2>2. ASSUME session'[s] = session[s]
        PROVE  Kept(s)
    BY <2>2
  <2>3. ASSUME NEW b \in BOOLEAN, session'[s] = [session[s] EXCEPT !.borrowed = b]
        PROVE  Kept(s)
    BY <2>1, <2>3, SessionLent, RecordsExist
  <2>4. ASSUME NEW t \in Threads, NEW q \in SessionIds,
               \/ \E peer \in PeerIds : SessionCreate(t, q, peer)
               \/ SessionDestroy(t, q)
               \/ SessionChange(t, q)
               \/ SessionChangeFails(t, q)
        PROVE  Kept(s)
    <3>1. q # s
      BY <2>4 DEF SessionCreate, SessionDestroy, SessionChange, SessionChangeFails, MayMutate
    <3>2. session'[s] = session[s]
      BY <1>1, <2>4, <3>1 DEF SessionCreate, SessionDestroy, SessionChange, SessionChangeFails,
                              Consistent, HandleTypes
    <3> QED
      BY <2>2, <3>2
  <2>5. ASSUME NEW t \in Threads, NEW d \in DriverIds, NEW kind, NEW phase, NEW lent,
               Borrow(t, d, kind, phase, lent) \/ GivenBack(d)
        PROVE  Kept(s)
    <3>1. \/ session'[s] = session[s]
          \/ session'[s] = [session[s] EXCEPT !.borrowed = TRUE]
          \/ session'[s] = [session[s] EXCEPT !.borrowed = FALSE]
      BY <2>5 DEF Borrow, GivenBack
    <3> QED
      BY <2>2, <2>3, <3>1
  <2>6. ASSUME NEW d \in DriverIds, NEW moved, NEW touches \in BOOLEAN, Exists(driver[d]),
               ~ driver[d].failed, Stepped(d, moved, touches)
        PROVE  Kept(s)
    <3>1. CASE s \in driver[d].sessions
      <4>1. session'[s] = AfterStep(session[s], s, moved, touches)
        BY <2>6, <3>1 DEF Stepped, AfterStep
      <4>2. session'[s] \in SessionRecords
        BY <2>1, <4>1, SessionStepped
      <4> QED
        BY <2>6, <3>1, <4>2, RecordsExist
    <3>2. CASE s \notin driver[d].sessions
      BY <2>2, <2>6, <3>2 DEF Stepped
    <3> QED
      BY <3>1, <3>2
  <2>7. CASE HandlesNext
    <3>1. PICK t \in Threads :
            \/ \E q \in SessionIds, peer \in PeerIds : SessionCreate(t, q, peer)
            \/ \E q \in SessionIds : SessionDestroy(t, q)
            \/ \E q \in SessionIds : SessionChange(t, q)
            \/ \E q \in SessionIds : SessionChangeFails(t, q)
            \/ \E d \in DriverIds, a, b \in SessionIds : LiveCreate(t, d, a, b)
            \/ \E d \in DriverIds : LiveDestroy(t, d)
            \/ \E d \in DriverIds, moved \in SUBSET SessionIds, fails \in BOOLEAN :
                 LiveStep(t, d, moved, fails)
            \/ \E d \in DriverIds, q \in SessionIds : UdpCreate(t, d, q)
            \/ \E d \in DriverIds : UdpDestroy(t, d)
            \/ \E d \in DriverIds, moved \in SUBSET SessionIds, fails \in BOOLEAN,
                  phase \in {"handshake", "game"} : UdpStep(t, d, moved, fails, phase)
      BY <2>7 DEF HandlesNext
    <3>2. CASE \/ \E q \in SessionIds, peer \in PeerIds : SessionCreate(t, q, peer)
               \/ \E q \in SessionIds : SessionDestroy(t, q)
               \/ \E q \in SessionIds : SessionChange(t, q)
               \/ \E q \in SessionIds : SessionChangeFails(t, q)
      BY <3>2, <2>4
    <3>3. CASE \/ \E d \in DriverIds, a, b \in SessionIds : LiveCreate(t, d, a, b)
               \/ \E d \in DriverIds : LiveDestroy(t, d)
               \/ \E d \in DriverIds, q \in SessionIds : UdpCreate(t, d, q)
               \/ \E d \in DriverIds : UdpDestroy(t, d)
      BY <3>3, <2>5 DEF LiveCreate, LiveDestroy, UdpCreate, UdpDestroy
    <3>4. ASSUME NEW d \in DriverIds, NEW moved \in SUBSET SessionIds, NEW fails \in BOOLEAN,
                 \/ LiveStep(t, d, moved, fails)
                 \/ \E phase \in {"handshake", "game"} : UdpStep(t, d, moved, fails, phase)
          PROVE  Kept(s)
      <4>1. /\ Exists(driver[d]) /\ ~ driver[d].failed
            /\ Stepped(d, moved, TRUE) \/ Stepped(d, moved, ~ fails)
        BY <3>4 DEF LiveStep, UdpStep
      <4>2. (~ fails) \in BOOLEAN
        OBVIOUS
      <4> QED
        BY <2>6, <4>1, <4>2
    <3> QED
      BY <3>1, <3>2, <3>3, <3>4
  <2>8. CASE UNCHANGED handlesVars
    BY <2>2, <2>8 DEF handlesVars
  <2> QED
    BY <1>1, <2>7, <2>8
<1>2. Consistent /\ [HandlesNext]_handlesVars => [\A s \in SessionIds : Kept(s)]_handlesVars
  BY <1>1
<1>3. HandlesSpec => [][\A s \in SessionIds : Kept(s)]_handlesVars
  BY <1>2, HandlesAreConsistent, PTL DEF HandlesSpec
<1> QED
  BY <1>3 DEF BorrowedMovesWithItsDriver

-----------------------------------------------------------------------------
(* Supervisor *)

Preparing == {"clear", "start_relay", "wait_ready", "start_a", "start_b"}
Watching == {"poll", "poll_b", "decide", "wait_relay", "compare"}
Ending == {"cleanup_b", "cleanup_a", "cleanup_relay", "returned"}

Verdicts == {"io_error", "child_failure", "timeout", "desync", "ok", "replay_mismatch"}

ChildRecords ==
  [state : {"absent", "starting", "ready", "running", "confirmed", "reported", "replayed", "diagnosed",
           "exited"},
   code : Int, signalled : BOOLEAN]

FileRecords ==
  [ready : BOOLEAN, report : [Peers -> Games \union {"none"}],
   replay : [Peers -> Games \union {"none", "bad"}], diagnostic : [Peers -> BOOLEAN]]

SupRecords ==
  [at : Preparing \union Watching \union Ending, exit : [Peers -> Int],
   result : Verdicts \union {"none"}]

DemoTypes ==
  /\ child \in [Children -> ChildRecords]
  /\ file \in FileRecords
  /\ sup \in SupRecords
  /\ detected \in SUBSET Peers

(* Peers are started once. *)
NotYetStarted ==
  /\ sup.at \in Preparing => sup.exit = [p \in Peers |-> -1] /\ child["b"].state = "absent"
  /\ sup.at \in Preparing \ {"start_b"} => child["a"].state = "absent"

(* An exit that was seen does not change. *)
ExitsAreFinal ==
  \A p \in Peers : sup.exit[p] # -1 => child[p].state = "exited" /\ child[p].code = sup.exit[p]

(* A peer that found a desync has said so and does not exit with 0. *)
FindersSaySo ==
  \A p \in detected : /\ file.diagnostic[p]
                      /\ child[p].state \in {"diagnosed", "exited"}
                      /\ child[p].state = "exited" => child[p].code # 0

(* Once the leftovers are gone, a diagnostic is of this run. *)
DiagnosticsAreNew ==
  sup.at \in (Preparing \ {"clear"}) \union Watching /\ "diagnostic" \notin stuck =>
    \A p \in Peers : file.diagnostic[p] => p \in detected

VerdictAtTheEnd == sup.result # "none" <=> sup.at \in Ending

ExitedWell(c) == child[c].state = "exited" /\ child[c].code = 0

(* What has been seen when the artifacts are compared. *)
SeenToEndWell ==
  /\ sup.at \in {"wait_relay", "compare"} \/ sup.result = "ok" => \A p \in Peers : sup.exit[p] = 0
  /\ sup.at = "compare" \/ sup.result = "ok" => ExitedWell("relay")

GoneInTurn ==
  /\ sup.at \in {"cleanup_a", "cleanup_relay", "returned"} => ~ Alive("b")
  /\ sup.at \in {"cleanup_relay", "returned"} => ~ Alive("a")
  /\ sup.at = "returned" => ~ Alive("relay")

SameGame == \E game \in Games : \A p \in Peers : file.report[p] = game /\ file.replay[p] = game

Orderly ==
  /\ DemoTypes
  /\ NotYetStarted
  /\ ExitsAreFinal
  /\ FindersSaySo
  /\ DiagnosticsAreNew
  /\ VerdictAtTheEnd
  /\ SeenToEndWell
  /\ GoneInTurn
  /\ sup.result = "ok" => SameGame
  /\ DesyncVerdictIsRight

-----------------------------------------------------------------------------
(* The records *)

(* A child is a whole record. *)
LEMMA ChildTyped ==
  ASSUME DemoTypes, NEW c \in Children
  PROVE  child[c] \in ChildRecords
  BY DEF DemoTypes

(* The files, each with its own writer. *)
LEMMA FileFields ==
  ASSUME DemoTypes
  PROVE  /\ file.ready \in BOOLEAN /\ file.diagnostic \in [Peers -> BOOLEAN]
         /\ file.report \in [Peers -> Games \union {"none"}]
         /\ file.replay \in [Peers -> Games \union {"none", "bad"}]
  BY DEF DemoTypes, FileRecords

(* The supervisor is at one of its places, with exit codes and a verdict. *)
LEMMA SupFields ==
  ASSUME DemoTypes
  PROVE  /\ sup.at \in Preparing \union Watching \union Ending /\ sup.exit \in [Peers -> Int]
         /\ sup.result \in Verdicts \union {"none"}
  BY DEF DemoTypes, SupRecords

(* A supervisor that goes on, or that returns. *)
LEMMA SupMoved ==
  ASSUME DemoTypes, NEW to \in Preparing \union Watching \union Ending, NEW verdict \in Verdicts
  PROVE  /\ Goes(to) => /\ sup' \in SupRecords
                        /\ sup'.at = to /\ sup'.exit = sup.exit /\ sup'.result = sup.result
         /\ Returns(verdict) => /\ sup' \in SupRecords
                                /\ sup'.at = "cleanup_b" /\ sup'.exit = sup.exit /\ sup'.result = verdict
<1>1. sup \in SupRecords
  BY DEF DemoTypes
<1> QED
  BY <1>1 DEF Goes, Returns, SupRecords, Ending

-----------------------------------------------------------------------------
(* The children keep what the supervisor has seen. *)

(* A child ends, by itself or by a signal; one that found a desync does    *)
(* not end with 0.                                                         *)
LEMMA EndKeeps ==
  ASSUME Orderly, NEW c \in Children, Alive(c), NEW code \in Int, ExitsWith(c, code),
         code = 0 => c \notin detected,
         UNCHANGED <<file, sup, launch, stuck, detected>>
  PROVE  Orderly'
<1> DEFINE new == [child[c] EXCEPT !.state = "exited", !.code = code]
<1>1. child' = [child EXCEPT ![c] = new]
  BY DEF ExitsWith
<1>2. new \in ChildRecords /\ new.state = "exited" /\ new.code = code
  <2>1. child[c] \in ChildRecords
    BY ChildTyped DEF Orderly
  <2> QED
    BY <2>1 DEF ChildRecords
<1> HIDE DEF new
<1>3. child'[c] = new /\ \A d \in Children : d # c => child'[d] = child[d]
  BY <1>1 DEF Orderly, DemoTypes
<1>4. DemoTypes'
  BY <1>1, <1>2 DEF Orderly, DemoTypes
<1>5. child[c].state \notin {"absent", "exited"}
  BY DEF Alive
<1>6. \A d \in Children : Alive(d)' => Alive(d)
  BY <1>2, <1>3 DEF Alive
<1>7. NotYetStarted'
  BY <1>2, <1>3, <1>5 DEF Orderly, NotYetStarted, Children, Peers
<1>8. ExitsAreFinal'
  BY <1>3, <1>5 DEF Orderly, ExitsAreFinal, Children
<1>9. FindersSaySo'
  BY <1>2, <1>3 DEF Orderly, DemoTypes, FindersSaySo, Children
<1>10. DiagnosticsAreNew' /\ VerdictAtTheEnd' /\ DesyncVerdictIsRight'
  BY DEF Orderly, DiagnosticsAreNew, VerdictAtTheEnd, DesyncVerdictIsRight
<1>11. SeenToEndWell'
  BY <1>3, <1>5 DEF Orderly, SeenToEndWell, ExitedWell, Children
<1>12. GoneInTurn'
  BY <1>6 DEF Orderly, GoneInTurn, Children, Peers
<1>13. (sup.result = "ok" => SameGame)'
  BY DEF Orderly, SameGame
<1> QED
  BY <1>4, <1>7, <1>8, <1>9, <1>10, <1>11, <1>12, <1>13 DEF Orderly

(* A child goes on, and may write a file that is not a diagnostic: its own *)
(* artifacts, or the mark of the relay.                                    *)
LEMMA WriteKeeps ==
  ASSUME Orderly, NEW c \in Children, child[c].state \notin {"absent", "exited", "diagnosed"},
         NEW state \in {"ready", "confirmed", "reported", "replayed"},
         child' = [child EXCEPT ![c].state = state],
         file' \in FileRecords, file'.diagnostic = file.diagnostic,
         \A p \in Peers : p # c => file'.report[p] = file.report[p] /\ file'.replay[p] = file.replay[p],
         c = "relay" => file'.report = file.report /\ file'.replay = file.replay,
         UNCHANGED <<sup, launch, stuck, detected>>
  PROVE  Orderly'
<1> DEFINE new == [child[c] EXCEPT !.state = state]
<1>1. child' = [child EXCEPT ![c] = new]
  OBVIOUS
<1>2. new \in ChildRecords /\ new.state = state
  <2>1. child[c] \in ChildRecords
    BY ChildTyped DEF Orderly
  <2> QED
    BY <2>1 DEF ChildRecords
<1> HIDE DEF new
<1>3. child'[c] = new /\ \A d \in Children : d # c => child'[d] = child[d]
  BY <1>1 DEF Orderly, DemoTypes
<1>4. DemoTypes'
  BY <1>1, <1>2 DEF Orderly, DemoTypes
<1>5. \A d \in Children : Alive(d)' => Alive(d)
  BY <1>3 DEF Alive
<1>6. NotYetStarted'
  BY <1>3 DEF Orderly, NotYetStarted, Children, Peers
<1>7. ExitsAreFinal'
  BY <1>3 DEF Orderly, ExitsAreFinal, Children
<1>8. FindersSaySo'
  BY <1>3 DEF Orderly, DemoTypes, FindersSaySo, Children
<1>9. DiagnosticsAreNew' /\ VerdictAtTheEnd' /\ DesyncVerdictIsRight'
  BY DEF Orderly, DiagnosticsAreNew, VerdictAtTheEnd, DesyncVerdictIsRight
<1>10. SeenToEndWell'
  BY <1>3 DEF Orderly, SeenToEndWell, ExitedWell, Children
<1>11. GoneInTurn'
  BY <1>5 DEF Orderly, GoneInTurn, Children, Peers
<1>12. (sup.result = "ok" => SameGame)'
  <2> SUFFICES ASSUME sup.result = "ok"
               PROVE  SameGame'
    OBVIOUS
  <2>1. \A p \in Peers : child[p].state = "exited"
    BY DEF Orderly, SeenToEndWell, ExitsAreFinal
  <2>2. c \notin Peers
    BY <2>1
  <2> QED
    BY <2>2 DEF Orderly, SameGame
<1> QED
  BY <1>4, <1>6, <1>7, <1>8, <1>9, <1>10, <1>11, <1>12 DEF Orderly

(* A peer that writes its diagnostic keeps the demo orderly. *)
LEMMA DiagnoseKeeps ==
  ASSUME Orderly, NEW p \in Peers, PeerDiagnoses(p)
  PROVE  Orderly'
<1> DEFINE new == [child[p] EXCEPT !.state = "diagnosed"]
<1>1. child' = [child EXCEPT ![p] = new] /\ child[p].state \in {"running", "confirmed"}
  BY DEF PeerDiagnoses
<1>2. new \in ChildRecords /\ new.state = "diagnosed"
  <2>1. child[p] \in ChildRecords
    BY ChildTyped DEF Orderly, Children
  <2> QED
    BY <2>1 DEF ChildRecords
<1> HIDE DEF new
<1>3. child'[p] = new /\ \A d \in Children : d # p => child'[d] = child[d]
  BY <1>1 DEF Orderly, DemoTypes, Children
<1>4. /\ file' \in FileRecords
      /\ file'.report = file.report /\ file'.replay = file.replay
      /\ file'.diagnostic = [file.diagnostic EXCEPT ![p] = TRUE]
  BY DEF Orderly, DemoTypes, FileRecords, PeerDiagnoses
<1>5. file'.diagnostic[p] = TRUE /\ \A q \in Peers : q # p => file'.diagnostic[q] = file.diagnostic[q]
  BY <1>4, FileFields DEF Orderly
<1>6. /\ sup' = sup /\ stuck' = stuck /\ detected' = detected \union {p}
      /\ \A q \in Peers : child[q].state # "absent"
  BY DEF PeerDiagnoses
<1>7. DemoTypes'
  BY <1>1, <1>2, <1>4, <1>6 DEF Orderly, DemoTypes
<1>8. \A d \in Children : Alive(d)' => Alive(d)
  BY <1>1, <1>3 DEF Alive
<1>9. NotYetStarted'
  BY <1>6 DEF Orderly, NotYetStarted, Peers
<1>10. ExitsAreFinal'
  BY <1>1, <1>3, <1>6 DEF Orderly, ExitsAreFinal, Children
<1>11. FindersSaySo'
  <2> SUFFICES ASSUME NEW q \in detected'
               PROVE  /\ file'.diagnostic[q]
                      /\ child'[q].state \in {"diagnosed", "exited"}
                      /\ child'[q].state = "exited" => child'[q].code # 0
    BY DEF FindersSaySo
  <2>1. CASE q = p
    BY <1>2, <1>3, <1>5, <2>1
  <2>2. CASE q # p
    <3>1. q \in detected
      BY <1>6, <2>2
    <3>2. q \in Peers /\ q \in Children
      BY <3>1 DEF Orderly, DemoTypes, Children
    <3>3. child'[q] = child[q] /\ file'.diagnostic[q] = file.diagnostic[q]
      BY <1>3, <1>5, <2>2, <3>2
    <3> QED
      BY <3>1, <3>3 DEF Orderly, FindersSaySo
  <2> QED
    BY <2>1, <2>2
<1>12. DiagnosticsAreNew'
  BY <1>5, <1>6 DEF Orderly, DiagnosticsAreNew
<1>13. VerdictAtTheEnd'
  BY <1>6 DEF Orderly, VerdictAtTheEnd
<1>14. SeenToEndWell'
  BY <1>1, <1>3, <1>6 DEF Orderly, SeenToEndWell, ExitedWell, Children, Peers
<1>15. GoneInTurn'
  BY <1>6, <1>8 DEF Orderly, GoneInTurn, Children, Peers
<1>16. (sup.result = "ok" => SameGame)'
  BY <1>4, <1>6 DEF Orderly, SameGame
<1>17. DesyncVerdictIsRight'
  <2>1. sup.exit[p] = -1
    BY <1>1 DEF Orderly, ExitsAreFinal
  <2> QED
    BY <1>6, <2>1 DEF Orderly, DesyncVerdictIsRight
<1> QED
  BY <1>7, <1>9, <1>10, <1>11, <1>12, <1>13, <1>14, <1>15, <1>16, <1>17 DEF Orderly

(* Whatever a child does or suffers keeps the demo orderly. *)
LEMMA ChildStepKeeps ==
  ASSUME Orderly, ChildStep
  PROVE  Orderly'
<1>1. \A p \in Peers : p \in Children /\ p # "relay"
  BY DEF Peers, Children
<1>2. "relay" \in Children /\ "relay" \notin detected
  BY DEF Orderly, DemoTypes, Children, Peers
<1>3. \A p \in Peers : p \in detected => child[p].state \in {"diagnosed", "exited"}
  BY DEF Orderly, FindersSaySo
<1>4. CASE RelayBinds
  <2>1. Alive("relay") /\ child["relay"].state = "starting"
    BY <1>4 DEF RelayBinds, Alive
  <2>2. CASE ExitsWith("relay", 20) /\ UNCHANGED file
    BY <1>2, <1>4, <2>1, <2>2, EndKeeps DEF RelayBinds
  <2>3. CASE child' = [child EXCEPT !["relay"].state = "ready"] /\ file' = [file EXCEPT !.ready = TRUE]
    <3>1. /\ file' \in FileRecords
          /\ file'.diagnostic = file.diagnostic
          /\ file'.report = file.report /\ file'.replay = file.replay
      BY <2>3 DEF Orderly, DemoTypes, FileRecords
    <3> QED
      BY <1>2, <1>4, <2>1, <2>3, <3>1, WriteKeeps DEF RelayBinds
  <2> QED
    BY <1>4, <2>2, <2>3 DEF RelayBinds
<1>5. CASE RelayExpires \/ RelayStops
  BY <1>2, <1>5, EndKeeps DEF RelayExpires, RelayStops, Relaying, Alive
<1>6. ASSUME NEW p \in Peers, NEW game \in Games, PeerReports(p, game)
      PROVE  Orderly'
  <2>1. /\ file' \in FileRecords
        /\ file'.diagnostic = file.diagnostic /\ file'.replay = file.replay
        /\ file'.report = [file.report EXCEPT ![p] = game]
    BY <1>6 DEF PeerReports, Orderly, DemoTypes, FileRecords
  <2>2. \A q \in Peers : q # p => file'.report[q] = file.report[q]
    BY <2>1, FileFields DEF Orderly
  <2>3. child[p].state = "confirmed" /\ child' = [child EXCEPT ![p].state = "reported"]
    BY <1>6 DEF PeerReports
  <2> QED
    BY <1>1, <1>6, <2>1, <2>2, <2>3, WriteKeeps DEF PeerReports
<1>7. ASSUME NEW p \in Peers, NEW game \in Games \union {"bad"}, PeerWritesReplay(p, game)
      PROVE  Orderly'
  <2>1. /\ file' \in FileRecords
        /\ file'.diagnostic = file.diagnostic /\ file'.report = file.report
        /\ file'.replay = [file.replay EXCEPT ![p] = game]
    BY <1>7 DEF PeerWritesReplay, Orderly, DemoTypes, FileRecords
  <2>2. \A q \in Peers : q # p => file'.replay[q] = file.replay[q]
    BY <2>1, FileFields DEF Orderly
  <2>3. child[p].state = "reported" /\ child' = [child EXCEPT ![p].state = "replayed"]
    BY <1>7 DEF PeerWritesReplay
  <2> QED
    BY <1>1, <1>7, <2>1, <2>2, <2>3, WriteKeeps DEF PeerWritesReplay
<1>8. ASSUME NEW p \in Peers, PeerSucceeds(p)
      PROVE  Orderly'
  BY <1>1, <1>3, <1>8, EndKeeps DEF PeerSucceeds, Alive
<1>9. ASSUME NEW p \in Peers, PeerFails(p)
      PROVE  Orderly'
  BY <1>1, <1>9, EndKeeps DEF PeerFails, Alive
<1>10. ASSUME NEW c \in Children, Crash(c) \/ Dies(c)
       PROVE  Orderly'
  BY <1>10, EndKeeps DEF Crash, Dies
<1>11. ASSUME NEW p \in Peers, PeerConfirms(p)
       PROVE  Orderly'
  <2>1. file' = file /\ file' \in FileRecords
    BY <1>11 DEF PeerConfirms, Orderly, DemoTypes
  <2>2. child[p].state = "running" /\ child' = [child EXCEPT ![p].state = "confirmed"]
    BY <1>11 DEF PeerConfirms
  <2> QED
    BY <1>1, <1>11, <2>1, <2>2, WriteKeeps DEF PeerConfirms
<1> QED
  BY <1>4, <1>5, <1>6, <1>7, <1>8, <1>9, <1>10, <1>11, DiagnoseKeeps DEF ChildStep

-----------------------------------------------------------------------------
(* The supervisor keeps it too. *)

(* It goes on from one place to the next without a verdict, and touches    *)
(* neither a child nor a file.                                             *)
LEMMA GoKeeps ==
  ASSUME Orderly, NEW to \in Preparing \union Watching \union Ending, Goes(to),
         UNCHANGED <<child, file, stuck, detected>>,
         to \in Preparing => sup.at \in Preparing \ {"start_b"} /\ to # "start_b",
         sup.at # "clear",
         to \in Ending <=> sup.at \in Ending,
         to \in {"wait_relay", "compare"} => \A p \in Peers : sup.exit[p] = 0,
         to = "compare" => ExitedWell("relay"),
         to \in {"cleanup_a", "cleanup_relay", "returned"} => ~ Alive("b"),
         to \in {"cleanup_relay", "returned"} => ~ Alive("a"),
         to = "returned" => ~ Alive("relay")
  PROVE  Orderly'
<1>1. sup' \in SupRecords /\ sup'.at = to /\ sup'.exit = sup.exit /\ sup'.result = sup.result
  BY SupMoved DEF Orderly, Verdicts
<1>2. sup.at \in Preparing \union Watching \union Ending
  BY SupFields DEF Orderly
<1>3. DemoTypes'
  BY <1>1 DEF Orderly, DemoTypes
<1>4. NotYetStarted'
  BY <1>1 DEF Orderly, NotYetStarted
<1>5. ExitsAreFinal' /\ FindersSaySo'
  BY <1>1 DEF Orderly, ExitsAreFinal, FindersSaySo
<1>6. DiagnosticsAreNew'
  BY <1>1, <1>2 DEF Orderly, DiagnosticsAreNew, Preparing, Watching, Ending
<1>7. VerdictAtTheEnd' /\ DesyncVerdictIsRight'
  BY <1>1 DEF Orderly, VerdictAtTheEnd, DesyncVerdictIsRight
<1>8. SeenToEndWell'
  BY <1>1 DEF Orderly, SeenToEndWell, ExitedWell
<1>9. GoneInTurn'
  BY <1>1 DEF Orderly, GoneInTurn, Alive
<1>10. (sup.result = "ok" => SameGame)'
  BY <1>1 DEF Orderly, SameGame
<1> QED
  BY <1>3, <1>4, <1>5, <1>6, <1>7, <1>8, <1>9, <1>10 DEF Orderly

(* It returns: with "ok" only when everything ended well and the artifacts *)
(* are of one game, with "desync" exactly where a diagnostic counts.       *)
LEMMA ReturnKeeps ==
  ASSUME Orderly, NEW verdict \in Verdicts, Returns(verdict),
         UNCHANGED <<child, file, stuck, detected>>,
         verdict = "ok" => SameGame /\ ExitedWell("relay") /\ \A p \in Peers : sup.exit[p] = 0,
         verdict = "desync" => sup.at \in Watching /\ Diagnosed,
         verdict # "desync" => \A p \in detected : sup.exit[p] # 40
  PROVE  Orderly'
<1>1. sup' \in SupRecords /\ sup'.at = "cleanup_b" /\ sup'.exit = sup.exit /\ sup'.result = verdict
  BY SupMoved DEF Orderly, Preparing
<1>2. DemoTypes'
  BY <1>1 DEF Orderly, DemoTypes
<1>3. NotYetStarted' /\ DiagnosticsAreNew'
  BY <1>1 DEF NotYetStarted, DiagnosticsAreNew, Preparing, Watching
<1>4. ExitsAreFinal' /\ FindersSaySo'
  BY <1>1 DEF Orderly, ExitsAreFinal, FindersSaySo
<1>5. VerdictAtTheEnd'
  BY <1>1 DEF VerdictAtTheEnd, Verdicts, Ending
<1>6. SeenToEndWell' /\ GoneInTurn'
  BY <1>1 DEF SeenToEndWell, ExitedWell, GoneInTurn
<1>7. (sup.result = "ok" => SameGame)'
  BY <1>1 DEF SameGame
<1>8. DesyncVerdictIsRight'
  <2>1. verdict = "desync" /\ "diagnostic" \notin stuck => detected # {}
    BY DEF Orderly, DiagnosticsAreNew, Diagnosed
  <2> QED
    BY <1>1, <2>1 DEF DesyncVerdictIsRight
<1> QED
  BY <1>2, <1>3, <1>4, <1>5, <1>6, <1>7, <1>8 DEF Orderly

(* A child is started, or cannot be. *)
LEMMA StartKeeps ==
  ASSUME Orderly,
         \/ StartRelay
         \/ \E p \in Peers : StartPeer(p)
  PROVE  Orderly'
<1>1. sup.at \in {"start_relay", "start_a", "start_b"} /\ sup.at \in Preparing
  BY DEF StartRelay, StartPeer, Preparing
<1>2. \A p \in Peers : sup.exit[p] = -1
  BY <1>1 DEF Orderly, NotYetStarted
<1>3. UNCHANGED <<file, launch, stuck, detected>>
  BY DEF StartRelay, StartPeer
<1>4. CASE UNCHANGED child /\ Returns("child_failure")
  BY <1>2, <1>3, <1>4, ReturnKeeps DEF Verdicts, Orderly, DemoTypes
<1>5. ASSUME NEW c \in Children, NEW state \in {"starting", "running"}, Spawned(c, state),
             NEW to \in {"wait_ready", "start_b", "poll"}, Goes(to),
             c \in Peers => child[c].state = "absent",
             to = "wait_ready" => c = "relay" /\ sup.at = "start_relay",
             to = "start_b" => c = "a"
      PROVE  Orderly'
  <2> DEFINE new == [child[c] EXCEPT !.state = state]
  <2>1. child' = [child EXCEPT ![c] = new]
    BY <1>5 DEF Spawned
  <2>2. new \in ChildRecords /\ new.state = state
    <3>1. child[c] \in ChildRecords
      BY ChildTyped DEF Orderly
    <3> QED
      BY <3>1 DEF ChildRecords
  <2> HIDE DEF new
  <2>3. child'[c] = new /\ \A d \in Children : d # c => child'[d] = child[d]
    BY <2>1 DEF Orderly, DemoTypes
  <2>4. sup' \in SupRecords /\ sup'.at = to /\ sup'.exit = sup.exit /\ sup'.result = sup.result
    BY <1>5, SupMoved DEF Orderly, Verdicts, Preparing, Watching
  <2>5. sup.result = "none"
    BY <1>1 DEF Orderly, VerdictAtTheEnd, Preparing, Ending
  <2>6. DemoTypes'
    BY <1>3, <2>1, <2>2, <2>4 DEF Orderly, DemoTypes
  <2>7. NotYetStarted'
    BY <1>1, <1>5, <2>3, <2>4 DEF Orderly, NotYetStarted, Preparing, Children, Peers
  <2>8. ExitsAreFinal'
    BY <1>2, <2>4 DEF ExitsAreFinal
  <2>9. FindersSaySo'
    BY <1>3, <1>5, <2>3 DEF Orderly, DemoTypes, FindersSaySo, Children
  <2>10. DiagnosticsAreNew'
    BY <1>1, <1>3, <2>4 DEF Orderly, DiagnosticsAreNew, Preparing
  <2>11. VerdictAtTheEnd'
    BY <1>5, <2>4, <2>5 DEF VerdictAtTheEnd, Ending
  <2>12. SeenToEndWell' /\ GoneInTurn' /\ (sup.result = "ok" => SameGame)' /\ DesyncVerdictIsRight'
    BY <1>5, <2>4, <2>5 DEF SeenToEndWell, GoneInTurn, DesyncVerdictIsRight
  <2> QED
    BY <2>6, <2>7, <2>8, <2>9, <2>10, <2>11, <2>12 DEF Orderly
<1>6. CASE StartRelay
  BY <1>4, <1>5, <1>6 DEF StartRelay, Children, Peers
<1>7. ASSUME NEW p \in Peers, StartPeer(p)
      PROVE  Orderly'
  <2>1. child[p].state = "absent"
    BY <1>7 DEF Orderly, NotYetStarted, StartPeer, Peers, Preparing
  <2>2. p \in Children
    BY DEF Children
  <2>3. CASE Spawned(p, "running") /\ Goes(IF p = "a" /\ launch THEN "start_b" ELSE "poll")
    <3>1. CASE p = "a" /\ launch
      BY <1>5, <2>1, <2>2, <2>3, <3>1
    <3>2. CASE ~ (p = "a" /\ launch)
      BY <1>5, <2>1, <2>2, <2>3, <3>2
    <3> QED
      BY <3>1, <3>2
  <2> QED
    BY <1>4, <1>7, <2>3 DEF StartPeer
<1> QED
  BY <1>6, <1>7

(* What an earlier run left is removed before anything else. *)
LEMMA ClearKeeps ==
  ASSUME Orderly, Clear
  PROVE  Orderly'
<1>1. sup.at = "clear" /\ Goes("start_relay") /\ UNCHANGED <<child, launch, stuck, detected>>
  BY DEF Clear
<1>2. sup' \in SupRecords /\ sup'.at = "start_relay" /\ sup'.exit = sup.exit /\ sup'.result = sup.result
  BY <1>1, SupMoved DEF Orderly, Verdicts, Preparing
<1>3. /\ file' \in FileRecords /\ file'.report = file.report /\ file'.replay = file.replay
      /\ file'.diagnostic = [p \in Peers |-> "diagnostic" \in stuck]
  <2> DEFINE left == "ready" \in stuck
             said == [p \in Peers |-> "diagnostic" \in stuck]
  <2>1. left \in BOOLEAN /\ said \in [Peers -> BOOLEAN]
    OBVIOUS
  <2>2. file' = [file EXCEPT !.ready = left, !.diagnostic = said]
    BY DEF Clear
  <2> HIDE DEF left, said
  <2>3. file' \in FileRecords /\ file'.report = file.report /\ file'.replay = file.replay /\ file'.diagnostic = said
    BY <2>1, <2>2 DEF Orderly, DemoTypes, FileRecords
  <2> QED
    BY <2>3 DEF said
<1>4. \A p \in Peers : child[p].state = "absent"
  BY <1>1 DEF Orderly, NotYetStarted, Preparing, Peers
<1>5. detected = {}
  BY <1>4 DEF Orderly, DemoTypes, FindersSaySo
<1>6. sup.result = "none"
  BY <1>1 DEF Orderly, VerdictAtTheEnd, Ending
<1>7. DemoTypes'
  BY <1>1, <1>2, <1>3 DEF Orderly, DemoTypes
<1>8. NotYetStarted' /\ ExitsAreFinal'
  BY <1>1, <1>2 DEF Orderly, NotYetStarted, ExitsAreFinal, Preparing
<1>9. FindersSaySo' /\ DiagnosticsAreNew'
  BY <1>1, <1>3, <1>5 DEF FindersSaySo, DiagnosticsAreNew
<1>10. VerdictAtTheEnd'
  BY <1>2, <1>6 DEF VerdictAtTheEnd, Ending
<1>11. SeenToEndWell' /\ GoneInTurn' /\ (sup.result = "ok" => SameGame)' /\ DesyncVerdictIsRight'
  BY <1>2, <1>6 DEF SeenToEndWell, GoneInTurn, DesyncVerdictIsRight
<1> QED
  BY <1>7, <1>8, <1>9, <1>10, <1>11 DEF Orderly

(* One poll of a peer: its exit is noted once. *)
LEMMA PollKeeps ==
  ASSUME Orderly, NEW p \in Peers, Poll(p)
  PROVE  Orderly'
<1> DEFINE seen == IF sup.exit[p] = -1 /\ child[p].state = "exited" THEN child[p].code ELSE sup.exit[p]
           to == IF p = "a" THEN "poll_b" ELSE "poll"
<1>1. sup' = [sup EXCEPT !.at = to, !.exit = [sup.exit EXCEPT ![p] = seen]]
  BY DEF Poll
<1>2. /\ sup.at \in {"poll", "poll_b"} /\ UNCHANGED <<child, file, stuck, detected>>
      /\ to \in {"poll", "poll_b"}
  BY DEF Poll
<1>3. seen \in Int
  <2>1. child[p] \in ChildRecords
    BY ChildTyped DEF Orderly, Children
  <2>2. child[p].code \in Int
    BY <2>1 DEF ChildRecords
  <2> QED
    BY <2>2, SupFields DEF Orderly
<1>4. seen # -1 => child[p].state = "exited" /\ child[p].code = seen
  BY DEF Orderly, ExitsAreFinal
<1> HIDE DEF seen, to
<1>5. /\ sup' \in SupRecords /\ sup'.at = to /\ sup'.result = sup.result
      /\ sup'.exit = [sup.exit EXCEPT ![p] = seen]
  <2> DEFINE exit == [sup.exit EXCEPT ![p] = seen]
  <2>1. exit \in [Peers -> Int]
    BY <1>3, SupFields DEF Orderly
  <2>2. sup' = [sup EXCEPT !.at = to, !.exit = exit] /\ to \in Watching
    BY <1>1, <1>2 DEF Watching
  <2> HIDE DEF exit
  <2>3. sup' \in SupRecords /\ sup'.at = to /\ sup'.result = sup.result /\ sup'.exit = exit
    BY <2>1, <2>2 DEF Orderly, DemoTypes, SupRecords
  <2> QED
    BY <2>3 DEF exit
<1>6. sup'.exit[p] = seen /\ \A q \in Peers : q # p => sup'.exit[q] = sup.exit[q]
  BY <1>5, SupFields DEF Orderly
<1>7. sup.result = "none"
  BY <1>2 DEF Orderly, VerdictAtTheEnd, Ending
<1>8. DemoTypes'
  BY <1>2, <1>5 DEF Orderly, DemoTypes
<1>9. NotYetStarted' /\ VerdictAtTheEnd' /\ SeenToEndWell' /\ GoneInTurn'
  BY <1>2, <1>5, <1>7 DEF NotYetStarted, VerdictAtTheEnd, SeenToEndWell, GoneInTurn, Preparing, Ending
<1>10. ExitsAreFinal'
  BY <1>2, <1>4, <1>6 DEF Orderly, ExitsAreFinal
<1>11. FindersSaySo' /\ DiagnosticsAreNew'
  BY <1>2, <1>5 DEF Orderly, FindersSaySo, DiagnosticsAreNew, Watching
<1>12. (sup.result = "ok" => SameGame)' /\ DesyncVerdictIsRight'
  BY <1>5, <1>7 DEF DesyncVerdictIsRight
<1> QED
  BY <1>8, <1>9, <1>10, <1>11, <1>12 DEF Orderly

(* The verdict on the exits: a peer that found a desync and was seen to    *)
(* exit did not exit with 0 and left a diagnostic.                         *)
LEMMA DecideKeeps ==
  ASSUME Orderly, Decide
  PROVE  Orderly'
<1>1. sup.at = "decide" /\ UNCHANGED <<child, file, stuck, detected>>
  BY DEF Decide
<1>2. Diagnosed \/ \A p \in detected : sup.exit[p] # 40
  BY DEF Orderly, FindersSaySo, Diagnosed, DemoTypes
<1>3. ASSUME NEW other \in {"timeout", "child_failure"},
             Returns(IF Diagnosed THEN "desync" ELSE other)
      PROVE  Orderly'
  <2>1. CASE Diagnosed
    BY <1>1, <1>3, <2>1, ReturnKeeps DEF Verdicts, Watching
  <2>2. CASE ~ Diagnosed
    BY <1>1, <1>2, <1>3, <2>2, ReturnKeeps DEF Verdicts
  <2> QED
    BY <2>1, <2>2
<1>4. ASSUME Goes("wait_relay"), \A p \in Peers : sup.exit[p] = 0
      PROVE  Orderly'
  BY <1>1, <1>4, GoKeeps DEF Preparing, Watching, Ending
<1> QED
  BY <1>3, <1>4 DEF Decide

(* The exits that were 0 are not the exit of one that found a desync. *)
LEMMA WaitRelayKeeps ==
  ASSUME Orderly, WaitRelay
  PROVE  Orderly'
<1>1. sup.at = "wait_relay" /\ UNCHANGED <<child, file, stuck, detected>>
  BY DEF WaitRelay
<1>2. \A p \in Peers : sup.exit[p] = 0
  BY <1>1 DEF Orderly, SeenToEndWell
<1>3. \A p \in detected : sup.exit[p] # 40
  BY <1>2 DEF Orderly, DemoTypes
<1>4. CASE Returns("child_failure") \/ Returns("io_error")
  BY <1>1, <1>3, <1>4, ReturnKeeps DEF Verdicts
<1>5. CASE ExitedWell("relay") /\ Goes("compare")
  BY <1>1, <1>2, <1>5, GoKeeps DEF Preparing, Watching, Ending
<1> QED
  BY <1>4, <1>5 DEF WaitRelay, ExitedWell

(* The comparison of reports and replays keeps the demo orderly. *)
LEMMA CompareKeeps ==
  ASSUME Orderly, Compare
  PROVE  Orderly'
<1>1. sup.at = "compare" /\ UNCHANGED <<child, file, stuck, detected>>
  BY DEF Compare
<1>2. (\A p \in Peers : sup.exit[p] = 0) /\ ExitedWell("relay")
  BY <1>1 DEF Orderly, SeenToEndWell
<1>3. \A p \in detected : sup.exit[p] # 40
  BY <1>2 DEF Orderly, DemoTypes
<1>4. CASE Returns("io_error") \/ Returns("replay_mismatch")
  BY <1>1, <1>3, <1>4, ReturnKeeps DEF Verdicts
<1>5. ASSUME file.replay["a"] \in Games, file.replay["b"] = file.replay["a"],
             \A p \in Peers : ReportMatches(p, file.replay["a"]),
             Returns("ok")
      PROVE  Orderly'
  <2>1. SameGame
    BY <1>5 DEF SameGame, ReportMatches, Peers
  <2> QED
    BY <1>1, <1>2, <1>3, <1>5, <2>1, ReturnKeeps DEF Verdicts
<1> QED
  BY <1>4, <1>5 DEF Compare

(* The children are ended one after the other, in the reverse order of     *)
(* their start, and none is left before the next.                          *)
LEMMA CleanupKeeps ==
  ASSUME Orderly, NEW c \in Children, Terminate(c) \/ Kill(c) \/ Reap(c)
  PROVE  Orderly'
<1>1. sup.at = CleanedAt[c] /\ sup.at \in Ending
  BY DEF Terminate, Kill, Reap, CleanedAt, Children, Peers, Ending
<1>2. CASE Kill(c)
  BY <1>2, EndKeeps DEF Kill
<1>3. CASE Reap(c)
  <2> DEFINE to == AfterCleanup[c]
  <2>1. Goes(to) /\ UNCHANGED <<child, file, stuck, detected>> /\ ~ Alive(c)
    BY <1>3 DEF Reap
  <2>2. /\ to \in Ending
        /\ to \in {"cleanup_a", "cleanup_relay", "returned"} => c = "b" \/ sup.at \in {"cleanup_a", "cleanup_relay"}
        /\ to \in {"cleanup_relay", "returned"} => c = "a" \/ sup.at = "cleanup_relay"
        /\ to = "returned" => c = "relay"
    BY <1>1 DEF CleanedAt, AfterCleanup, Children, Peers, Ending
  <2>3. /\ to \notin Preparing /\ sup.at # "clear"
        /\ to \notin {"wait_relay", "compare"}
    BY <1>1, <2>2 DEF Ending, Preparing
  <2>4. /\ to \in {"cleanup_a", "cleanup_relay", "returned"} => ~ Alive("b")
        /\ to \in {"cleanup_relay", "returned"} => ~ Alive("a")
        /\ to = "returned" => ~ Alive("relay")
    BY <2>1, <2>2 DEF Orderly, GoneInTurn
  <2> HIDE DEF to
  <2> QED
    BY <1>1, <2>1, <2>2, <2>3, <2>4, GoKeeps
<1>4. CASE Terminate(c)
  <2> DEFINE new == [child[c] EXCEPT !.signalled = TRUE]
  <2>1. child' = [child EXCEPT ![c] = new] /\ UNCHANGED <<file, sup, stuck, detected>>
    BY <1>4 DEF Terminate
  <2>2. new \in ChildRecords /\ new.state = child[c].state /\ new.code = child[c].code
    <3>1. child[c] \in ChildRecords
      BY ChildTyped DEF Orderly
    <3> QED
      BY <3>1 DEF ChildRecords
  <2> HIDE DEF new
  <2>3. \A d \in Children : child'[d].state = child[d].state /\ child'[d].code = child[d].code
    BY <2>1, <2>2 DEF Orderly, DemoTypes
  <2>4. DemoTypes'
    BY <2>1, <2>2 DEF Orderly, DemoTypes
  <2>5. NotYetStarted' /\ ExitsAreFinal' /\ FindersSaySo' /\ SeenToEndWell'
    BY <2>1, <2>3 DEF Orderly, DemoTypes, NotYetStarted, ExitsAreFinal, FindersSaySo, SeenToEndWell,
                      ExitedWell, Children, Peers
  <2>6. GoneInTurn'
    BY <2>1, <2>3 DEF Orderly, GoneInTurn, Alive, Children, Peers
  <2>7. DiagnosticsAreNew' /\ VerdictAtTheEnd' /\ (sup.result = "ok" => SameGame)' /\ DesyncVerdictIsRight'
    BY <2>1 DEF Orderly, DiagnosticsAreNew, VerdictAtTheEnd, SameGame, DesyncVerdictIsRight
  <2> QED
    BY <2>4, <2>5, <2>6, <2>7 DEF Orderly
<1> QED
  BY <1>2, <1>3, <1>4

(* The demo starts orderly, with whatever files were left over. *)
LEMMA OrderlyInit == Init => Orderly
<1> SUFFICES ASSUME Init
             PROVE  Orderly
  OBVIOUS
<1>1. /\ child = [c \in Children |-> NotStarted] /\ NotStarted \in ChildRecords
      /\ NotStarted.state = "absent" /\ detected = {}
  BY DEF Init, NotStarted, ChildRecords
<1>2. \A c \in Children : child[c].state = "absent"
  BY <1>1
<1>3. sup.at = "clear" /\ sup.result = "none" /\ sup.exit = [p \in Peers |-> -1]
  BY DEF Init
<1>4. DemoTypes
  <2>1. file \in FileRecords
    BY DEF Init, FileRecords
  <2>2. sup \in SupRecords
    BY DEF Init, SupRecords, Preparing
  <2> QED
    BY <1>1, <2>1, <2>2 DEF DemoTypes
<1>5. NotYetStarted
  BY <1>2, <1>3 DEF NotYetStarted, Children, Peers
<1>6. ExitsAreFinal /\ FindersSaySo /\ DiagnosticsAreNew
  BY <1>1, <1>3 DEF ExitsAreFinal, FindersSaySo, DiagnosticsAreNew, Preparing, Watching
<1>7. VerdictAtTheEnd /\ SeenToEndWell /\ GoneInTurn /\ DesyncVerdictIsRight
  BY <1>3 DEF VerdictAtTheEnd, SeenToEndWell, GoneInTurn, DesyncVerdictIsRight, Ending
<1> QED
  BY <1>3, <1>4, <1>5, <1>6, <1>7 DEF Orderly

(* Every step of the supervisor and of its children keeps the demo         *)
(* orderly.                                                                *)
LEMMA OrderlyStep == Orderly /\ [Next]_vars => Orderly'
<1> SUFFICES ASSUME Orderly, [Next]_vars
             PROVE  Orderly'
  OBVIOUS
<1>1. CASE ChildStep
  BY <1>1, ChildStepKeeps
<1>2. CASE CannotPrepare
  <2>1. sup.at \in Preparing /\ UNCHANGED <<child, file, stuck, detected>> /\ Returns("io_error")
    BY <1>2 DEF CannotPrepare, Preparing
  <2>2. \A p \in detected : sup.exit[p] # 40
    BY <2>1 DEF Orderly, NotYetStarted, DemoTypes
  <2> QED
    BY <2>1, <2>2, ReturnKeeps DEF Verdicts
<1>3. CASE WaitReady
  <2>1. sup.at = "wait_ready" /\ UNCHANGED <<child, file, stuck, detected>>
    BY <1>3 DEF WaitReady
  <2>2. \A p \in detected : sup.exit[p] # 40
    BY <2>1 DEF Orderly, NotYetStarted, DemoTypes, Preparing
  <2>3. CASE Returns("child_failure") \/ Returns("timeout")
    BY <2>1, <2>2, <2>3, ReturnKeeps DEF Verdicts
  <2>4. CASE Goes("start_a")
    BY <2>1, <2>4, GoKeeps DEF Preparing, Ending
  <2> QED
    BY <1>3, <2>3, <2>4 DEF WaitReady
<1>4. CASE AllSeen \/ Watchdog
  BY <1>4, GoKeeps DEF AllSeen, Watchdog, Preparing, Watching, Ending
<1>5. CASE UNCHANGED vars
  BY <1>5 DEF vars, Orderly, DemoTypes, NotYetStarted, ExitsAreFinal, FindersSaySo, DiagnosticsAreNew,
              VerdictAtTheEnd, SeenToEndWell, ExitedWell, GoneInTurn, Alive, SameGame,
              DesyncVerdictIsRight
<1> QED
  BY <1>1, <1>2, <1>3, <1>4, <1>5, ClearKeeps, StartKeeps, PollKeeps, DecideKeeps, WaitRelayKeeps,
     CompareKeeps, CleanupKeeps DEF Next, SupervisorStep

(* The demo is orderly in every execution. *)
LEMMA DemoIsOrderly == Spec => []Orderly
  BY OrderlyInit, OrderlyStep, PTL DEF Spec

-----------------------------------------------------------------------------
(* What the demo promises. *)

(* Whatever crashes, hangs or was left over, a demo that reports success   *)
(* has three children that ended with 0, no desync found by a peer, and    *)
(* replays and reports of one game.                                        *)
THEOREM SuccessHasEvidenceAlways == Spec => []SuccessHasEvidence
<1>1. Orderly => SuccessHasEvidence
  <2> SUFFICES ASSUME Orderly, sup.result = "ok"
               PROVE  /\ \A c \in Children : child[c].code = 0
                      /\ detected = {}
                      /\ SameGame
    BY DEF SuccessHasEvidence, SameGame
  <2>1. \A p \in Peers : ExitedWell(p)
    BY DEF Orderly, SeenToEndWell, ExitsAreFinal, ExitedWell
  <2>2. \A c \in Children : child[c].code = 0
    BY <2>1 DEF Orderly, SeenToEndWell, ExitedWell, Children
  <2>3. detected = {}
    BY <2>1 DEF Orderly, FindersSaySo, DemoTypes, ExitedWell
  <2> QED
    BY <2>2, <2>3 DEF Orderly
<1> QED
  BY <1>1, DemoIsOrderly, PTL

(* The demo returns, on whatever path, only when no child is left.         *)
THEOREM NoChildIsLeftAlways == Spec => []NoChildIsLeft
<1>1. Orderly => NoChildIsLeft
  BY DEF Orderly, GoneInTurn, NoChildIsLeft, Returned, Children, Peers
<1> QED
  BY <1>1, DemoIsOrderly, PTL

(* A desync that was diagnosed and seen is reported as one, and none is    *)
(* reported that no peer found in this run.                                *)
THEOREM DesyncVerdictIsRightAlways == Spec => []DesyncVerdictIsRight
<1>1. Orderly => DesyncVerdictIsRight
  BY DEF Orderly
<1> QED
  BY <1>1, DemoIsOrderly, PTL
====
