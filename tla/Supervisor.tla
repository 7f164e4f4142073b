---- MODULE Supervisor ----
(***************************************************************************)
(* The UDP demo (src/udp/demo.cpp): a supervisor that starts a relay and   *)
(* two peers as child processes (src/transport/process.cpp), waits for     *)
(* them under a watchdog, stops the relay and compares what the peers      *)
(* wrote.  The children are the commands relay and peer of the CLI         *)
(* (src/cli/commands.cpp, src/udp/relay.cpp, run_peer of src/udp/peer.cpp).*)
(*                                                                         *)
(* A child may crash or hang at any point.  Time is what the supervisor    *)
(* sees of it: a deadline may pass whenever it looks at the clock.  What a *)
(* replay or report says is the game it describes, "bad" where it cannot   *)
(* be decoded or verified.                                                 *)
(***************************************************************************)
EXTENDS Integers

CONSTANTS
  Games,          \* the games that replays and reports describe
  StuckFiles,     \* the sets of leftover files that cannot be removed
  CrashLimit      \* bound: children that crash

ASSUME SupervisorAssumption ==
  /\ "bad" \notin Games
  /\ StuckFiles \subseteq SUBSET {"ready", "diagnostic"}
  /\ CrashLimit \in Nat

Peers == {"a", "b"}
Children == {"relay"} \union Peers

VARIABLES
  child,      \* the child processes
  file,       \* the files in the output directory
  sup,        \* the supervisor
  launch,     \* config.launch_peer_b
  stuck,      \* the leftover files that cannot be removed
  detected,   \* the peers that found a desync in this run
  crashes

vars == <<child, file, sup, launch, stuck, detected, crashes>>

(* A child: its state, its exit code, and whether SIGTERM was sent to it. *)
NotStarted == [state |-> "absent", code |-> -1, signalled |-> FALSE]

Alive(c) == child[c].state \notin {"absent", "exited"}

ExitsWith(c, code) == child' = [child EXCEPT ![c].state = "exited", ![c].code = code]

(* Leftovers of an earlier run are in the output directory. *)
Init ==
  /\ child = [c \in Children |-> NotStarted]
  /\ file = [ready |-> TRUE, report |-> [p \in Peers |-> "none"],
             replay |-> [p \in Peers |-> "none"], diagnostic |-> [p \in Peers |-> TRUE]]
  /\ sup = [at |-> "clear", exit |-> [p \in Peers |-> -1], result |-> "none"]
  /\ launch \in BOOLEAN
  /\ stuck \in StuckFiles
  /\ detected = {}
  /\ crashes = 0

-----------------------------------------------------------------------------
(* The children *)

Relaying == child["relay"].state = "ready"

(* run_relay: bind the port, or exit with 20 + the error's code. *)
RelayBinds ==
  /\ child["relay"].state = "starting"
  /\ \/ /\ child' = [child EXCEPT !["relay"].state = "ready"]
        /\ file' = [file EXCEPT !.ready = TRUE]
     \/ /\ ExitsWith("relay", 20)
        /\ UNCHANGED file
  /\ UNCHANGED <<sup, launch, stuck, detected, crashes>>

(* The relay's own deadline passes, or its socket fails. *)
RelayExpires ==
  /\ Relaying
  /\ \E code \in {0, 20} : ExitsWith("relay", code)
  /\ UNCHANGED <<file, sup, launch, stuck, detected, crashes>>

(* The relay receives the stop message. *)
RelayStops ==
  /\ Relaying
  /\ sup.at = "wait_relay"
  /\ ExitsWith("relay", 0)
  /\ UNCHANGED <<file, sup, launch, stuck, detected, crashes>>

(* A peer has confirmed the game and received the other's final hash: this *)
(* takes the relay and the other peer, its last 16 steps take neither.     *)
PeerConfirms(p) ==
  /\ child[p].state = "running"
  /\ \A q \in Peers : child[q].state # "absent"
  /\ Relaying
  /\ child' = [child EXCEPT ![p].state = "confirmed"]
  /\ UNCHANGED <<file, sup, launch, stuck, detected, crashes>>

(* run_peer finishes: the report first, then the replay, then exit 0, or   *)
(* the code of an I/O error.                                               *)
PeerReports(p, game) ==
  /\ child[p].state = "confirmed"
  /\ child' = [child EXCEPT ![p].state = "reported"]
  /\ file' = [file EXCEPT !.report[p] = game]
  /\ UNCHANGED <<sup, launch, stuck, detected, crashes>>

PeerWritesReplay(p, game) ==
  /\ child[p].state = "reported"
  /\ child' = [child EXCEPT ![p].state = "replayed"]
  /\ file' = [file EXCEPT !.replay[p] = game]
  /\ UNCHANGED <<sup, launch, stuck, detected, crashes>>

PeerSucceeds(p) ==
  /\ child[p].state = "replayed"
  /\ ExitsWith(p, 0)
  /\ UNCHANGED <<file, sup, launch, stuck, detected, crashes>>

(* run_peer detects a desync, also in its last steps, and writes its       *)
(* diagnostic ...                                                          *)
PeerDiagnoses(p) ==
  /\ child[p].state \in {"running", "confirmed"}
  /\ \A q \in Peers : child[q].state # "absent"
  /\ child' = [child EXCEPT ![p].state = "diagnosed"]
  /\ file' = [file EXCEPT !.diagnostic[p] = TRUE]
  /\ detected' = detected \union {p}
  /\ UNCHANGED <<sup, launch, stuck, crashes>>

(* ... or fails for another reason, and exits with 40 + the error's code. *)
PeerFails(p) ==
  /\ child[p].state \in {"running", "confirmed", "replayed", "diagnosed"}
  /\ ExitsWith(p, 40)
  /\ UNCHANGED <<file, sup, launch, stuck, detected, crashes>>

Crash(c) ==
  /\ Alive(c)
  /\ crashes < CrashLimit
  /\ crashes' = crashes + 1
  /\ ExitsWith(c, 139)
  /\ UNCHANGED <<file, sup, launch, stuck, detected>>

(* A child that was sent SIGTERM ends, at some time. *)
Dies(c) ==
  /\ Alive(c)
  /\ child[c].signalled
  /\ ExitsWith(c, 143)
  /\ UNCHANGED <<file, sup, launch, stuck, detected, crashes>>

ChildStep ==
  \/ RelayBinds
  \/ RelayExpires
  \/ RelayStops
  \/ \E p \in Peers : PeerConfirms(p)
  \/ \E p \in Peers, game \in Games : PeerReports(p, game)
  \/ \E p \in Peers, game \in Games \union {"bad"} : PeerWritesReplay(p, game)
  \/ \E p \in Peers : PeerSucceeds(p)
  \/ \E p \in Peers : PeerDiagnoses(p)
  \/ \E p \in Peers : PeerFails(p)
  \/ \E c \in Children : Crash(c)
  \/ \E c \in Children : Dies(c)

-----------------------------------------------------------------------------
(* The supervisor: run_udp_demo *)

Goes(to) == sup' = [sup EXCEPT !.at = to]

(* The children are destroyed in the reverse of the order of their start. *)
Returns(result) == sup' = [sup EXCEPT !.at = "cleanup_b", !.result = result]

Spawned(c, state) == child' = [child EXCEPT ![c].state = state]

(* The configuration is refused, the output directory cannot be made, or   *)
(* there are no three different ports to reserve.                          *)
CannotPrepare ==
  /\ sup.at = "clear"
  /\ Returns("io_error")
  /\ UNCHANGED <<child, file, launch, stuck, detected, crashes>>

(* Mutant: the diagnostics of an earlier run are left. *)
ClearReady ==
  /\ sup.at = "clear"
  /\ file' = [file EXCEPT !.ready = "ready" \in stuck]
  /\ Goes("start_relay")
  /\ UNCHANGED <<child, launch, stuck, detected, crashes>>

(* What an earlier run left is removed; that it cannot be is ignored. *)
Clear ==
  /\ sup.at = "clear"
  /\ file' = [file EXCEPT !.ready = "ready" \in stuck,
                          !.diagnostic = [p \in Peers |-> "diagnostic" \in stuck]]
  /\ Goes("start_relay")
  /\ UNCHANGED <<child, launch, stuck, detected, crashes>>

StartRelay ==
  /\ sup.at = "start_relay"
  /\ \/ Spawned("relay", "starting") /\ Goes("wait_ready")
     \/ UNCHANGED child /\ Returns("child_failure")
  /\ UNCHANGED <<file, launch, stuck, detected, crashes>>

(* One round of wait_for_ready; the deadline may have passed before it. *)
WaitReady ==
  /\ sup.at = "wait_ready"
  /\ \/ file.ready /\ Goes("start_a")
     \/ ~ file.ready /\ child["relay"].state = "exited" /\ Returns("child_failure")
     \/ Returns("timeout")
  /\ UNCHANGED <<child, file, launch, stuck, detected, crashes>>

StartPeer(p) ==
  /\ sup.at = (IF p = "a" THEN "start_a" ELSE "start_b")
  /\ \/ /\ Spawned(p, "running")
        /\ Goes(IF p = "a" /\ launch THEN "start_b" ELSE "poll")
     \/ UNCHANGED child /\ Returns("child_failure")
  /\ UNCHANGED <<file, launch, stuck, detected, crashes>>

Missing == {p \in Peers : (p = "b" => launch) /\ sup.exit[p] = -1}

(* Mutant: the watchdog is looked at only while nobody has exited. *)
WatchdogForgotten ==
  /\ sup.at = "poll"
  /\ \A p \in Peers : sup.exit[p] = -1
  /\ Goes("decide")
  /\ UNCHANGED <<child, file, launch, stuck, detected, crashes>>

(* The watchdog's time has passed when the loop looks at the clock. *)
Watchdog ==
  /\ sup.at = "poll"
  /\ Missing # {}
  /\ Goes("decide")
  /\ UNCHANGED <<child, file, launch, stuck, detected, crashes>>

(* One poll of a peer that has not been seen to exit. *)
Poll(p) ==
  /\ sup.at = (IF p = "a" THEN "poll" ELSE "poll_b")
  /\ Missing # {}
  /\ sup' = [sup EXCEPT !.at = IF p = "a" THEN "poll_b" ELSE "poll",
                        !.exit[p] = IF @ = -1 /\ child[p].state = "exited"
                                    THEN child[p].code ELSE @]
  /\ UNCHANGED <<child, file, launch, stuck, detected, crashes>>

AllSeen ==
  /\ sup.at \in {"poll", "poll_b"}
  /\ Missing = {}
  /\ Goes("decide")
  /\ UNCHANGED <<child, file, launch, stuck, detected, crashes>>

Diagnosed == \E p \in Peers : file.diagnostic[p]

(* What the exits seen so far mean. *)
Decide ==
  /\ sup.at = "decide"
  /\ IF Missing # {}
     THEN Returns(IF Diagnosed THEN "desync" ELSE "timeout")
     ELSE IF ~ launch \/ \E p \in Peers : sup.exit[p] # 0
     THEN Returns(IF Diagnosed THEN "desync" ELSE "child_failure")
     ELSE Goes("wait_relay")
  /\ UNCHANGED <<child, file, launch, stuck, detected, crashes>>

(* The stop message has been sent, or could not be; the relay may take too *)
(* long.                                                                   *)
WaitRelay ==
  /\ sup.at = "wait_relay"
  /\ \/ child["relay"].state = "exited" /\ child["relay"].code = 0 /\ Goes("compare")
     \/ child["relay"].state = "exited" /\ child["relay"].code # 0 /\ Returns("child_failure")
     \/ child["relay"].state # "exited" /\ Returns("child_failure")
     \/ Returns("io_error")
  /\ UNCHANGED <<child, file, launch, stuck, detected, crashes>>

(* read_binary, read_text: the file of an artifact is not there. *)
Unreadable(p) == "none" \in {file.replay[p], file.report[p]}

(* report_matches: the report of p has the frames and the hash of this game. *)
ReportMatches(p, game) == file.report[p] = game

(* Mutant: each peer's report is compared with its own replay only. *)
CompareSeparately ==
  /\ sup.at = "compare"
  /\ Returns(IF \E p \in Peers : Unreadable(p) THEN "io_error"
             ELSE IF \A p \in Peers : /\ file.replay[p] \in Games
                                      /\ ReportMatches(p, file.replay[p])
             THEN "ok" ELSE "replay_mismatch")
  /\ UNCHANGED <<child, file, launch, stuck, detected, crashes>>

(* Both replays decode, are equal and verify, and both reports fit them. *)
Compare ==
  /\ sup.at = "compare"
  /\ Returns(IF \E p \in Peers : Unreadable(p) THEN "io_error"
             ELSE IF /\ file.replay["a"] \in Games
                     /\ file.replay["b"] = file.replay["a"]
                     /\ \A p \in Peers : ReportMatches(p, file.replay["a"])
             THEN "ok" ELSE "replay_mismatch")
  /\ UNCHANGED <<child, file, launch, stuck, detected, crashes>>

-----------------------------------------------------------------------------
(* ChildProcess::cleanup, of each child in turn *)

CleanedAt == [b |-> "cleanup_b", a |-> "cleanup_a", relay |-> "cleanup_relay"]
AfterCleanup == [b |-> "cleanup_a", a |-> "cleanup_relay", relay |-> "returned"]

(* terminate, if the child is not known to have exited. *)
Terminate(c) ==
  /\ sup.at = CleanedAt[c]
  /\ Alive(c)
  /\ ~ child[c].signalled
  /\ child' = [child EXCEPT ![c].signalled = TRUE]
  /\ UNCHANGED <<file, sup, launch, stuck, detected, crashes>>

(* Mutant: the wait of 500 ms runs out and that is all. *)
GiveUp(c) ==
  /\ sup.at = CleanedAt[c]
  /\ Alive(c) /\ child[c].signalled
  /\ Goes(AfterCleanup[c])
  /\ UNCHANGED <<child, file, launch, stuck, detected, crashes>>

(* The wait of 500 ms runs out: SIGKILL, and a wait without a limit. *)
Kill(c) ==
  /\ sup.at = CleanedAt[c]
  /\ Alive(c) /\ child[c].signalled
  /\ ExitsWith(c, 137)
  /\ UNCHANGED <<file, sup, launch, stuck, detected, crashes>>

(* The child has not been started, or its end has been seen. *)
Reap(c) ==
  /\ sup.at = CleanedAt[c]
  /\ ~ Alive(c)
  /\ Goes(AfterCleanup[c])
  /\ UNCHANGED <<child, file, launch, stuck, detected, crashes>>

SupervisorStep ==
  \/ CannotPrepare
  \/ Clear
  \/ StartRelay
  \/ \E p \in Peers : StartPeer(p)
  \/ \E p \in Peers : Poll(p)
  \/ AllSeen
  \/ Decide
  \/ Compare
  \/ \E c \in Children : Terminate(c)
  \/ \E c \in Children : Kill(c)
  \/ \E c \in Children : Reap(c)

Next == ChildStep \/ SupervisorStep \/ WaitReady \/ Watchdog \/ WaitRelay

Spec == Init /\ [][Next]_vars

(* The supervisor's own steps are taken, and the time of its deadlines     *)
(* passes.  Nothing is assumed of the children: they may hang.             *)
FairSpec ==
  /\ Spec
  /\ WF_vars(SupervisorStep)
  /\ WF_vars(WaitReady)
  /\ SF_vars(Watchdog)
  /\ WF_vars(WaitRelay)

-----------------------------------------------------------------------------
(* Properties *)

Returned == sup.at = "returned"

(* A demo that succeeds has evidence: three children that ended by         *)
(* themselves with code 0, no desync, and artifacts of one game.  Crashes  *)
(* between the steps of a child, files left over from an earlier run and   *)
(* exits that the polls see late do not change that.                       *)
SuccessHasEvidence ==
  sup.result = "ok" =>
    /\ \A c \in Children : child[c].code = 0
    /\ detected = {}
    /\ \E game \in Games : \A p \in Peers : file.report[p] = game /\ file.replay[p] = game

(* run_udp_demo leaves no process behind, on whatever path it returns.     *)
NoChildIsLeft == Returned => \A c \in Children : ~ Alive(c)

(* The verdict on a desync is right: a diagnostic that was complete when   *)
(* its peer's exit was seen is reported as one, whatever became of the     *)
(* other peer; and none is reported that no peer found in this run, as     *)
(* long as the diagnostics of an earlier one could be removed.             *)
DesyncVerdictIsRight ==
  /\ sup.result # "none" =>
       \A p \in detected : sup.exit[p] = 40 => sup.result = "desync"
  /\ sup.result = "desync" /\ "diagnostic" \notin stuck => detected # {}

(* The demo ends although every child may hang: a watchdog that passes in  *)
(* any round of the polls, and a kill that is not refused.                 *)
DemoReturns == <>Returned
====
