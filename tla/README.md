# rollback-lab-cpp in TLA+

TLA+ models of the rollback netcode in this repository and of the programs
around it, TLC configurations that check them on small instances, and TLAPS
proofs of what the session, the sequence window, the two UDP peers, the transport, the
live scenario, the game and its replays, the C handles, the demo supervisor and the engine
demo promise, for every instance. Paths below are
relative to the repository root; `ue5/` stands for `examples/ue5/RollbackArena/`.

## 1. The system

Two peers play a deterministic arena game. Each simulates its own copy of the
world at once, predicts the remote player's input while it is missing, and rolls
back and resimulates when the real input differs from the one it used. Peers
exchange redundant windows of inputs and the hashes of confirmed states.

| Component | Source | State it keeps | Operations |
|---|---|---|---|
| Frame numbers | `include/rollback_lab/core/frame.hpp` | none (32-bit, wrapping) | `frame_before`, `frame_distance`, `next_frame`, `frame_ring_index` |
| Frame ring | `netcode/frame_ring.hpp` | 256 slots, each valid flag, frame, value | `put`, `get`, `contains` |
| Rollback session | `src/netcode/session.cpp` | world, rings of local, remote and used inputs, snapshots and hashes, earliest dirty frame, confirmed boundary, metrics | `advance`, `ingest_remote`, `flush_corrections`; queries `confirmed_input`, `hash_at`, `state_at`, `report` |
| Sequence window | `src/protocol/sequence_window.cpp` | newest sequence, 64-bit mask | `observe` |
| Packet codec, CRC | `src/protocol/` | none | `encode_packet`, `decode_packet` |
| UDP peer driver | `src/udp/peer.cpp` | phase, borrowed session, window, local history, remote final hash, counters, deadlines | `create`, `step` |
| UDP relay | `src/udp/relay.cpp` | socket, deadline | forward, stop |
| Demo supervisor | `src/udp/demo.cpp`, `src/transport/process.cpp` | three child processes, exit codes, watchdog | spawn, wait, compare artifacts |
| Seeded transport | `src/transport/seeded_transport.cpp` | queue, byte count, burst, metrics | `send`, `deliver` |
| Scenario runner, live scenario | `src/report/scenario_runner.cpp` | two sessions, transport, windows, two desync trackers, replay | `step`, `finalize` |
| Desync tracker | `src/report/desync.cpp` | earliest diagnostic | `observe` |
| Replay | `src/replay/replay.cpp` | none | encode, decode, verify, compare |
| Arena simulation | `src/simulation/` | world (a value) | `simulate_frame`, `hash_canonical` |
| C ABI | `src/c_api/` | handles: owner thread, borrowed, touched, sticky failure | create, destroy, step, queries |
| Engine bridge | `ue5/Plugins/RollbackLabBridge/` | library, session and driver handles, wall-clock accumulator, views | start, advance, single step, pause, stop |
| Engine demo | `ue5/Source/RollbackArenaDemo/` | run, input edges, screenshots, evidence, exit status | BeginPlay, Tick, ScreenshotProcessed, EndPlay |
| Reports, viewer, CLI, sweep | `src/report/`, `src/cli/` | none of their own that decides a result | formatting, driving |

**Interaction.** A driver (UDP peer, live scenario or C caller) owns the calls
into a session, which is single-threaded. The two UDP drivers run in two
processes and share nothing but packets, forwarded by the relay; the supervisor
sees only exit codes and files. A C handle lends its sessions to a driver and
refuses direct calls while they are lent. The engine bridge uses that ABI and
nothing else; the demo actor drives the bridge from engine callbacks.

**What is hard.** The session's correctness depends on the order in which remote
inputs arrive, on wrapping numbers, and on bounded rings that forget silently.
The drivers add packets lost, repeated and reordered, two processes in any
interleaving, deadlines, a handshake and a final exchange without a last
acknowledgement. The supervisor adds processes that crash or hang between two
files, and files of an earlier run. The engine adds callbacks that come in any
order or never. `PROJECT.json` lists these hazards at their lines.

**What makes each component correct.**

- *Session*: all it holds belongs to one timeline; no misprediction is
  forgotten; what is confirmed was simulated from actual inputs, is never
  rewritten, and only that is handed out; a pending correction can be carried out.
- *Sequence window*: no packet is accepted twice, and none refused that can
  still be told apart from the accepted ones.
- *UDP peers*: what both confirm is one game, the one of the inputs; success is
  mutual; no false desync and no missed one; both finish.
- *Seeded transport*: every packet is delivered, dropped with a count, or queued,
  and in time; only what can never fit is refused.
- *Live scenario*: honest peers never differ; success is genuine; the earliest
  divergence is reported; every run ends.
- *C ABI*: no session has two borrowers, a driver is made of fresh sessions only,
  and a failed driver moves nothing.
- *Supervisor*: success only with evidence; a desync only if one was found in
  this run; no child is left behind; it always returns.
- *Arena and replay*: hits, projectiles and attacks add up; an accepted file
  tells of a game that its inputs play.
- *Engine demo*: the exit status matches the evidence; a run's handles are all
  there or none; a key press reaches the game while frames are left to play; the smoke test
  ends.

## 2. Modules

| Module | Models |
|---|---|
| `FrameNumber`, `FrameRing` | frame order modulo `Modulus` (2^32) and the ring of `Capacity` (256) slots |
| `RollbackSession` | the class as operators on a session record; each method returns the session it leaves behind and its error |
| `SessionCalls`, `MCSession` | one session under every sequence of calls, and its properties |
| `SequenceWindow`, `SequenceCalls` | the receive window, packets arriving in any order |
| `SessionLemmas`, `SessionProofs` | what each method does to a sound session, whoever calls it; the theorems of `SessionCalls` |
| `Lockstep` | abstract specification: what two peers promise together |
| `UdpPeers`, `MCUdpPeers` | two drivers with their sessions and windows, the relay and the network between them; implements `Lockstep` |
| `UdpProofs` | proofs about the two drivers, and that they implement `Lockstep` |
| `SeededTransport`, `TransportCalls` | the transport as operators, every order of sends and deliveries |
| `NetworkProofs` | proofs about the window and the transport |
| `PacketCodec` | `encode_packet`, `decode_packet`: what they refuse, and the sizes |
| `LiveScenario`, `MCLiveScenario` | `RollbackSession`, `SequenceWindow`, `SeededTransport` and `PacketCodec` composed tick by tick, with both desync trackers and the report |
| `LiveProofs` | proofs about the live scenario |
| `Handles`, `MCHandles` | sessions and drivers across the C ABI, from several threads |
| `Supervisor` | the UDP demo, its children and their files |
| `OwnershipProofs` | proofs about handles and about the supervisor |
| `Arena`, `Replay`, `ReplayFiles`, `MCReplayFiles` | the rules of the game; replays as values and files; recording, damage, reading |
| `ReplayProofs` | proofs about the game and about replays |
| `BridgeRuntime`, `ArenaView`, `ArenaProofs` | the engine plugin's runtime, the demo actor on top of it, and proofs about both |

Definitions with the comment "Mutant:" are deliberate bugs; nothing in a
specification uses them. They show that each property would notice one.

### Correspondence

*Session.* The fields of the record are those of the class: `world` is `state_`,
`local`, `remote`, `used`, `snapshots`, `hashes` are the rings of `Storage`,
`dirty` is `earliest_dirty_` (`NoFrame` when empty), `confirmed` and `metrics`
are `metrics_`. `FlushCorrections` gives the outcome of the resimulation loop in
closed form, for a loop that completes and for one that stops at frame k with an
error, in which case everything written so far stays written. `Advance` flushes
first and keeps the correction even if it then refuses the input.
Data abstractions: a world is the history of the input pairs that led to it, so
the game rules need not be known and two worlds are equal exactly if the same
inputs produced them; a hash is the world it is taken of (no collisions); an
input is its buttons, which is all `same_predicted_value` compares.
`SimulateFails` says from which world and inputs `simulate_frame` reports an error.

*UDP peers.* `driver[p]` is a `PeerDriver` with its session; `channel[p]` holds
the packets on their way to p through the relay. A handshake step and a
confirming step send before they read, so each is two actions (phases "greeted"
and "resent" lie between them); a running step reads before it sends and is one.
How many of the waiting packets have arrived is chosen in every step. Packets
sent to a peer that is not yet bound or has stopped are lost. `TimeOut` is a
step that finds its deadline passed. The tracker's diagnostic and the
report fields of packets do not influence the drivers and are left out, as are
the engine-only checks (source port of the relay, input frame beyond the target).

*Seeded transport.* `Send` and `Deliver` are the two methods; what the code
draws from its generator (loss, burst, copies, jitter, rank) is a record chosen
from `Draws`, which holds only what the percentages allow. Ticks end at
`LastTick`, so that the saturation of a delivery time is reached. `TakenFrom` is the
loop of `deliver` over the sorted queue: a packet is taken if it fits what those taken
before it leave of the budget.

*Live scenario.* `live` is `LiveScenario::Storage`. One step is one tick, as in
`step_once`: record, make and send both packets, deliver, advance both, and at
the last tick `Finalize`. Both packets are sent before the first error is
reported, and both peers are advanced before one of theirs is. The sizes of
datagrams are the real ones. The game script of b is fixed, the local buttons of
a are chosen freely.

*Handles.* A session or driver is a record at an address: owner thread, borrowed,
touched, number of moves, sticky failure. Addresses are reused after a destroy.
A refused call changes nothing, so its refusal is the guard.

*Supervisor.* `sup.at` is the place in `run_udp_demo`, every return goes through
the three destructors (`~ChildProcess`: terminate, wait, kill, reap). A deadline
is an action that may be taken whenever the code looks at the clock. Children
write report, replay and diagnostic in the order of `run_peer` and may stop
between any two. To have confirmed the game (`PeerConfirms`) a peer needs the relay and the
other peer; for its last 16 steps and its files it needs neither. Leftover files may be impossible to remove, since the code
ignores that error.

*Arena and replay.* `SimulateFrame` is the whole function: movement, cooldown,
attack, projectile slots and ids, hits, respawn and each error, on a small
arena. A file is its body and a checksum, which is the body it was computed of.
`FileDiffers` changes one thing, with or without a fitting checksum.
`encode_replay` leaves frame order and button bits to the reader, and
`decode_replay` accepts a checkpoint at frame 0, which `verify_replay` then
rejects; the model does the same.

*Engine.* A runtime is the set of handles it holds, its clock and its views;
`Start` fails at every place where the code can. `ArenaView` has one action per
callback; `EngineTick` is the whole callback from input to exit. A tick sees at most one
control key. Steps and frames are counted apart: after its last frame a live driver takes
`TailSteps` (`tail_redundancy_ticks` + 32) steps that only send and deliver what is left, and
a peer over UDP takes steps before its first frame, until the handshake is complete, and after
its last one. Only a step that plays a frame uses the buttons. `Tick` and the single-step
key forget what was pressed after any step, so a press in the tail is dropped; the demo has
no use for it, and `PressesReachTheGame` therefore speaks of the time before the last frame.
It covers the presses that a tick reads as well as those it finds pending. The editor's wait
for its shaders before an automatic exit is not an action of its own: the exit just comes
after a later `TimePasses`.

## 3. Runs

| Run | Checks | States |
|---|---|---|
| `session_honest` | `TypeOK`, `OneTimeline`, `HashesAreConfirmed`, `PredictionsAreFresh`, `ConfirmedIsFinal`, `LostFrameStaysLost`; starts 2 frames before the wrap of frame numbers | 178 k |
| `session_evicting` | `ConfirmedIsActual`, `MispredictionIsPending`, `CorrectionIsPossible` after the ring of 4 has begun to forget, with a remote that changes its mind | 149 k |
| `session_failing` | *violation*: see section 5 | |
| `sequence_window` | `VerdictsAreExact` across the wrap and all window edges | 2 k |
| `udp_ordered` | `NobodyFinishesApart`, and under fairness `BothFinish`, `DifferenceIsFound`, with peers that may run other rules or versions | 82 k |
| `udp_lossy` | `ConfirmedGameIsTheScript`, `SuccessIsMutual`, `NoFalseDesync`, refinement `GameIsLockstep`, with loss, duplication, reordering and deadlines | 429 k |
| `transport` | `PacketsAreConserved`, `RefusedOnlyWhatNeverFits`, `OnlySmallerOvertakes`, `DeliveredInTime` | 374 k |
| `live_scenario` | `HonestRunsOnlyTimeOut`, `SuccessIsGenuine`, `DiagnosticIsEarliest`, `RollbacksAreReported`, and under fairness `EveryRunEnds` | 135 k |
| `handles` | `OneBorrower`, `UntouchedIsFresh`, `BorrowedMovesWithItsDriver` | 12 k |
| `supervisor` | `SuccessHasEvidence`, `NoChildIsLeft`, `DesyncVerdictIsRight`, and under fairness `DemoReturns` | 678 k |
| `arena_view` | `ExitMatchesEvidence`, `RunsAreWhole`, `PressesReachTheGame`, and under fairness `SmokeTestEnds` | 400 k |
| `replay_files` | `GameAddsUp`, `AcceptedIsPlayed` | 426 k |

Each property is stated in words above its definition.

**Bounds.**

- *Session*: `FrameLimit`, `RollbackLimit`, `MaxLead`. Rings of 4 or 8 with a
  rollback limit of 2 make late, too-late, early and evicted frames all occur within
  4 or 5 frames. Two button masks are enough for right and wrong predictions.
  `MaxRollback + MaxLead < Capacity` holds for every caller: 120 + 0 < 256 through the
  C ABI, which refuses future frames; in the live scenario both sessions advance tick
  by tick; in the UDP game no frame displaces another, as frame_count <= 256.
- *UDP peers*: `FrameCount`, `FaultLimit`, `ChannelCapacity`. A hello behind a hello is
  left out, since reading it changes nothing, and a full channel loses its last packet
  to the new one; `udp_ordered` uses windows that cover the game
  (`Redundancy = FrameCount`), so that nothing is missed by it, where the program
  relies on 32 inputs per packet. The session's counters are not kept: only the report
  shows them.
- *Transport*: three packets of sizes 1, 3 and 4, a queue of 3 packets and 5 bytes, a
  budget of 3 bytes and packets of at most 3 bytes make every refusal, drop, expiry and
  overtaking happen; drop_oldest is the policy under which they are hardest.
- *Live scenario*: three frames, a window of two inputs, a delay of up to one tick and
  loss, one tail and one drain tick: inputs are lost for good, arrive late, are repaired by
  the next packet, or time out. `InTime` is the condition under which a repeated input is
  never refused as too old: the redundancy and the delay fit the rollback window, and a
  tick's budget the packets that can be on their way. `HonestRunsOnlyTimeOut` states it,
  because the code does not check it; the instance satisfies it (9600 bytes a tick, four
  packets for each of two ticks), and with a budget of 150 TLC finds inputs that come too late.
- *Handles*: two threads, three sessions, two drivers, two moves: enough for a live driver
  and a UDP driver to compete for one session. Threads and addresses are symmetric.
- *Supervisor*: two games, one crash (`CrashLimit`), leftovers of each kind.
- *Engine*: a run of two frames, short and long engine frames (fewer than one step, more
  than the catch-up limit), one button. With two tail steps (`TailSteps`) and two catch-up
  steps a tick may play frames only, the last frame and a tail step, or tail steps only.
- *Replay*: an arena 12 wide, four frames, checkpoints every second one; damaged files of
  games of up to three (`DamagedFrames`). Players who meet, shoot, die and respawn,
  full projectile slots and exhausted ids (`MaxId`) all occur.

`CHECK_DEADLOCK FALSE` is said where the system ends: finished or failed peers, a demo
that has returned, a process that has exited, a file that has been read, ticks at their end.

**Fairness.** *UDP peers*: a process that runs keeps stepping its driver, because `run_peer`
loops until the driver stops; a driver that keeps reading eventually reads what was sent to
it, because loopback delays packets finitely. *Live scenario*: `run_seeded_scenario` steps
until the result. These are written with explicit guards, which are exactly when the
actions are enabled, because evaluating `ENABLED` repeats a whole step. *Supervisor*: its
own steps are taken and the time of its deadlines passes; the watchdog needs strong
fairness, since the poll in between leaves and re-enters the place where the clock is
read. Nothing is assumed of the children. *Engine*: the engine ticks its actors, time
passes, and a requested exit comes; nothing is assumed of screenshots or keys. No fairness
is assumed of losses, faults or crashes: the liveness runs of the peers have none.

## 4. Proofs

`SessionLemmas` says what each method of `RollbackSession` does to a session that is
`Sound`, for every value of the constants and without reference to who calls it. `Sound`
is a conjunction of named parts: types; each ring holds only frames of its span, so that
no two live frames share a slot; snapshots, hashes and used inputs agree with the world's
history; remote inputs differ from used ones only at or after the dirty frame; the dirty
frame is within the rollback window and not before the confirmed boundary; before the
boundary both inputs are known and used. One lemma per method (`UpdateConfirmation`,
`SimulateNext`, `FlushCorrections`, `Advance`, `IngestRemote`) shows that it preserves
`Sound`. Its first part locates frames by their distance from an origin: while distances
stay under half of `Modulus` the modular order is the order of distances, and ring slots
of frames less than `Capacity` apart differ. All of it is under `SimulationIsTotal`
(`simulate_frame` does not fail; the violation run shows that this is needed).

`SessionProofs` proves all nine properties of the runs `session_honest` and
`session_evicting`: `TypeCorrectness`, `TimelineCorrectness`, `ConfirmationCorrectness`,
`NoMispredictionIsForgotten`, `CorrectionSucceeds`, `HashCorrectness`,
`ConfirmationIsFinal`, `PredictionsStayFresh` and `LostFramesStayLost`. None of these
invariants is inductive alone; all follow from `Called` (`Soundness`): `Sound`, and what
the caller keeps, namely how many frames are played and how far ahead inputs come.
`PredictionsAreFresh` has the hypothesis `FrameLimit + MaxLead < Capacity`: with equality an
early input can displace the one a prediction was made of, which the attempt to prove it
showed.

`UdpProofs` proves the five safety properties of the UDP runs for every length of the
game up to the capacity of the rings, every script, redundancy and drain, any network
faults and any timing: `ConfirmedIsTheScript`, `SuccessIsShared`, `DesyncIsNeverFalse`,
`FinishedTogether`, and `PeersImplementLockstep`, the refinement. The inductive invariant
`PeersFit` says what one peer knows of the other, in its rings and in the packets on their
way to it: inputs are of the sender's script and of frames it has produced; hashes are of
the scripted game (`ScriptWorld`) and of boundaries it has confirmed; a received final hash
says that the other has confirmed the game. What a peer has produced and confirmed only
grows (`Grows`), so all of this stays true while the other goes on, whatever becomes of
the packets. The session enters through the lemmas of `SessionLemmas` alone. The loops over a
packet's inputs and over the waiting packets are recursive functions; that they exist and
stay within the invariant is shown by their first turn that would not (`LoopExists`,
`LoopIs`). `FinishedTogether` needs one of the two peers to compute correctly: two that
are faulty alike agree with each other.

`NetworkProofs` proves `VerdictCorrectness` of the window from `Remembers`: the mask is exactly
the set of accepted numbers within the window, counted back from the newest. It
rests on the arithmetic of remainders (`DistanceOfRemainders`).

It also proves all four properties of the run `transport`, for every
configuration, packet size, draw and number of sends: `PacketsAreConservedAlways`,
`DeliveredInTimeAlways`, `RefusedOnlyWhatNeverFitsAlways`, `OnlySmallerOvertakesAlways`.
The inductive invariant `Balanced` says that the queue is in order (`QueueInOrder`: finite,
different ordinals below the next one, its bytes counted, both limits kept), that
what was sent and is not accounted for is what was refused, that the packets in the
queue are of the past and scheduled no earlier than the latency allows, and that no
delivered copy is still in the queue. Each is needed: a copy is delivered once only
because its ordinal is not given again, and its age is the elapsed time, and not a
wrapped difference, only because it was sent at or before the present tick. There is
one lemma for each method and for each part of it (`ensure_capacity`, the copies, their
schedule). The lemmas about `BytesOf` say what a sum over a finite set does when an
element or a part is taken out. They are inductions, done as arguments about
a smallest counterexample (`SmallestPart`): the fold behind `BytesOf` unfolds by one element (`BytesUnfold`),
because the recursive function that computes it exists (`FoldExists`). In the same
way `TakesExists` shows that the recursive function of `TakenFrom` exists, from the
last packet in the order of delivery.

`OwnershipProofs` proves `OneBorrowerAlways`, `UntouchedIsFreshAlways` and
`BorrowedMovesWithItsDriverAlways` for any threads, addresses and bounds. The inductive
invariant `Consistent` relates both sides of a loan: a driver's sessions exist,
are marked as borrowed and belong to its thread; a borrowed session has a driver; no two
drivers share one; a UDP driver that plays has marked its session as touched.

Of the supervisor it proves `SuccessHasEvidenceAlways`, `NoChildIsLeftAlways` and
`DesyncVerdictIsRightAlways` for any games, crashes and leftovers. `Orderly` says at each
place of `run_udp_demo` what is known there: which children may have been started, whose
exits have been seen and are those of the children, which files are of this run,
and in which order the destructors have gone through the children.

`ArenaProofs` proves the three safety properties of the run `arena_view` for every number
of frames and of steps after them, step length, catch-up limit, set of buttons, warm-up and order of callbacks:
`RunsAreWholeAlways`, `ExitMatchesEvidenceAlways` and `PressesReachTheGameAlways`. The
inductive invariant `DemoFits` has two parts. `Orderly` is about the runtime: what it holds
exists, and is nothing or a whole run whose driver has borrowed its sessions. A start or
stop passes through states that are not orderly; there `Sound` holds, which is just what
makes the next destroy legal (`DestroyKeepsSound`, `ReleaseEmpties`). `SmokeFits` is about a
smoke test: evidence comes before the exit, an exit with an error has evidence of a failure,
and a success that was written stays proven (`Proven`) until the process ends, because
nothing is played any more. `Fail`, `Quit` and `SaveEvidence` call each other, from keys, the watchdog,
screenshots and steps; one lemma each says what they keep when called in any state of a
callback (`Called`). `ExitMatchesEvidence` alone is not inductive: it is silent until the
exit. `DemoFits` also says that a runtime that failed has made the demo fail (else a tick
could play on), that a demo that is loading has written nothing, and that the demo's
settings are the options its runtime was last started with (else the steps before the first frame of a
UDP run could take the presses of an interactive one). The catch-up loop
`StepsOf` is a recursive function: `TurnsExist` shows that it exists, by the least
number of turns for which it would not, and `StepsStay` that what one turn keeps the loop keeps.

`LiveProofs` proves `SuccessIsGenuineAlways`, `DiagnosticIsEarliestAlways` and
`RollbacksAreReportedAlways` for every length of the game, script, configuration of the
transport and fault, also if the simulation fails. Between two steps `Rests` holds: both
sessions hold frames of the game only and have no correction pending (`Clean`), what has been
recorded are lists, the queue of the transport is in order, each tracker holds the earliest
divergence its peer has seen, and a report that is there is genuine and of the earliest
divergence. Within a
tick that does not hold: `Goes` says of each state within it what is kept from the
beginning of the tick, that the corrections shown are those performed included, and one
lemma for each part of `step_once` keeps it. The loops over deliveries and over a packet's
inputs are folds, which run turn by turn (`FoldRuns`); that the queue can be sorted is
proved (`Sorts`), because the model delivers a chosen sorted sequence of it. The only
assumption about the length of the game is `2 * FrameCount < Modulus`: within half of the frame
numbers the modular order is an order (the code admits 10^6 of 2^32).

`HonestRunsOnlyTimeOutAlways` is about two canonical peers. It needs `SimulationIsTotal` (the
runner starts from the initial state, from which nothing overflows) and `RingsReach`: the
rollback window is no longer than the rings, as 120 and 256 are, or the game is not. The
inductive invariant `AgreesAtRest` relates each session to the game `g` that the runner
records. A session `Plays` `g` if it is `Sound`, its local and remote rings echo inputs of `g`,
and the world agrees with `g` before the confirmed boundary; hashes are only given away at
or before it, so they are hashes of `g` (`HashGiven`) and nothing diverges
(`NothingDiverges`). A datagram is `Truthful` if it can be decoded and says only what is in
`g`, and stays so as the game goes on (`Continues`). What is left is time. A copy in the
queue is `Mail`: its inputs were among the last ones when it was made, and it is due at most
`MaxDelay` ticks later. `Post` numbers the copies, at most four a tick, so that those made
since a tick are few; if `InTime`, all that is due fits the budget of the tick and is taken
(`AllDueTaken`, by a bound on the bytes of what is due), so nothing stays behind and no input that is
taken is older than the window (`DeliverPosts`). A session that has confirmed the whole game
has its world (`WholePlayed`), and the recorded inputs, replayed, lead to `g` and all its
checkpoints (`ReplayIsGame`), so finalize can only succeed or time out. A timeout is possible
whatever the delay: inputs that are lost in every repetition stay lost.

`ReplayProofs` proves `GameAddsUpAlways` and `AcceptedIsPlayedAlways` for an arena of any
size in which everyone fits (`ArenaAssumption`: the width is at least four player radii, so
that both players start inside, and the full hit points are a multiple of the damage, as
100 and 25 are), any speeds, lifetimes, number of slots and ids, games of any length and any
interval between checkpoints. What every world is like (`Fits`: typed, in the arena, ids
in flight different and below the next id) holds by any rules; that hits, respawns and
projectiles are no more than the attacks (`Counted`) holds by the canonical ones, since
the biased damage does not divide the hit points. `GameAddsUp` alone is not inductive: it is
silent about hit points that are no multiple of the damage and about the ids that give the
order of flight. One lemma for each part of `simulate_frame` keeps both; an order of flight
exists because ids differ (`OrderExists`). `FilesFit` says of a recording that there is a
history of worlds which the recorded inputs play, with each checkpoint taken from it
(`Recorded`), and of the file that it holds the record or is damaged. From the record follows
that the verification of an undamaged file keeps on track (`OnTrack`: the cursor has passed
exactly the checkpoints of past frames) and accepts. The converse needs nothing of how the
file came about: a verification that has not failed at the end never had (`FailureIsFinal`),
so it has simulated every frame and met every checkpoint before its cursor (`Truthful`), and
its worlds are those of `WorldsOf`, which exists and is unique (`WorldsAreUnrolled`).

TLC checked the inductive invariants on the runs' instances before they were proved
(`PeersFit` and `Called` on both of theirs), except three that it cannot evaluate, because
they speak of unbounded sequences or of some history: `Rests`, `AgreesAtRest` and `FilesFit`.
Of these it checks the properties that follow.

Only model-checked: liveness (`BothFinish`, `DifferenceIsFound`, `EveryRunEnds`,
`DemoReturns`, `SmokeTestEnds`), which is out of the prover's reach. Every safety property
of the passing runs is also a theorem. That hashes do not collide is an assumption of the
model itself.

## 5. Finding

`docs/ROLLBACK_ALGORITHM.md` says that boundary N means the actual inputs of
`[0, N)` are present *and incorporated*. If `simulate_frame` fails inside
`advance`, the local input is already stored; when the remote input of that frame
arrives, `update_confirmation` moves the boundary past a frame that was never
simulated. It takes an initial world from which the simulation overflows.

## 6. Not modelled, and why

- The bytes of packets and files, CRC-32, FNV hashing and PCG32: pure word arithmetic. The
  models take a checksum to be what it was computed of, hashes to be free of
  collisions, and a draw to be any value its percentage allows.
- `scripted_input`: a generator of pseudo-random buttons; the models take every input, or
  a script that makes predictions wrong.
- Sockets and the errors of `waitpid`: operating system. What sockets do to packets is
  the network of `UdpPeers`.
- The trace's marker of a desync (`scenario_runner.cpp:243`), which `rl_live_step` shows while
  a run is going on: it copies what the tracker holds that observed last, which need not be
  the earliest divergence of both. `DiagnosticIsEarliest` is about the report.
- Traces, JSON, metrics in reports, the viewer: formatting of results that are decided
  elsewhere. The command line and the property sweep: they call the modelled parts with
  given or generated configurations and print; the commands that start children or read and
  write replays are in `Supervisor` and `ReplayFiles`.
- The engine's HUD, meshes, camera, transport presets, asset commandlet and tests.

Hazards without a property: a remote input a whole ring ahead of the session
(`session.cpp:148`; no caller can send one), a correction that stops half way
(`session.cpp:194`; the callers treat it as final), and a last hello that is lost before the
first input packet (`peer.cpp:524`; the peer fails, which the code allows).

## 7. What to prove next

A lower bound for the live scenario: that a run in which enough repetitions of every input
arrive does succeed, which `HonestRunsOnlyTimeOut` leaves open (it needs a bound on the losses), and the same
theorem for a budget that only just carries the traffic, where `InTime` is more than is needed.
