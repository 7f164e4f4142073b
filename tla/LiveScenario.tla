---- MODULE LiveScenario ----
(***************************************************************************)
(* The in-process scenario (src/report/scenario_runner.cpp): a             *)
(* LiveScenario steps two RollbackSessions that exchange packets over a    *)
(* SeededTransport.  One step is one logical tick: it plays a frame, sends *)
(* the inputs again (the tail), or only delivers (the last ticks), and the *)
(* last one writes the report.                                             *)
(***************************************************************************)
EXTENDS RollbackSession, SequenceWindow, SeededTransport, PacketCodec

Lists == INSTANCE SequencesExt

CONSTANTS
  FrameCount,        \* config.frame_count
  TailTicks,         \* config.tail_redundancy_ticks
  DrainTicks,        \* the ticks that only deliver, 32
  Script(_, _),      \* scripted_input(seed, frame, player): the buttons
  CheckpointEvery,   \* frames between two replay checkpoints, 30
  Variants,          \* the sets of peers that may run damage_bias
  Hits(_)            \* does damage_bias change the state a world stands for?

ASSUME LiveAssumption ==
  /\ FrameCount \in Nat \ {0}
  /\ 2 * FrameCount < Modulus
  /\ StartFrame = 0
  /\ {TailTicks, DrainTicks} \subseteq Nat
  /\ CheckpointEvery \in Nat \ {0}
  /\ FrameCount + TailTicks + DrainTicks <= LastTick
  /\ Variants \subseteq SUBSET Players
  /\ \A player \in Players : \A position \in 0 .. FrameCount - 1 :
       Script(player, position) \in Buttons \ InvalidButtons
  /\ MaxPacketBytes = LargestPacket
  /\ HeaderSize + PayloadSize("input", Redundancy, Redundancy) + ChecksumSize
       <= LargestPacket

VARIABLES
  live,      \* LiveScenario::Storage
  faulty     \* the peers whose session runs damage_bias

vars == <<live, faulty>>

NoReport == [success |-> FALSE, diagnostic |-> NoFrame]

NewLive ==
  [peer       |-> [p \in Players |-> NewSession(p)],
   window     |-> [p \in Players |-> NewWindow],
   tracker    |-> [p \in Players |-> NoFrame],   \* earliest_divergent_frame
   divergent  |-> {},                            \* (history) all divergent frames seen
   corrected  |-> [p \in Players |-> FALSE],     \* corrections[p].result.performed
   history    |-> [p \in Players |-> <<>>],
   direct     |-> InitialWorld,                  \* replay_state
   checkpoints |-> {},
   transport  |-> NewTransport,
   sequence   |-> 1,                             \* sequence_a = sequence_b
   tick       |-> 0,
   finished   |-> FALSE,
   failure    |-> "ok",
   report     |-> NoReport]

(* Mutant: the hash leaves out the part of the state the fault changes. *)
PartialHashOf(p, world) == [world |-> world, biased |-> FALSE]

(* hash_canonical of a world that peer p simulated. *)
HashOf(p, world) == [world |-> world, biased |-> p \in faulty /\ Hits(world)]

(* ... and of one that the canonical rules produced. *)
CanonicalHash(world) == [world |-> world, biased |-> FALSE]

Fail(l, error) == [l EXCEPT !.failure = error]

-----------------------------------------------------------------------------
(* make_packet *)

(* window_from: the last Redundancy inputs, with their frames. *)
WindowFrom(p, history) ==
  LET count == Min({Len(history), Redundancy})
  IN  [i \in 1 .. count |->
         [frame   |-> FrameOffset(StartFrame, Len(history) - count + i - 1),
          player  |-> p,
          buttons |-> history[Len(history) - count + i]]]

(* Back from the confirmed boundary to the first hash not at hand, and     *)
(* then reversed.                                                          *)
ConfirmedHashes(p, session) ==
  LET Boundary(k) == FrameOffset(session.confirmed, -k)
      AtHand(k) == HashAt(session, Boundary(k)).error = "ok"
      count == Cardinality({k \in 0 .. Redundancy - 1 : \A j \in 0 .. k : AtHand(j)})
  IN  [i \in 1 .. count |->
         LET frame == Boundary(count - i)
         IN  [frame |-> frame, hash |-> HashOf(p, HashAt(session, frame).value)]]

MakePacket(l, p) ==
  [version |-> "current", type |-> "input", sender |-> p, sequence |-> l.sequence,
   inputs |-> WindowFrom(p, l.history[p]), hashes |-> ConfirmedHashes(p, l.peer[p]),
   hello |-> FALSE]

-----------------------------------------------------------------------------
(* process_delivery *)

IngestAll(session, inputs) ==
  Lists!FoldLeft(LAMBDA result, input :
                   IF result.error # "ok" THEN result
                   ELSE IngestRemote(result.session, input.player, input.frame, input.buttons),
                 Result(session, "ok"), inputs)

(* The boundaries whose received hash is not the receiver's own, and of    *)
(* which the receiver still has the state.                                 *)
Divergent(p, session, hashes) ==
  {h.frame : h \in {h \in Lists!ToSet(hashes) :
                      /\ HashAt(session, h.frame).error = "ok"
                      /\ HashOf(p, HashAt(session, h.frame).value) # h.hash
                      /\ StateAt(session, h.frame).error = "ok"}}

(* DesyncTracker::observe for each of them, in any order: the earliest is  *)
(* kept.                                                                   *)
ObserveDesync(tracker, frames) ==
  LET known == frames \union ({tracker} \ {NoFrame})
  IN  IF known = {} THEN NoFrame
      ELSE CHOOSE f \in known : \A g \in known : g = f \/ FrameBefore(f, g)

(* Mutant: the event of a tick is the one of its last delivery. *)
ReportedByTheLast(l, p, before, after) ==
  [l.corrected EXCEPT ![p] = after.metrics.rollbacks > before.metrics.rollbacks]

(* The correction event of a peer: set when a flush performs a correction. *)
Reported(l, p, before, after) ==
  [l.corrected EXCEPT ![p] = @ \/ after.metrics.rollbacks > before.metrics.rollbacks]

ProcessDelivery(l, datagram) ==
  LET packet   == Decoded(datagram)
      p        == OtherPlayer(packet.sender)
      seen     == Observe(l.window[p], packet.sequence)
      windowed == [l EXCEPT !.window[p] = seen.window]
      ingested == IngestAll(l.peer[p], packet.inputs)
      flushed  == FlushCorrections(ingested.session)
      kept     == [windowed EXCEPT !.peer[p] = flushed.session]
      frames   == Divergent(p, flushed.session, packet.hashes)
  IN  IF DecodeError(datagram) # "ok" THEN Fail(l, DecodeError(datagram))
      ELSE IF seen.disposition \notin Accepting THEN windowed
      ELSE IF ingested.error # "ok"
      THEN Fail([windowed EXCEPT !.peer[p] = ingested.session], ingested.error)
      ELSE IF flushed.error # "ok" THEN Fail(kept, flushed.error)
      ELSE [kept EXCEPT
             !.corrected = Reported(l, p, ingested.session, flushed.session),
             !.tracker[p] = ObserveDesync(@, frames),
             !.divergent = @ \union frames]

(* process_tick: the deliveries in order, up to the first failure. *)
ProcessTick(l) ==
  LET deliveries == Deliverable(l.transport, l.tick)
  IN  Lists!FoldLeft(LAMBDA m, delivery :
                       IF m.failure # "ok" THEN m ELSE ProcessDelivery(m, delivery.packet),
                     [l EXCEPT !.transport = Deliver(@, l.tick)], deliveries)

-----------------------------------------------------------------------------
(* step_once *)

(* send_packet: what may come of it. *)
SendPacket(t, packet, now) ==
  IF EncodeError(packet) # "ok" THEN {SendResult(t, EncodeError(packet))}
  ELSE {Send(t, Encoded(packet), now, draw) : draw \in Draws}

(* Both packets are made before either is sent, and both are sent before   *)
(* the first error is reported: what the transport may be left as.         *)
SendBoth(l) ==
  LET packetA == MakePacket(l, "a")
      packetB == MakePacket(l, "b")
      Sent(first, second) ==
        [l EXCEPT !.sequence = (@ + 1) % SequenceModulus,
                  !.transport = second.transport,
                  !.failure = IF first.error # "ok" THEN first.error ELSE second.error]
  IN  IF l.failure # "ok" THEN {l}
      ELSE UNION {{Sent(first, second) : second \in SendPacket(first.transport, packetB, l.tick)} :
                    first \in SendPacket(l.transport, packetA, l.tick)}

(* The frame's inputs are recorded and the canonical game moves on. *)
RecordFrame(l, pair) ==
  LET direct   == SimulateFrame(l.direct, pair)
      recorded == [l EXCEPT !.history = [p \in Players |-> Append(@[p], pair[p])]]
  IN  IF SimulateFails(l.direct, pair) THEN Fail(recorded, "arithmetic_overflow")
      ELSE [recorded EXCEPT
        !.direct = direct,
        !.checkpoints =
           IF direct.frame % CheckpointEvery = 0 \/ direct.frame = FrameCount
           THEN @ \union {[frame |-> direct.frame, hash |-> CanonicalHash(direct)]} ELSE @]

(* Both peers are advanced, whatever the first reports. *)
AdvanceBoth(l, pair) ==
  LET advanced == [p \in Players |-> Advance(l.peer[p], p, l.direct.frame - 1, pair[p])]
  IN  [l EXCEPT !.peer = [p \in Players |-> advanced[p].session],
                !.failure = IF advanced["a"].error # "ok" THEN advanced["a"].error
                            ELSE advanced["b"].error]

(* verify_replay: the recorded inputs lead to every checkpoint and to the  *)
(* expected hash.                                                          *)
ReplayVerified(l) ==
  LET Played[n \in 0 .. FrameCount] ==
        IF n = 0 THEN InitialWorld
        ELSE SimulateFrame(Played[n - 1], [p \in Players |-> l.history[p][n]])
  IN  /\ \A c \in l.checkpoints : CanonicalHash(Played[c.frame]) = c.hash
      /\ CanonicalHash(Played[FrameCount]) = CanonicalHash(l.direct)

(* Mutant: the diagnostic of peer a is preferred to an earlier one of b. *)
DiagnosticOfA(l) ==
  IF l.tracker["a"] # NoFrame THEN l.tracker["a"] ELSE l.tracker["b"]

(* The earlier of the two diagnostics. *)
Diagnostic(l) ==
  IF l.tracker["a"] = NoFrame THEN l.tracker["b"]
  ELSE IF l.tracker["b"] = NoFrame \/ ~ FrameBefore(l.tracker["b"], l.tracker["a"])
  THEN l.tracker["a"]
  ELSE l.tracker["b"]

Finalize(l) ==
  LET flushed   == [p \in Players |-> FlushCorrections(l.peer[p])]
      peer      == [p \in Players |-> flushed[p].session]
      hash      == [p \in Players |-> HashOf(p, peer[p].world)]
      confirmed == IF FrameBefore(peer["a"].confirmed, peer["b"].confirmed)
                   THEN peer["a"].confirmed ELSE peer["b"].confirmed
      success   == /\ confirmed = FrameCount
                   /\ hash["a"] = hash["b"]
                   /\ hash["a"] = CanonicalHash(l.direct)
                   /\ ReplayVerified(l)
                   /\ Diagnostic(l) = NoFrame
      written   == [l EXCEPT !.peer = peer,
                             !.report = [success |-> success, diagnostic |-> Diagnostic(l)]]
      refused   == {p \in Players : flushed[p].error # "ok"}
  IN  IF refused # {}
      THEN Fail([l EXCEPT !.peer = peer],
                flushed[IF "a" \in refused THEN "a" ELSE "b"].error)
      ELSE IF success \/ Diagnostic(l) # NoFrame
      THEN [written EXCEPT !.finished = TRUE]
      ELSE Fail(written, IF confirmed # FrameCount THEN "timeout" ELSE "replay_mismatch")

LastStep == FrameCount + TailTicks + DrainTicks

(* Mutant: the result is written one tick late. *)
TickedPastTheEnd(l) ==
  LET next == [l EXCEPT !.tick = @ + 1]
  IN  IF l.failure # "ok" THEN l
      ELSE IF next.tick > LastStep THEN Finalize(next) ELSE next

(* The end of a tick that did not fail. *)
Ticked(l) ==
  LET next == [l EXCEPT !.tick = @ + 1]
  IN  IF l.failure # "ok" THEN l
      ELSE IF next.tick = LastStep THEN Finalize(next) ELSE next

Delivered(l) == IF l.failure # "ok" THEN l ELSE ProcessTick(l)

Begun(l) == [l EXCEPT !.corrected = [p \in Players |-> FALSE]]

Running(l) == l.failure = "ok" /\ ~ l.finished

(* A tick that plays a frame. *)
PlayFrame(buttons) ==
  LET pair == [p \in Players |-> IF p = "a" THEN buttons ELSE Script(p, live.tick)]
      Played(l) == IF l.failure # "ok" THEN l ELSE AdvanceBoth(l, pair)
  IN  /\ Running(live)
      /\ live.tick < FrameCount
      /\ \E sent \in SendBoth(RecordFrame(Begun(live), pair)) :
           live' = Ticked(Played(Delivered(sent)))
      /\ UNCHANGED faulty

(* A tick of the tail. *)
SendAgain ==
  /\ Running(live)
  /\ live.tick \in FrameCount .. FrameCount + TailTicks - 1
  /\ \E sent \in SendBoth(Begun(live)) : live' = Ticked(Delivered(sent))
  /\ UNCHANGED faulty

(* A tick that only delivers. *)
DrainOnly ==
  /\ Running(live)
  /\ live.tick >= FrameCount + TailTicks
  /\ live.tick < LastTick
  /\ live' = Ticked(Delivered(Begun(live)))
  /\ UNCHANGED faulty

(* A button mask with reserved bits is refused before anything changes. *)
RefuseButtons(buttons) ==
  /\ Running(live)
  /\ buttons \in InvalidButtons
  /\ UNCHANGED vars

(* step on a scenario that has failed or finished only repeats the result. *)
RepeatResult ==
  /\ ~ Running(live)
  /\ UNCHANGED vars

Init ==
  /\ live = NewLive
  /\ faulty \in Variants

(* LiveScenario::step, with local buttons of player a or the script's. *)
Step ==
  \/ \E buttons \in Buttons \ InvalidButtons : PlayFrame(buttons)
  \/ SendAgain
  \/ DrainOnly

Next ==
  \/ Step
  \/ \E buttons \in InvalidButtons : RefuseButtons(buttons)
  \/ RepeatResult

Spec == Init /\ [][Next]_vars

(* run_seeded_scenario, and the C ABI's callers, step until the result:    *)
(* weak fairness of Step, which is possible exactly while the scenario     *)
(* runs, written without ENABLED, whose evaluation repeats the whole tick. *)
KeepsStepping == []<>(~ Running(live)) \/ []<><<live' # live>>_vars

FairSpec == Spec /\ KeepsStepping

-----------------------------------------------------------------------------
(* Properties *)

(* The most a packet is delayed. *)
MaxDelay == Latency + Jitter + Max({0} \union RankDraws)

(* Is an input that is sent for the last time delivered while it is still  *)
(* within the rollback window?  The redundancy and the delay have to fit   *)
(* the window, and the budget of a tick the packets that are on their way, *)
(* at most two from each peer for every tick of the delay.                 *)
InTime ==
  /\ Redundancy <= MaxRollback
  /\ Redundancy + MaxDelay <= MaxRollback + 1
  /\ 4 * LargestPacket * (MaxDelay + 1) <= Bandwidth

(* What a run of two canonical peers may report: a queue that overflows,   *)
(* or inputs that were lost too often.  Rolling back, delay, loss and      *)
(* repetition never make the peers' results differ, never raise a desync,  *)
(* and make a repeated input too old only if it was not in time (step_once,*)
(* finalize).                                                              *)
HonestRunsOnlyTimeOut ==
  faulty = {} /\ ~ InvalidPercent =>
    /\ live.divergent = {}
    /\ live.failure \in {"ok", "timeout", "queue_overflow"}
         \union (IF InTime THEN {} ELSE {"rollback_window_exceeded"})

(* A successful report means that no peer ran other rules and that both    *)
(* have simulated every frame as recorded (finalize looks at the smaller   *)
(* confirmed frame and at hashes only).                                    *)
SuccessIsGenuine ==
  live.report.success =>
    \A p \in Players :
      /\ live.peer[p].world = live.direct
      /\ p \in faulty => ~ Hits(live.peer[p].world)

(* The diagnostic of the artifacts is the earliest divergence that either  *)
(* peer's tracker was shown, however the packets came.                     *)
DiagnosticIsEarliest ==
  live.finished /\ live.divergent # {} =>
    /\ live.report.diagnostic \in live.divergent
    /\ \A frame \in live.divergent : ~ FrameBefore(frame, live.report.diagnostic)

(* A step shows a correction of a peer exactly if the peer rolled back in  *)
(* it, be it in a delivery, in advance or in the last flush.               *)
RollbacksAreReported ==
  [][live'.tick # live.tick =>
       \A p \in Players :
         live'.corrected[p] <=>
           live'.peer[p].metrics.rollbacks > live.peer[p].metrics.rollbacks]_vars

(* Stepping ends: the result is there after FrameCount + TailTicks +       *)
(* DrainTicks ticks, so the loop of run_seeded_scenario never runs out.    *)
EveryRunEnds == <>(~ Running(live) /\ live.tick <= LastStep)
====
