---- MODULE UdpPeers ----
(***************************************************************************)
(* Two PeerDrivers (src/udp/peer.cpp), each with its RollbackSession and   *)
(* its SequenceWindow, that play FrameCount scripted frames over loopback  *)
(* UDP through the relay (src/udp/relay.cpp).                              *)
(*                                                                         *)
(* The drivers run in two processes.  A step of a driver is one action     *)
(* where it reads its socket before it sends, and two where it sends first,*)
(* because the answer to what it sent may arrive before it reads.  How     *)
(* much of what was sent has reached the driver is chosen in every step.   *)
(***************************************************************************)
EXTENDS RollbackSession, SequenceWindow, Sequences

Lists == INSTANCE SequencesExt

CONSTANTS
  FrameCount,        \* config.frame_count
  Script(_, _),      \* scripted_input(seed, frame, player): the buttons
  Redundancy,        \* kMaxRedundantInputs and kMaxConfirmedHashes, 32
  DrainBatch,        \* packets drained in a step, 64
  FinalDrain,        \* steps of the final drain, 16
  Variants,          \* the sets of peers that may run SimulationVariant::damage_bias
  Hits(_),           \* does damage_bias change the state a world stands for?
  Mismatches,        \* the sets of peers whose hello the other may refuse
  MayTimeOut,        \* do the drivers' deadlines pass?
  NetworkFaults,     \* what the network does: "lose", "duplicate", "reorder"
  FaultLimit,        \* bound: faults of the network
  ChannelCapacity    \* bound: packets on their way to a peer

ASSUME PeersAssumption ==
  /\ FrameCount \in Nat \ {0}
  /\ FrameCount <= Capacity
  /\ StartFrame = 0
  /\ 2 * (FrameCount + 1) < Modulus
  /\ \A player \in Players : \A position \in 0 .. FrameCount - 1 :
       Script(player, position) \in Buttons
  /\ {Redundancy, DrainBatch, FinalDrain} \subseteq Nat
  /\ SequenceModulus > 2
  /\ Variants \subseteq SUBSET Players
  /\ Mismatches \subseteq SUBSET Players
  /\ NetworkFaults \subseteq {"lose", "duplicate", "reorder"}
  /\ ChannelCapacity \in Nat \ {0, 1}

VARIABLES
  driver,       \* per player: its PeerDriver and the session it borrows
  channel,      \* per player: the packets on their way to it, in order
  faulty,       \* the players that run SimulationVariant::damage_bias
  mismatched,   \* the players that advertise another version or scenario
  faults        \* faults of the network so far

vars == <<driver, channel, faulty, mismatched, faults>>

(* A driver's phase is its PeerPhase, "absent" before create, or one of the *)
(* two points between sending and reading of a handshake step ("greeted")  *)
(* and of a confirming step ("resent").                                     *)
NewDriver(p) ==
  [phase       |-> "absent",
   session     |-> NewSession(p),
   sequences   |-> NewWindow,
   history     |-> 0,       \* local_history: the frames [0, history)
   remoteFinal |-> {},      \* remote_final_hash, if any
   next        |-> 2,       \* next_sequence
   drained     |-> 0,       \* final_drain_progress
   error       |-> "ok"]

Failed(d, error) == [d EXCEPT !.phase = "failed", !.error = error]

(* A driver whose process reads its socket. *)
Listening(d) == d.phase \notin {"absent", "finished", "failed"}

(* Mutant: the hash leaves out the part of the state the fault changes. *)
PartialHashOf(p, world) == [world |-> world, biased |-> FALSE]

(* hash_canonical of a world that peer p simulated. *)
HashOf(p, world) == [world |-> world, biased |-> p \in faulty /\ Hits(world)]

-----------------------------------------------------------------------------
(* Packets *)

HelloPacket(p) == [type |-> "hello", sender |-> p]

(* input_window: the last Redundancy inputs. *)
InputWindow(d) ==
  LET count == IF d.history < Redundancy THEN d.history ELSE Redundancy
  IN  [i \in 1 .. count |-> d.history - count + i - 1]

(* Mutant: the window starts at the current boundary, confirmed or not. *)
HashWindowOfState(p, d) ==
  LET Boundary(k) == FrameOffset(d.session.world.frame, -k)
      sent == {k \in 0 .. Redundancy - 1 : Contains(d.session.hashes, Boundary(k))}
  IN  {[frame |-> Boundary(k), hash |-> HashOf(p, Get(d.session.hashes, Boundary(k)))] :
         k \in sent}

(* confirmed_hash_window: back from the confirmed boundary to the first    *)
(* one whose hash is not at hand.                                          *)
ConfirmedHashWindow(p, d) ==
  LET Boundary(k) == FrameOffset(d.session.confirmed, -k)
      AtHand(k) == HashAt(d.session, Boundary(k)).error = "ok"
  IN  {[frame |-> Boundary(k), hash |-> HashOf(p, HashAt(d.session, Boundary(k)).value)] :
         k \in {k \in 0 .. Redundancy - 1 : \A j \in 0 .. k : AtHand(j)}}

InputPacket(p, d) ==
  [type |-> "input", sender |-> p, sequence |-> d.next,
   inputs |-> InputWindow(d), hashes |-> ConfirmedHashWindow(p, d)]

(* What waits for a peer after a hello is sent to it.  A hello behind a    *)
(* hello changes nothing and is left out.                                  *)
WithHello(packets, p) ==
  IF packets # <<>> /\ packets[Len(packets)].type = "hello"
  THEN packets ELSE Append(packets, HelloPacket(p))

(* What waits for a peer after an input packet is sent to it.  When        *)
(* ChannelCapacity packets wait, the new one takes the place and the       *)
(* number of the last of them, which is lost.                              *)
WithInput(packets, packet) ==
  IF Len(packets) < ChannelCapacity THEN Append(packets, packet)
  ELSE LET last == Lists!Last(packets)
       IN  IF last.type = "hello" THEN packets
           ELSE Append(Lists!Front(packets), [packet EXCEPT !.sequence = last.sequence])

-----------------------------------------------------------------------------
(* receive_one: what a packet does to a running or confirming driver *)

(* ingest_remote for every input, up to the first it refuses. *)
Ingested(session, sender, inputs) ==
  LET after[i \in 0 .. Len(inputs)] ==
        IF i = 0 THEN Result(session, "ok")
        ELSE LET before == after[i - 1]
             IN  IF before.error # "ok" THEN before
                 ELSE IngestRemote(before.session, sender,
                                   FrameOffset(StartFrame, inputs[i]),
                                   Script(sender, inputs[i]))
  IN  after[Len(inputs)]

(* The received hashes of boundaries that this peer has confirmed too. *)
Compared(d, hashes) ==
  {h \in hashes : HashAt(d.session, h.frame).error = "ok"}

(* Mutant: differing hashes are not reported. *)
CompareFinalHashOnly(p, d, hashes) ==
  LET final == {h.hash : h \in {h \in Compared(d, hashes) : h.frame = FrameCount}}
  IN  IF final # {} THEN [d EXCEPT !.remoteFinal = final] ELSE d

CompareHashes(p, d, hashes) ==
  LET compared == Compared(d, hashes)
      differing == {h \in compared : HashOf(p, HashAt(d.session, h.frame).value) # h.hash}
      final == {h.hash : h \in {h \in compared : h.frame = FrameCount}}
  IN  IF differing # {} THEN Failed(d, "desync")
      ELSE IF final # {} THEN [d EXCEPT !.remoteFinal = final]
      ELSE d

ReceiveInput(p, d, packet) ==
  LET observed == Observe(d.sequences, packet.sequence)
      seen     == [d EXCEPT !.sequences = observed.window]
      ingested == Ingested(d.session, packet.sender, packet.inputs)
      flushed  == FlushCorrections(ingested.session)
  IN  IF observed.disposition \notin Accepting THEN seen
      ELSE IF ingested.error # "ok"
      THEN Failed([seen EXCEPT !.session = ingested.session], ingested.error)
      ELSE IF flushed.error # "ok"
      THEN Failed([seen EXCEPT !.session = flushed.session], flushed.error)
      ELSE CompareHashes(p, [seen EXCEPT !.session = flushed.session], packet.hashes)

(* A hello that comes again is validated again and otherwise ignored. *)
Receive(p, d, packet) ==
  IF packet.type = "hello"
  THEN IF packet.sender \in mismatched THEN Failed(d, "hello_refused") ELSE d
  ELSE ReceiveInput(p, d, packet)

(* drain_available: the first packets of the channel, up to a failure. *)
Drained(p, d, count) ==
  LET after[i \in 0 .. count] ==
        IF i = 0 THEN d
        ELSE LET before == after[i - 1]
             IN  IF before.phase = "failed" THEN before
                 ELSE Receive(p, before, channel[p][i])
  IN  after[count]

Arrivals(p) == 0 .. (IF Len(channel[p]) < DrainBatch THEN Len(channel[p]) ELSE DrainBatch)

-----------------------------------------------------------------------------
(* The steps of a driver *)

Init ==
  /\ driver = [p \in Players |-> NewDriver(p)]
  /\ channel = [p \in Players |-> <<>>]
  /\ faulty \in Variants
  /\ mismatched \in Mismatches
  /\ faults = 0

(* PeerDriver::create binds the socket: packets sent before are lost. *)
Start(p) ==
  /\ driver[p].phase = "absent"
  /\ driver' = [driver EXCEPT ![p].phase = "handshake"]
  /\ UNCHANGED <<channel, faulty, mismatched, faults>>

(* The driver of p becomes d, with the first packets of its channel read   *)
(* and the other's channel replaced.  Nobody reads the socket of a driver  *)
(* that has stopped: what waits there, or is sent there, is lost.  The     *)
(* session's counters, which only the report shows, are not kept.          *)
Becomes(p, d, count, sent) ==
  /\ driver' = [driver EXCEPT ![p] = [d EXCEPT !.session.metrics = NewSession(p).metrics]]
  /\ channel' = [q \in Players |->
                   IF ~ Listening(driver'[q]) THEN <<>>
                   ELSE IF q = p THEN SubSeq(channel[p], count + 1, Len(channel[p]))
                   ELSE sent]
  /\ UNCHANGED <<faulty, mismatched, faults>>

Waiting(p) == channel[OtherPlayer(p)]

HandshakeSend(p) ==
  /\ driver[p].phase = "handshake"
  /\ Becomes(p, [driver[p] EXCEPT !.phase = "greeted"], 0, WithHello(Waiting(p), p))

(* valid_hello on the one packet that the step may receive, acknowledged   *)
(* with a last hello.                                                      *)
HandshakeReceive(p, count) ==
  LET d == driver[p]
      packet == Head(channel[p])
  IN  /\ d.phase = "greeted"
      /\ count \in Arrivals(p) \intersect {0, 1}
      /\ IF count = 0
         THEN Becomes(p, [d EXCEPT !.phase = "handshake"], 0, Waiting(p))
         ELSE IF packet.type # "hello"
         THEN Becomes(p, Failed(d, "hello_identity"), 1, Waiting(p))
         ELSE IF packet.sender \in mismatched
         THEN Becomes(p, Failed(d, "hello_refused"), 1, Waiting(p))
         ELSE Becomes(p, [d EXCEPT !.phase = "running"], 1, WithHello(Waiting(p), p))

(* send_inputs: the packet is numbered, unless it takes another's number.  *)
Numbered(p, d) ==
  IF Len(Waiting(p)) < ChannelCapacity
  THEN [d EXCEPT !.next = (@ + 1) % SequenceModulus] ELSE d

(* Drain, give the next local input, advance, send. *)
RunningStep(p, count) ==
  LET d        == Drained(p, driver[p], count)
      frame    == d.session.world.frame
      advanced == Advance(d.session, p, frame, Script(p, d.history))
      given    == [d EXCEPT !.history = @ + 1, !.session = advanced.session]
      ready    == [given EXCEPT !.phase = IF given.session.world.frame = FrameCount
                                          THEN "confirming" ELSE @]
  IN  /\ driver[p].phase = "running"
      /\ count \in Arrivals(p)
      /\ IF d.phase = "failed" THEN Becomes(p, d, count, Waiting(p))
         ELSE IF advanced.error # "ok"
         THEN Becomes(p, Failed(given, advanced.error), count, Waiting(p))
         ELSE Becomes(p, Numbered(p, ready), count,
                      WithInput(Waiting(p), InputPacket(p, given)))

(* build_peer_artifacts: the replay needs every confirmed input, and the   *)
(* report a confirmed final hash of the other peer equal to one's own.     *)
Artifacts(p, d) ==
  IF \E position \in 0 .. FrameCount - 1, player \in Players :
       ConfirmedInput(d.session, player, FrameOffset(StartFrame, position)).error # "ok"
  THEN "stale_frame"
  ELSE IF d.remoteFinal # {HashOf(p, d.session.world)} THEN "replay_mismatch"
  ELSE "ok"

Complete(d) == d.session.confirmed = FrameCount /\ d.remoteFinal # {}

(* Mutant: the peer leaves as soon as it knows the result. *)
CompletedAtOnce(p, d) ==
  IF ~ Complete(d) THEN d
  ELSE IF Artifacts(p, d) # "ok" THEN Failed(d, Artifacts(p, d))
  ELSE [d EXCEPT !.phase = "finished"]

(* Mutant: the peer does not wait for the other's final hash. *)
CompletedAlone(p, d) ==
  IF d.session.confirmed # FrameCount THEN [d EXCEPT !.drained = 0]
  ELSE IF d.drained + 1 < FinalDrain THEN [d EXCEPT !.drained = @ + 1]
  ELSE [d EXCEPT !.phase = "finished", !.drained = @ + 1]

(* The end of a confirming step: one more step of the final drain, or none *)
(* of it.                                                                  *)
Completed(p, d) ==
  IF ~ Complete(d) THEN [d EXCEPT !.drained = 0]
  ELSE IF d.drained + 1 < FinalDrain THEN [d EXCEPT !.drained = @ + 1]
  ELSE IF Artifacts(p, d) # "ok" THEN Failed(d, Artifacts(p, d))
  ELSE [d EXCEPT !.phase = "finished", !.drained = @ + 1]

ConfirmingSend(p) ==
  /\ driver[p].phase = "confirming"
  /\ Becomes(p, Numbered(p, [driver[p] EXCEPT !.phase = "resent"]), 0,
             WithInput(Waiting(p), InputPacket(p, driver[p])))

ConfirmingDrain(p, count) ==
  LET d == Drained(p, [driver[p] EXCEPT !.phase = "confirming"], count)
  IN  /\ driver[p].phase = "resent"
      /\ count \in Arrivals(p)
      /\ Becomes(p, IF d.phase = "failed" THEN d ELSE Completed(p, d), count, Waiting(p))

(* A step finds its deadline, of the handshake or of the run, passed. *)
TimeOut(p) ==
  /\ MayTimeOut
  /\ driver[p].phase \in {"handshake", "running", "confirming"}
  /\ Becomes(p, Failed(driver[p], "timeout"), 0, Waiting(p))

-----------------------------------------------------------------------------
(* The network *)

Fault(kind, p) ==
  /\ kind \in NetworkFaults
  /\ faults < FaultLimit
  /\ faults' = faults + 1
  /\ UNCHANGED <<driver, faulty, mismatched>>

Lose(p) ==
  /\ Fault("lose", p)
  /\ \E i \in 1 .. Len(channel[p]) :
       channel' = [channel EXCEPT ![p] = Lists!RemoveAt(@, i)]

Duplicate(p) ==
  /\ Fault("duplicate", p)
  /\ Len(channel[p]) < ChannelCapacity
  /\ \E i \in 1 .. Len(channel[p]) :
       channel' = [channel EXCEPT ![p] = Append(@, @[i])]

Reorder(p) ==
  /\ Fault("reorder", p)
  /\ \E i \in 2 .. Len(channel[p]) :
       channel' = [channel EXCEPT ![p] = Append(Lists!RemoveAt(@, i - 1), @[i - 1])]

Next ==
  \E p \in Players :
    \/ Start(p)
    \/ HandshakeSend(p)
    \/ \E count \in 0 .. 1 : HandshakeReceive(p, count)
    \/ \E count \in 0 .. DrainBatch : RunningStep(p, count)
    \/ ConfirmingSend(p)
    \/ \E count \in 0 .. DrainBatch : ConfirmingDrain(p, count)
    \/ TimeOut(p)
    \/ Lose(p)
    \/ Duplicate(p)
    \/ Reorder(p)

Spec == Init /\ [][Next]_vars

-----------------------------------------------------------------------------
(* Fairness, with the guards written out in place of ENABLED.  A process   *)
(* that runs keeps stepping its driver (run_peer loops until the driver    *)
(* stops), and a driver that keeps reading its socket reads at some time   *)
(* what has been sent to it: loopback delays a packet only finitely long.  *)

Active(p) == driver[p].phase \notin {"finished", "failed"}

KeepsStepping(p) == []<>(~ Active(p)) \/ []<><<driver'[p] # driver[p]>>_vars

Readable(p) == driver[p].phase \in {"greeted", "resent"} /\ channel[p] # <<>>

Reads(p) ==
  /\ Readable(p)
  /\ HandshakeReceive(p, 1) \/ ConfirmingDrain(p, Len(channel[p]))

KeepsReading(p) == <>[](~ Readable(p)) \/ []<><<Reads(p)>>_vars

FairSpec == Spec /\ \A p \in Players : KeepsStepping(p) /\ KeepsReading(p)

-----------------------------------------------------------------------------
(* Properties *)

(* The input pair of a frame of the script. *)
Truth(position) == [player \in Players |-> Script(player, position)]

(* The inputs in a world are the script's up to a boundary. *)
FollowsScript(world, boundary) ==
  \A frame \in FrameNumbers :
    Position(frame) < Position(boundary) => world.inputs[frame] = Truth(Position(frame))

(* Whatever the network does to the packets, what the two peers confirm    *)
(* is one game, the one of the scripted inputs (ingest_remote of redundant *)
(* windows, flush_corrections, update_confirmation).                       *)
ConfirmedGameIsTheScript ==
  \A p \in Players :
    FollowsScript(driver[p].session.world, driver[p].session.confirmed)

(* A peer that reports success has confirmed and verified the whole game,  *)
(* with a state the other peer confirmed too, though that one may still    *)
(* stop before it learns so.                                               *)
SuccessIsMutual ==
  \A p \in Players :
    driver[p].phase = "finished" =>
      \A q \in Players :
        /\ driver[q].session.confirmed = FrameCount
        /\ HashOf(q, driver[q].session.world) = HashOf(p, driver[p].session.world)

(* Peers that compute the same game never accuse each other: prediction,   *)
(* loss, duplication and delay cannot raise a desync (the hashes compared  *)
(* in receive_one are of boundaries both have confirmed).                  *)
NoFalseDesync ==
  faulty = {} => \A p \in Players : driver[p].error # "desync"

(* No peer finishes a game in which one of them, the faulty one, computed  *)
(* another state, and none with a peer of another version or scenario.     *)
NobodyFinishesApart ==
  \A p \in Players :
    driver[p].phase = "finished" =>
      /\ mismatched = {}
      /\ faulty # Players => \A q \in faulty : ~ Hits(driver[q].session.world)

(* The two peers are a lockstep game. *)
Game == INSTANCE Lockstep WITH
  Peers <- Players,
  produced <- [p \in Players |-> Position(driver[p].session.world.frame)],
  boundary <- [p \in Players |-> Position(driver[p].session.confirmed)],
  done <- [p \in Players |-> driver[p].phase = "finished"]

GameIsLockstep == Game!Spec

(* Over a network that keeps packets in order, peers that compute the same *)
(* game both finish if their steps are taken and packets arrive: nobody    *)
(* meets an input before the last hello of the handshake, and the final    *)
(* drain leaves the other the packets it needs.                            *)
BothFinish ==
  NetworkFaults = {} /\ faulty = {} /\ mismatched = {} =>
    <>(\A p \in Players : driver[p].phase = "finished")

(* A peer that computes another state, or that runs another version, is    *)
(* found out by the other one or by itself (receive_one, valid_hello): the *)
(* two do not run on until their deadline.                                 *)
DifferenceIsFound ==
  faulty # {} \/ mismatched # {} =>
    <>(\E p \in Players : driver[p].error \in {"desync", "hello_refused"})
====
