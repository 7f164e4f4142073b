---- MODULE PacketCodec ----
(***************************************************************************)
(* Packets and the datagrams they become (src/protocol/codec.cpp).         *)
(*                                                                         *)
(* A datagram is what its header says, the records behind the header, its  *)
(* length in bytes, and whether its checksum fits; the order of the bytes  *)
(* is left out.  The fields that no receiver in the process looks at (ack, *)
(* scenario_id, confirmed_frame, an input's sequence) are left out too.    *)
(***************************************************************************)
EXTENDS FrameNumber, Sequences

CONSTANTS
  Redundancy,        \* kMaxRedundantInputs and kMaxConfirmedHashes, 32
  InvalidButtons     \* button masks with reserved bits, & 0xE0

ASSUME CodecAssumption == Redundancy \in Nat

PacketTypes == {"hello", "input", "state_hash", "goodbye"}

HeaderSize == 32

ChecksumSize == 4

LargestPacket == 1200   \* kMaxPacketBytes

(* The bytes of the records of so many inputs and hashes. *)
PayloadSize(type, inputCount, hashCount) ==
  10 * inputCount + 12 * hashCount + (IF type = "hello" THEN 16 ELSE 0)

(* Hashes are of later and later frames. *)
HashesAreOrdered(hashes) ==
  \A i \in 2 .. Len(hashes) : FrameBefore(hashes[i - 1].frame, hashes[i].frame)

-----------------------------------------------------------------------------
(* encode_packet *)

EncodeError(packet) ==
  LET bytes == PayloadSize(packet.type, Len(packet.inputs), Len(packet.hashes))
      isHello == packet.type = "hello"
  IN  IF packet.version # "current" THEN "unsupported_version"
      ELSE IF packet.type \notin PacketTypes THEN "unknown_packet_type"
      ELSE IF Len(packet.inputs) > Redundancy \/ Len(packet.hashes) > Redundancy
      THEN "capacity_exceeded"
      ELSE IF \/ isHello # packet.hello
              \/ isHello /\ (packet.inputs # <<>> \/ packet.hashes # <<>>)
              \/ \E i \in 1 .. Len(packet.inputs) : packet.inputs[i].player # packet.sender
              \/ ~ HashesAreOrdered(packet.hashes)
      THEN "invalid_argument"
      ELSE IF HeaderSize + bytes + ChecksumSize > LargestPacket THEN "invalid_length"
      ELSE "ok"

Encoded(packet) ==
  LET bytes == PayloadSize(packet.type, Len(packet.inputs), Len(packet.hashes))
  IN  [magic |-> TRUE, version |-> packet.version, type |-> packet.type,
       sender |-> packet.sender, sequence |-> packet.sequence,
       inputCount |-> Len(packet.inputs), hashCount |-> Len(packet.hashes), payload |-> bytes,
       inputs |-> packet.inputs, hashes |-> packet.hashes,
       intact |-> TRUE, size |-> HeaderSize + bytes + ChecksumSize]

-----------------------------------------------------------------------------
(* decode_packet *)

DecodeError(datagram) ==
  LET d == datagram
      expected == PayloadSize(d.type, d.inputCount, d.hashCount)
  IN  IF d.size < HeaderSize + ChecksumSize THEN "truncated_data"
      ELSE IF d.size > LargestPacket THEN "invalid_length"
      ELSE IF ~ d.intact THEN "integrity_mismatch"
      ELSE IF ~ d.magic THEN "invalid_magic"
      ELSE IF d.version # "current" THEN "unsupported_version"
      ELSE IF d.type \notin PacketTypes THEN "unknown_packet_type"
      ELSE IF d.sender \notin {"a", "b"} THEN "invalid_argument"
      ELSE IF d.inputCount > Redundancy \/ d.hashCount > Redundancy THEN "capacity_exceeded"
      ELSE IF d.payload # expected \/ HeaderSize + expected + ChecksumSize # d.size
      THEN "invalid_length"
      ELSE IF \/ \E i \in 1 .. d.inputCount : \/ d.inputs[i].player # d.sender
                                              \/ d.inputs[i].buttons \in InvalidButtons
              \/ ~ HashesAreOrdered(d.hashes)
              \/ d.type = "hello" /\ d.inputCount + d.hashCount # 0
      THEN "invalid_argument"
      ELSE "ok"

Decoded(d) ==
  [version |-> d.version, type |-> d.type, sender |-> d.sender, sequence |-> d.sequence,
   inputs |-> d.inputs, hashes |-> d.hashes, hello |-> d.type = "hello"]
====
