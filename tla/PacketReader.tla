---------------------------- MODULE PacketReader ----------------------------
(***************************************************************************)
(* ryulib/SocketUtils.hpp: create_packet, and the PacketReader that cuts a *)
(* stream back into packets.  A byte is <<packet, place, packet_size>>,    *)
(* the packet it belongs to, its place there, and the packet_size that the *)
(* header says; Garbage is one whose memory was gone when it was written.  *)
(* The header has HeaderSize bytes and packet_size is unsigned with        *)
(* Modulus values; the capacity of buffer_ is left out.                    *)
(***************************************************************************)
EXTENDS Integers, SequencesExt

CONSTANTS
  HeaderSize, \* HEADER_SIZE
  Modulus     \* 65536, of an unsigned short

ASSUME PacketAssumption == HeaderSize \in Nat \ {0} /\ Modulus \in Nat /\ Modulus > HeaderSize

VARIABLES
  bytes,  \* buffer_, its first size_ bytes
  heard,  \* history: the packets read, each with its bytes
  garbled \* history: what is in front of buffer_ is not the header of a packet

Garbage == <<0, 0, 0>>

(* create_packet, and the packet_size bytes of it that are sent *)
CreatePacket(p, size) ==
  LET packetSize == (size + HeaderSize) % Modulus IN
  [i \in 1 .. packetSize |-> <<p, i, packetSize>>]

(* without the cut to an unsigned short *)
WholePacket(p, size) ==
  [i \in 1 .. size + HeaderSize |-> <<p, i, size + HeaderSize>>]

ReaderInit == bytes = <<>> /\ heard = <<>> /\ garbled = FALSE

Clear == bytes' = <<>>

Write(chunk) == bytes' = bytes \o chunk

HeaderInFront ==
  \A i \in 1 .. HeaderSize :
    bytes[i] # Garbage /\ bytes[i][1] = bytes[1][1] /\ bytes[i][2] = i

CanRead == bytes[1][3] <= Len(bytes)

Read_KeepMutant ==
  /\ Len(bytes) >= HeaderSize /\ ~garbled
  /\ IF HeaderInFront
     THEN /\ CanRead
          /\ heard' = Append(heard, SubSeq(bytes, 1, bytes[1][3]))
          /\ bytes' = SubSeq(bytes, bytes[1][3], Len(bytes))
          /\ UNCHANGED garbled
     ELSE garbled' = TRUE /\ UNCHANGED <<bytes, heard>>

(* a read() that returns a packet; past a header that is none, what it        *)
(* returns says nothing any more                                             *)
Read ==
  /\ Len(bytes) >= HeaderSize /\ ~garbled
  /\ IF HeaderInFront
     THEN /\ CanRead
          /\ heard' = Append(heard, SubSeq(bytes, 1, bytes[1][3]))
          /\ bytes' = SubSeq(bytes, bytes[1][3] + 1, Len(bytes))
          /\ UNCHANGED garbled
     ELSE garbled' = TRUE /\ UNCHANGED <<bytes, heard>>
=============================================================================
