----------------------------- MODULE UdpReceive -----------------------------
(***************************************************************************)
(* Receiving on a UdpSocket (UdpSocket.cpp, Socket.cpp and the RX half of  *)
(* W5500.cpp).  The chip keeps received datagrams, each behind a header    *)
(* with its size, in a ring that it shares with the driver: the chip moves *)
(* the write pointer, the driver the read pointer, which the chip takes    *)
(* over with a RECV command.  Every SPI transaction of the driver is a     *)
(* step of its own, so a datagram may arrive between any two of them.      *)
(***************************************************************************)
EXTENDS RingPointers, SequencesExt

CONSTANTS
  HeaderSize, \* udp_header_size: 8
  Payloads    \* sizes of the datagrams that arrive

ASSUME RingAssumption ==
  /\ HeaderSize \in 1 .. RingSize
  /\ Payloads \subseteq Nat /\ Payloads # {}

VARIABLES
  ring,      \* the bytes of the RX buffer
  writePtr,  \* Sn_RX_WR
  readPtr,   \* Sn_RX_RD as the driver last set it
  freedPtr,  \* Sn_RX_RD as the chip last took it over with RECV
  pc,        \* where in which call the driver is
  target,    \* the read pointer a call in progress is about to set
  size,      \* the number of payload bytes a call in progress removes
  remaining, \* _packet_bytes_remaining
  reported   \* what read_packet_header last returned; NoPacket for -1

chipVars   == <<ring, writePtr, freedPtr>>
driverVars == <<readPtr, pc, target, size, remaining, reported>>
vars       == <<chipVars, driverVars>>

NoPacket == -1

\* A byte knows its datagram's size and its place in it; the first HeaderSize
\* places are the header.
Bytes == [place : Nat, of : Payloads]

IsStart(byte) == byte.place = 0

\* The bytes between two pointers, oldest first.
Span(from, to) ==
  [i \in 1 .. Distance(from, to) |-> ring[(from + i - 1) % RingSize]]

-----------------------------------------------------------------------------
(* The chip.                                                               *)

\* Sn_RX_RSR
ReceivedSize == Distance(freedPtr, writePtr)

Arrive(payload) ==
  LET total == HeaderSize + payload
      At(place) == (writePtr + place) % RingSize
  IN  /\ ReceivedSize + total <= RingSize
      /\ ring' = [i \in 0 .. RingSize - 1 |->
                    LET place == (i - writePtr) % RingSize
                    IN  IF place < total THEN [place |-> place, of |-> payload]
                                         ELSE ring[i]]
      /\ writePtr' = (writePtr + total) % PtrMod
      /\ UNCHANGED <<freedPtr, driverVars>>

-----------------------------------------------------------------------------
(* The driver.                                                             *)

AdvanceUnwrapped(bytes) == readPtr' = readPtr + bytes

\* The first half of W5500::read: the read pointer is set, the chip not yet told.
Advance(bytes) == readPtr' = (readPtr + bytes) % PtrMod

HasPacketAlways == ReceivedSize >= 0

HasPacket == ReceivedSize >= HeaderSize

\* read_packet_header: has_packet() ...
HasPacketCall ==
  /\ pc = "idle" /\ remaining = 0
  /\ IF HasPacket
     THEN pc' = "header" /\ UNCHANGED reported
     ELSE pc' = pc /\ reported' = NoPacket
  /\ UNCHANGED <<chipVars, readPtr, target, size, remaining>>

\* ... then Socket::read of the header, which leaves _packet_bytes_remaining
\* alone until the size in it has been decoded.
ReadHeader ==
  /\ pc = "header"
  /\ reported' = ring[readPtr % RingSize].of
  /\ Advance(HeaderSize)
  /\ pc' = "headerRecv"
  /\ UNCHANGED <<chipVars, target, size, remaining>>

HeaderWithoutRecv ==
  /\ pc = "headerRecv"
  /\ remaining' = reported
  /\ pc' = "idle"
  /\ UNCHANGED <<ring, writePtr, readPtr, freedPtr, target, size, reported>>

HeaderRecv ==
  /\ pc = "headerRecv"
  /\ freedPtr' = readPtr
  /\ remaining' = reported
  /\ pc' = "idle"
  /\ UNCHANGED <<ring, writePtr, readPtr, target, size, reported>>

\* read(), read(buffer, n) and read(nullptr, n) within the datagram;
\* skip_to_packet_end() is n = remaining.
ReadPayload(n) ==
  /\ pc = "idle" /\ n <= remaining
  /\ Advance(n)
  /\ size' = n
  /\ pc' = "payloadRecv"
  /\ UNCHANGED <<chipVars, target, remaining, reported>>

PayloadRecv ==
  /\ pc = "payloadRecv"
  /\ freedPtr' = readPtr
  /\ remaining' = remaining - size
  /\ size' = 0
  /\ pc' = "idle"
  /\ UNCHANGED <<ring, writePtr, readPtr, target, reported>>

\* flush(): the write pointer is read, then made the read pointer.
FlushCall ==
  /\ pc = "idle"
  /\ target' = writePtr
  /\ pc' = "flush"
  /\ UNCHANGED <<chipVars, readPtr, size, remaining, reported>>

FlushRereadPointer ==
  /\ pc = "flush"
  /\ readPtr' = writePtr
  /\ pc' = "flushRecv"
  /\ UNCHANGED <<chipVars, target, size, remaining, reported>>

FlushSetPointer ==
  /\ pc = "flush"
  /\ readPtr' = target
  /\ pc' = "flushRecv"
  /\ UNCHANGED <<chipVars, target, size, remaining, reported>>

FlushKeepsRemaining ==
  /\ pc = "flushRecv"
  /\ freedPtr' = readPtr
  /\ target' = 0
  /\ pc' = "idle"
  /\ UNCHANGED <<ring, writePtr, readPtr, size, remaining, reported>>

FlushRecv ==
  /\ pc = "flushRecv"
  /\ freedPtr' = readPtr
  /\ remaining' = 0
  /\ target' = 0
  /\ pc' = "idle"
  /\ UNCHANGED <<ring, writePtr, readPtr, size, reported>>

-----------------------------------------------------------------------------

\* The pointers start anywhere: the driver never assumes where OPEN puts them.
Init ==
  /\ ring = [i \in 0 .. RingSize - 1 |-> [place |-> 0, of |-> CHOOSE p \in Payloads : TRUE]]
  /\ writePtr \in 0 .. PtrMod - 1
  /\ readPtr = writePtr /\ freedPtr = writePtr
  /\ pc = "idle" /\ target = 0 /\ size = 0 /\ remaining = 0
  /\ reported = NoPacket

Next ==
  \/ \E payload \in Payloads : Arrive(payload)
  \/ HasPacketCall
  \/ ReadHeader
  \/ HeaderRecv
  \/ \E n \in 1 .. remaining : ReadPayload(n)
  \/ PayloadRecv
  \/ FlushCall
  \/ FlushSetPointer
  \/ FlushRecv

Spec == Init /\ [][Next]_vars

-----------------------------------------------------------------------------
(* Correctness.                                                            *)

\* Every variable keeps its type.
TypeOK ==
  /\ ring \in [0 .. RingSize - 1 -> Bytes]
  /\ writePtr \in Pointers /\ readPtr \in Pointers /\ freedPtr \in Pointers
  /\ pc \in {"idle", "header", "headerRecv", "payloadRecv", "flush", "flushRecv"}
  /\ target \in Pointers
  /\ size \in Nat
  /\ remaining \in Nat
  /\ reported \in Payloads \cup {NoPacket}

Unread == Span(readPtr, writePtr)

\* The sizes of the datagrams that begin among some bytes.
Datagrams(bytes) ==
  LET upTo[n \in 0 .. Len(bytes)] ==
        IF n = 0 THEN <<>>
        ELSE IF IsStart(bytes[n]) THEN Append(upTo[n - 1], bytes[n].of)
        ELSE upTo[n - 1]
  IN  upTo[Len(bytes)]

\* The bytes in front of the next header.
Rest(bytes) ==
  LET start == SelectInSeq(bytes, IsStart)
  IN  IF start = 0 THEN Len(bytes) ELSE start - 1

\* Between two calls, _packet_bytes_remaining is the number of bytes that are
\* left of the current datagram in the ring: the count the clients' loops and
\* skip_to_packet_end() rely on agrees with the chip, whatever was received,
\* read and flushed before, and wherever the 16 bit pointers wrap.
RemainingIsTrue == pc = "idle" => remaining = Rest(Unread)

\* What read_packet_header decodes as a header is one.
ReadsHeaders == pc = "header" => IsStart(ring[readPtr % RingSize])

\* has_packet() answers exactly: a client that is told there is none has read
\* everything the chip holds, and one that is told there is one finds it all.
HasPacketExact ==
  pc = "idle" /\ remaining = 0 =>
    (HasPacket <=> \E i \in DOMAIN Unread : IsStart(Unread[i]))

\* How many datagrams a flush in progress is about to discard.
Doomed ==
  IF pc = "flush" THEN Len(Datagrams(Span(readPtr, target))) ELSE -1

Queue ==
  INSTANCE DatagramQueue WITH
    queue  <- Datagrams(Unread),
    rest   <- Rest(Unread),
    doomed <- Doomed

\* The ring behaves like a queue of datagrams: see module DatagramQueue.
IsQueue == Queue!Spec

=============================================================================
