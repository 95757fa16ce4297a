----------------------------- MODULE SocketSend -----------------------------
(***************************************************************************)
(* Sending on a Socket (Socket.cpp and the TX half of W5500.cpp).  The     *)
(* driver copies bytes into the socket's TX ring with any number of        *)
(* write() calls and has the chip send them as one datagram with send().   *)
(* While the chip still transmits, the driver already writes the next one. *)
(*                                                                         *)
(* The chip is modelled from how the driver uses it: Sn_TX_WR reads as the *)
(* value of the last SEND (README.md:170: write "will not advance the      *)
(* write pointer"), which is why Socket keeps _write_offset.               *)
(***************************************************************************)
EXTENDS RingPointers, Sequences

CONSTANTS
  WriteSizes, \* sizes an application passes to write() and send()
  MaxPending, \* bound of the model: the highest _write_offset
  MaxFlights  \* bound of the model: datagrams the chip has yet to transmit

ASSUME WritesAssumption ==
  /\ WriteSizes \subseteq Nat
  /\ MaxPending \in Nat /\ MaxFlights \in Nat

VARIABLES
  ring,        \* the bytes of the TX buffer
  readPtr,     \* Sn_TX_RD: everything before it has been transmitted
  sentPtr,     \* Sn_TX_WR as the chip reads it: where the last SEND ended
  writtenPtr,  \* Sn_TX_WR as the driver last set it
  flights,     \* datagrams the chip was told to send: [from, length]
  writeOffset, \* _write_offset
  call,        \* the write in progress: [what, size, free]
  counter,     \* history: the next byte the application produces
  pending,     \* history: bytes that write() accepted since the last send
  intended,    \* history: what each datagram of flights is meant to hold
  sound        \* history: has no write outgrown the ring, and no socket been
               \* reopened with bytes left behind?

chipVars   == <<ring, readPtr, sentPtr, writtenPtr, flights>>
driverVars == <<writeOffset, call>>
histVars   == <<counter, pending, intended, sound>>
vars       == <<chipVars, driverVars, histVars>>

NoCall == [what |-> "none", size |-> 0, free |-> 0]

\* The stream of bytes the application writes; told apart within a ring.
Produced(n) == [i \in 1 .. n |-> (counter + i - 1) % PtrMod]

-----------------------------------------------------------------------------
(* The chip.                                                               *)

\* Sn_TX_FSR counts what was sent and not yet transmitted.
FreeSize == (RingSize - Distance(readPtr, sentPtr)) % PtrMod

Contents(flight) ==
  [i \in 1 .. flight.length |-> ring[(flight.from + i - 1) % RingSize]]

\* The first datagram has left, or was given up by an ARP timeout.
Transmit ==
  /\ flights # <<>>
  /\ readPtr' = (readPtr + Head(flights).length) % PtrMod
  /\ flights' = Tail(flights)
  /\ intended' = Tail(intended)
  /\ UNCHANGED <<ring, sentPtr, writtenPtr, driverVars, counter, pending, sound>>

\* The SEND command: everything up to Sn_TX_WR becomes a datagram.
SendCommand ==
  /\ flights' = Append(flights, [from   |-> sentPtr,
                                 length |-> Distance(sentPtr, writtenPtr)])
  /\ sentPtr' = writtenPtr
  /\ intended' = Append(intended, pending)
  /\ pending' = <<>>

-----------------------------------------------------------------------------
(* The driver.  W5500::write reads the free size, then copies; the chip    *)
(* may transmit in between.                                                *)

\* Socket::write(buffer, size) and Socket::send(buffer, size) begin alike.
CallWrite(what, size) ==
  /\ call = NoCall
  /\ writeOffset + size <= MaxPending
  /\ what = "send" => Len(flights) < MaxFlights
  /\ call' = [what |-> what, size |-> size, free |-> FreeSize]
  /\ UNCHANGED <<chipVars, writeOffset, histVars>>

CopiedIgnoringOffset(bytes) ==
  /\ ring' = [i \in DOMAIN ring |->
                LET place == (i - sentPtr) % RingSize
                IN  IF place < Len(bytes) THEN bytes[place + 1] ELSE ring[i]]
  /\ writtenPtr' = (sentPtr + Len(bytes)) % PtrMod

CopiedUnwrapped(bytes) ==
  LET start == sentPtr + writeOffset
  IN  /\ ring' = [i \in DOMAIN ring |->
                    LET place == (i - start) % RingSize
                    IN  IF place < Len(bytes) THEN bytes[place + 1] ELSE ring[i]]
      /\ writtenPtr' = start + Len(bytes)

\* Bytes go behind Sn_TX_WR and what was written before.
Copied(bytes) ==
  LET start == (sentPtr + writeOffset) % PtrMod
  IN  /\ ring' = [i \in DOMAIN ring |->
                    LET place == (i - start) % RingSize
                    IN  IF place < Len(bytes) THEN bytes[place + 1] ELSE ring[i]]
      /\ writtenPtr' = (start + Len(bytes)) % PtrMod

\* As much as the free size allows; nothing at all when it is zero.
Accepted == IF call.size <= call.free THEN call.size ELSE call.free

\* write() adds to _write_offset; send(buffer, size) goes on to its command.
Write ==
  /\ call.what \in {"write", "send"}
  /\ IF call.free = 0 THEN UNCHANGED <<ring, writtenPtr>>
                      ELSE Copied(Produced(Accepted))
  /\ IF call.what = "write"
     THEN writeOffset' = writeOffset + Accepted /\ call' = NoCall
     ELSE call' = [call EXCEPT !.what = "command"] /\ UNCHANGED writeOffset
  /\ counter' = (counter + Accepted) % PtrMod
  /\ pending' = pending \o Produced(Accepted)
  /\ sound' = (sound /\ Len(pending) + Accepted <= call.free)
  /\ UNCHANGED <<readPtr, sentPtr, flights, intended>>

SendForgetsOffset ==
  /\ call = NoCall /\ writeOffset # 0
  /\ Len(flights) < MaxFlights
  /\ SendCommand
  /\ UNCHANGED <<ring, readPtr, writtenPtr, writeOffset, call, counter, sound>>

\* Socket::send() does nothing when nothing was written.
Send ==
  /\ call = NoCall /\ writeOffset # 0
  /\ Len(flights) < MaxFlights
  /\ SendCommand
  /\ writeOffset' = 0
  /\ UNCHANGED <<ring, readPtr, writtenPtr, call, counter, sound>>

\* The end of Socket::send(buffer, size), which sends in any case.
SendBuffer ==
  /\ call.what = "command"
  /\ SendCommand
  /\ writeOffset' = 0
  /\ call' = NoCall
  /\ UNCHANGED <<ring, readPtr, writtenPtr, counter, sound>>

\* close() and init(): the chip starts with empty buffers (where its pointers
\* start makes no difference); _write_offset stays.
Reopen ==
  /\ call = NoCall
  /\ readPtr' = 0 /\ sentPtr' = 0 /\ writtenPtr' = 0
  /\ flights' = <<>> /\ intended' = <<>> /\ pending' = <<>>
  /\ counter' = 0
  /\ sound' = (sound /\ writeOffset = 0)
  /\ UNCHANGED <<ring, driverVars>>

-----------------------------------------------------------------------------

Init ==
  /\ ring = [i \in 0 .. RingSize - 1 |-> 0]
  /\ readPtr = 0 /\ sentPtr = 0 /\ writtenPtr = 0
  /\ flights = <<>>
  /\ writeOffset = 0 /\ call = NoCall
  /\ counter = 0 /\ pending = <<>> /\ intended = <<>> /\ sound = TRUE

Next ==
  \/ Transmit
  \/ \E size \in WriteSizes : CallWrite("write", size) \/ CallWrite("send", size)
  \/ Write
  \/ Send
  \/ SendBuffer
  \/ Reopen

Spec == Init /\ [][Next]_vars

-----------------------------------------------------------------------------
(* Correctness.                                                            *)

\* Every variable keeps its type.
TypeOK ==
  /\ ring \in [0 .. RingSize - 1 -> Pointers]
  /\ readPtr \in Pointers /\ sentPtr \in Pointers /\ writtenPtr \in Pointers
  /\ flights \in Seq([from : Pointers, length : Pointers])
  /\ intended \in Seq(Seq(Pointers))
  /\ Len(flights) <= MaxFlights /\ Len(intended) = Len(flights)
  /\ writeOffset \in Nat
  /\ call \in [what : {"none", "write", "send", "command"},
               size : Nat, free : Pointers]
  /\ counter \in Pointers
  /\ pending \in Seq(Pointers) /\ Len(pending) <= MaxPending
  /\ sound \in BOOLEAN

\* A datagram that waits for its transmission holds the bytes of the writes
\* since the send before it, in order, and nothing written later damages it:
\* true as long as each write finds room for itself and for what is pending,
\* and no socket is reopened between a write and its send.
SentIsWritten ==
  sound => \A i \in DOMAIN flights : Contents(flights[i]) = intended[i]

\* Between two calls _write_offset is what was written and not yet sent.
OffsetIsPending ==
  sound /\ call.what \in {"none", "write"} => writeOffset = Len(pending)

=============================================================================
