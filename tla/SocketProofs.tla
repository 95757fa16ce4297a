---------------------------- MODULE SocketProofs ----------------------------
(***************************************************************************)
(* Proofs about SocketSend for every size of the ring, width of the        *)
(* pointers and mix of writes.                                             *)
(***************************************************************************)
EXTENDS SocketSend, PointerProofs

-----------------------------------------------------------------------------
(* Arithmetic of the pointers.                                             *)

\* Pointers count from 0.
LEMMA PointerFacts == 0 \in Pointers /\ \A p \in Pointers : p \in Nat
  BY PointerAssumption, WritesAssumption DEF Pointers

\* Whatever is computed with pointers is a pointer again (uint16_t).
LEMMA Wrapped == \A n \in Int : n % PtrMod \in Pointers
  BY PointerAssumption, WritesAssumption DEF Pointers

\* A place in the ring.
LEMMA Placed == \A n \in Int : n % RingSize \in 0 .. RingSize - 1
  BY PointerAssumption, WritesAssumption

\* The distance of two pointers fits a pointer.
LEMMA DistancePointer ==
  ASSUME NEW a \in Pointers, NEW b \in Pointers
  PROVE  Distance(a, b) \in Pointers
<1>1. a \in Int /\ b \in Int
  BY PointerAssumption, WritesAssumption, PointerFacts
<1>. QED
  BY <1>1, Wrapped DEF Distance

\* Sequences lose their head and keep their type.
LEMMA TailFacts ==
  ASSUME NEW S, NEW s \in Seq(S), s # <<>>
  PROVE  Tail(s) \in Seq(S) /\ Len(s) \in Nat /\ Len(Tail(s)) = Len(s) - 1
OBVIOUS

\* The head of a sequence has the type of its elements.
LEMMA HeadFact ==
  ASSUME NEW S, NEW s \in Seq(S), s # <<>>
  PROVE  Head(s) \in S
OBVIOUS

\* So have all elements of a sequence.
LEMMA ElementFact ==
  ASSUME NEW S, NEW s \in Seq(S), NEW i \in 1 .. Len(s)
  PROVE  s[i] \in S
OBVIOUS

\* Joined sequences keep their type and add up their lengths.
LEMMA ConcatFacts ==
  ASSUME NEW S, NEW s \in Seq(S), NEW t \in Seq(S)
  PROVE  s \o t \in Seq(S) /\ Len(s \o t) = Len(s) + Len(t)
OBVIOUS

\* A write accepts no more than it was asked to, nor than was free.
LEMMA AcceptedType ==
  ASSUME TypeOK
  PROVE  /\ Accepted \in Nat
         /\ Accepted <= call.size /\ Accepted <= call.free
<1>1. call.size \in Nat /\ call.free \in Nat
  BY PointerAssumption, WritesAssumption, PointerFacts DEF TypeOK
<1>. QED
  BY <1>1 DEF Accepted

\* The bytes of a write are as many as it accepts.
LEMMA ProducedType ==
  ASSUME TypeOK, NEW n \in Nat
  PROVE  Produced(n) \in Seq(Pointers) /\ Len(Produced(n)) = n
<1>1. \A i \in 1 .. n : (counter + i - 1) % PtrMod \in Pointers
  <2>1. TAKE i \in 1 .. n
  <2>2. counter + i - 1 \in Int
    BY PointerAssumption, WritesAssumption, PointerFacts DEF TypeOK
  <2>. QED
    BY <2>2, Wrapped
<1>. QED
  BY <1>1 DEF Produced

-----------------------------------------------------------------------------
(* Types and the write offset go together: the bound on the pending bytes  *)
(* follows from the one on _write_offset, and send(buffer, size) relies on *)
(* the slot for its datagram that it found when it was called.             *)

OffsetInv ==
  /\ writeOffset <= MaxPending
  /\ call.what \in {"write", "send"} => writeOffset + call.size <= MaxPending
  /\ call.what \in {"send", "command"} => Len(flights) < MaxFlights
  /\ call.what # "command" => /\ Len(pending) <= writeOffset
                              /\ sound => Len(pending) = writeOffset

SendInv == TypeOK /\ OffsetInv

\* Nothing is written when the driver starts.
LEMMA InitSend == Init => SendInv
<1>1. SUFFICES ASSUME Init PROVE SendInv
  OBVIOUS
<1>2. /\ 0 \in Pointers /\ MaxPending \in Nat /\ MaxFlights \in Nat
      /\ ring \in [0 .. RingSize - 1 -> Pointers]
  BY <1>1, PointerAssumption, WritesAssumption, PointerFacts DEF Init
<1>. QED
  BY <1>1, <1>2 DEF Init, SendInv, TypeOK, OffsetInv, NoCall

\* The transmitter frees a slot and nothing else the driver keeps track of.
LEMMA TransmitSend == SendInv /\ Transmit => SendInv'
<1>1. SUFFICES ASSUME SendInv, Transmit PROVE SendInv'
  OBVIOUS
<1>2. /\ readPtr \in Int /\ flights # <<>>
      /\ flights \in Seq([from : Pointers, length : Pointers])
      /\ intended \in Seq(Seq(Pointers)) /\ Len(intended) = Len(flights)
      /\ Len(flights) <= MaxFlights /\ MaxFlights \in Nat
  BY <1>1, PointerAssumption, WritesAssumption, PointerFacts DEF Transmit, SendInv, TypeOK
<1>3. readPtr' \in Pointers
  <2>1. Head(flights) \in [from : Pointers, length : Pointers]
    BY <1>2, HeadFact
  <2>2. Head(flights).length \in Int
    BY <2>1, PointerAssumption, WritesAssumption, PointerFacts
  <2>3. readPtr + Head(flights).length \in Int
    BY <1>2, <2>2
  <2>. QED
    BY <1>1, <2>3, Wrapped DEF Transmit
<1>4. /\ flights' \in Seq([from : Pointers, length : Pointers])
      /\ intended' \in Seq(Seq(Pointers))
      /\ Len(flights') = Len(flights) - 1 /\ Len(intended') = Len(flights')
  <2>1. intended # <<>>
    BY <1>2
  <2>. QED
    BY <1>1, <1>2, <2>1, TailFacts DEF Transmit
<1>5. /\ Len(flights') < MaxFlights
      /\ UNCHANGED <<ring, sentPtr, writtenPtr, writeOffset, call, counter,
                     pending, sound>>
  BY <1>1, <1>2, <1>4 DEF Transmit, driverVars
<1>6. TypeOK'
  BY <1>1, <1>2, <1>3, <1>4, <1>5 DEF SendInv, TypeOK
<1>7. OffsetInv'
  BY <1>1, <1>5 DEF SendInv, OffsetInv
<1>. QED
  BY <1>6, <1>7 DEF SendInv

\* The SEND command takes a free slot and leaves nothing pending.
LEMMA CommandSend ==
  ASSUME SendInv, SendCommand, Len(flights) < MaxFlights,
         writeOffset' = 0, call' = NoCall,
         UNCHANGED <<ring, readPtr, writtenPtr, counter, sound>>
  PROVE  SendInv'
<1>1. [from |-> sentPtr, length |-> Distance(sentPtr, writtenPtr)]
        \in [from : Pointers, length : Pointers]
  BY DistancePointer DEF SendInv, TypeOK
<1>2. /\ flights' \in Seq([from : Pointers, length : Pointers])
      /\ Len(flights) \in Nat /\ Len(flights') = Len(flights) + 1
  BY <1>1 DEF SendCommand, SendInv, TypeOK
<1>3. /\ intended' \in Seq(Seq(Pointers))
      /\ Len(intended') = Len(intended) + 1
  BY DEF SendCommand, SendInv, TypeOK
<1>5. Len(flights') <= MaxFlights /\ Len(intended') = Len(flights')
  BY <1>2, <1>3, PointerAssumption, WritesAssumption, PointerFacts DEF SendInv, TypeOK
<1>4. 0 \in Pointers /\ MaxPending \in Nat
  BY PointerAssumption, WritesAssumption, PointerFacts
<1>. QED
  BY <1>2, <1>3, <1>4, <1>5 DEF SendCommand, SendInv, TypeOK, OffsetInv, NoCall

\* A call looks at the free size and writes nothing yet.
LEMMA CallWriteSend ==
  ASSUME SendInv, NEW size \in WriteSizes,
         NEW what \in {"write", "send"}, CallWrite(what, size)
  PROVE  SendInv'
<1>1. FreeSize \in Pointers
  <2>1. Distance(readPtr, sentPtr) \in Pointers
    BY DistancePointer DEF SendInv, TypeOK
  <2>2. RingSize - Distance(readPtr, sentPtr) \in Int
    BY <2>1, PointerAssumption, WritesAssumption, PointerFacts
  <2>. QED
    BY <2>2, Wrapped DEF FreeSize
<1>2. size \in Nat
  BY PointerAssumption, WritesAssumption, PointerFacts
<1>. QED
  BY <1>1, <1>2 DEF CallWrite, SendInv, TypeOK, OffsetInv, chipVars, histVars,
     NoCall

\* Copying leaves a ring of bytes and a pointer.
LEMMA CopiedType ==
  ASSUME TypeOK, NEW bytes \in Seq(Pointers), Copied(bytes)
  PROVE  ring' \in [0 .. RingSize - 1 -> Pointers] /\ writtenPtr' \in Pointers
<1> DEFINE start == (sentPtr + writeOffset) % PtrMod
           place(i) == (i - start) % RingSize
<1>1. start \in Int /\ Len(bytes) \in Nat
  <2>1. sentPtr + writeOffset \in Int
    BY PointerAssumption, WritesAssumption, PointerFacts DEF TypeOK
  <2>2. start \in Pointers
    BY <2>1, Wrapped
  <2>. QED
    BY <2>2, PointerAssumption, WritesAssumption, PointerFacts
<1>2. (start + Len(bytes)) % PtrMod \in Pointers
  BY <1>1, Wrapped
<1>3. \A i \in 0 .. RingSize - 1 : place(i) \in 0 .. RingSize - 1
  <2>1. TAKE i \in 0 .. RingSize - 1
  <2>2. i - start \in Int
    BY <1>1, PointerAssumption, WritesAssumption, PointerFacts
  <2>. QED
    BY <2>2, Placed
<1>4. \A i \in 0 .. RingSize - 1 :
        place(i) < Len(bytes) => bytes[place(i) + 1] \in Pointers
  <2>1. SUFFICES ASSUME NEW i \in 0 .. RingSize - 1, place(i) < Len(bytes)
                 PROVE  bytes[place(i) + 1] \in Pointers
    OBVIOUS
  <2>2. place(i) \in Nat
    BY <1>3, PointerAssumption, WritesAssumption, PointerFacts
  <2>. HIDE DEF place
  <2>3. place(i) + 1 \in 1 .. Len(bytes)
    BY <1>1, <2>1, <2>2
  <2>. QED
    BY <2>3
<1>5. ring \in [0 .. RingSize - 1 -> Pointers]
  BY DEF TypeOK
<1>6. ring' = [i \in 0 .. RingSize - 1 |->
                 IF place(i) < Len(bytes) THEN bytes[place(i) + 1] ELSE ring[i]]
  BY <1>5 DEF Copied
<1>. HIDE DEF place, start
<1>7. ring' \in [0 .. RingSize - 1 -> Pointers]
  BY <1>4, <1>5, <1>6
<1>8. writtenPtr' = (start + Len(bytes)) % PtrMod
  BY DEF Copied, start
<1>. QED
  BY <1>2, <1>7, <1>8

\* A write adds as much to _write_offset as to what is pending.
LEMMA WriteSend == SendInv /\ Write => SendInv'
<1>1. SUFFICES ASSUME SendInv, Write PROVE SendInv'
  OBVIOUS
<1> DEFINE n == Accepted
<1>2. /\ n \in Nat /\ n <= call.size
      /\ Produced(n) \in Seq(Pointers) /\ Len(Produced(n)) = n
  BY <1>1, AcceptedType, ProducedType DEF SendInv
<1>3. ring' \in [0 .. RingSize - 1 -> Pointers] /\ writtenPtr' \in Pointers
  BY <1>1, <1>2, CopiedType DEF Write, SendInv, TypeOK
<1>4. counter' \in Pointers
  <2>1. counter + n \in Int
    BY <1>1, <1>2, PointerAssumption, WritesAssumption, PointerFacts DEF SendInv, TypeOK
  <2>. QED
    BY <1>1, <2>1, Wrapped DEF Write
<1>5. pending' \in Seq(Pointers) /\ Len(pending') = Len(pending) + n
  <2>1. pending \in Seq(Pointers) /\ pending' = pending \o Produced(n)
    BY <1>1 DEF Write, SendInv, TypeOK
  <2>. HIDE DEF n
  <2>2. pending' \in Seq(Pointers)
        /\ Len(pending') = Len(pending) + Len(Produced(n))
    BY <1>2, <2>1, ConcatFacts
  <2>. QED
    BY <1>2, <2>2
<1>6. /\ call.what \in {"write", "send"}
      /\ call.size \in Nat /\ call.free \in Pointers
      /\ writeOffset \in Nat /\ MaxPending \in Nat /\ Len(pending) \in Nat
      /\ Len(pending) <= writeOffset /\ (sound => Len(pending) = writeOffset)
      /\ writeOffset + call.size <= MaxPending
  BY <1>1, PointerAssumption, WritesAssumption, PointerFacts DEF Write, SendInv, TypeOK, OffsetInv
<1>7. sound' \in BOOLEAN /\ (sound' => sound)
  BY <1>1 DEF Write, SendInv, TypeOK
<1>8. CASE call.what = "write"
  <2>1. writeOffset' = writeOffset + n /\ call' = NoCall
    BY <1>1, <1>8 DEF Write
  <2>2. NoCall.what = "none" /\ NoCall.size = 0 /\ NoCall.free = 0
        /\ NoCall \in [what : {"none", "write", "send", "command"},
                        size : Nat, free : Pointers]
    BY PointerAssumption, WritesAssumption, PointerFacts DEF NoCall
  <2>3. OffsetInv'
    <3>1. n <= call.size /\ n \in Nat
      BY <1>2
    <3>. HIDE DEF n
    <3>2. call'.what = "none"
      BY <2>1, <2>2
    <3>3. writeOffset' <= MaxPending /\ Len(pending') <= writeOffset'
      BY <3>1, <1>5, <1>6, <2>1
    <3>4. sound' => Len(pending') = writeOffset'
      BY <3>1, <1>5, <1>6, <1>7, <2>1
    <3>. QED
      BY <3>2, <3>3, <3>4 DEF OffsetInv
  <2>4. TypeOK'
    BY <1>1, <1>2, <1>3, <1>4, <1>5, <1>6, <1>7, <2>1, <2>2
       DEF Write, SendInv, TypeOK
  <2>. QED
    BY <2>3, <2>4 DEF SendInv
<1>9. CASE call.what = "send"
  <2>1. writeOffset' = writeOffset /\ call' = [call EXCEPT !.what = "command"]
    BY <1>1, <1>9 DEF Write
  <2>2. call'.what = "command"
        /\ call' \in [what : {"none", "write", "send", "command"},
                       size : Nat, free : Pointers]
    BY <1>1, <2>1 DEF SendInv, TypeOK
  <2>3. OffsetInv'
    BY <1>1, <1>6, <1>9, <2>1, <2>2 DEF OffsetInv, SendInv, Write
  <2>4. TypeOK'
    BY <1>1, <1>2, <1>3, <1>4, <1>5, <1>6, <1>7, <2>1, <2>2
       DEF Write, SendInv, TypeOK
  <2>. QED
    BY <2>3, <2>4 DEF SendInv
<1>. QED
  BY <1>6, <1>8, <1>9

\* A reopened socket forgets what was pending; _write_offset does not.
LEMMA ReopenSend == SendInv /\ Reopen => SendInv'
<1>1. SUFFICES ASSUME SendInv, Reopen PROVE SendInv'
  OBVIOUS
<1>2. 0 \in Pointers /\ MaxPending \in Nat /\ MaxFlights \in Nat
  BY PointerAssumption, WritesAssumption, PointerFacts
<1>3. /\ readPtr' = 0 /\ sentPtr' = 0 /\ writtenPtr' = 0 /\ counter' = 0
      /\ flights' = <<>> /\ intended' = <<>> /\ pending' = <<>>
      /\ UNCHANGED <<ring, writeOffset, call>> /\ call.what = "none"
  BY <1>1 DEF Reopen, driverVars, NoCall
<1>4. sound' \in BOOLEAN /\ (sound' => writeOffset = 0)
  BY <1>1 DEF Reopen, SendInv, TypeOK
<1>5. TypeOK'
  BY <1>1, <1>2, <1>3, <1>4 DEF SendInv, TypeOK
<1>6. OffsetInv'
  BY <1>1, <1>2, <1>3, <1>4 DEF SendInv, TypeOK, OffsetInv
<1>. QED
  BY <1>5, <1>6 DEF SendInv

\* Every step of the socket keeps types and offset.
LEMMA NextSend == SendInv /\ [Next]_vars => SendInv'
<1>1. SUFFICES ASSUME SendInv, [Next]_vars PROVE SendInv'
  OBVIOUS
<1>2. CASE Send
  <2>1. call' = NoCall
    BY <1>2 DEF Send
  <2>. QED
    BY <1>1, <1>2, <2>1, CommandSend DEF Send
<1>3. CASE SendBuffer
  <2>1. Len(flights) < MaxFlights
    BY <1>1, <1>3 DEF SendBuffer, SendInv, OffsetInv
  <2>. QED
    BY <1>1, <1>3, <2>1, CommandSend DEF SendBuffer
<1>4. CASE UNCHANGED vars
  BY <1>1, <1>4 DEF vars, chipVars, driverVars, histVars, SendInv, TypeOK, OffsetInv
<1>. QED
  BY <1>1, <1>2, <1>3, <1>4, TransmitSend, CallWriteSend, WriteSend, ReopenSend
     DEF Next

\* The socket's pointers, offset and call keep the types of the code, whatever
\* is written, sent, transmitted and reopened.
THEOREM TypeCorrect == Spec => []TypeOK
<1>1. SendInv => TypeOK
  BY DEF SendInv
<1>. QED
  BY <1>1, InitSend, NextSend, PTL DEF Spec

\* Between two calls _write_offset is the number of bytes written and not yet
\* sent, unless a write outgrew the ring or the socket was reopened half way.
THEOREM OffsetCorrect == Spec => []OffsetIsPending
<1>1. SendInv => OffsetIsPending
  BY DEF SendInv, OffsetInv, OffsetIsPending
<1>. QED
  BY <1>1, InitSend, NextSend, PTL DEF Spec

-----------------------------------------------------------------------------
(* The contents of the ring.  Seen from the read pointer, the datagrams    *)
(* that wait lie one behind the other, then the pending bytes, and all of  *)
(* it within one round.                                                    *)

Held(buffer, from, bytes) ==
  \A i \in 1 .. Len(bytes) : Byte(buffer, from, i - 1) = bytes[i]

Waiting == Distance(readPtr, sentPtr)

Behind(flight) == Distance(readPtr, flight.from)

\* Each datagram starts where the one before it ends, the last one ends at
\* Sn_TX_WR.
FlightsInv ==
  /\ flights = <<>> => readPtr = sentPtr
  /\ flights # <<>> => flights[1].from = readPtr
  /\ \A i \in 1 .. Len(flights) :
       /\ Behind(flights[i]) + flights[i].length <= Waiting
       /\ (flights[i].from + flights[i].length) % PtrMod
            = IF i = Len(flights) THEN sentPtr ELSE flights[i + 1].from
       /\ \A j \in 1 .. i - 1 :
            Behind(flights[j]) + flights[j].length <= Behind(flights[i])

\* They hold what they are meant to, and a call in progress has room at least
\* for what it found free: the transmitter only makes more.
ContentInv ==
  /\ Waiting + Len(pending) <= RingSize
  /\ Distance(sentPtr, writtenPtr) = Len(pending)
  /\ Held(ring, sentPtr, pending)
  /\ \A i \in 1 .. Len(flights) :
       /\ flights[i].length = Len(intended[i])
       /\ Held(ring, flights[i].from, intended[i])
  /\ call.what \in {"write", "send"} => Waiting + call.free <= RingSize

SentInv == sound => FlightsInv /\ ContentInv

\* Types in the form the steps below use them.
LEMMA SendTypes ==
  ASSUME SendInv
  PROVE  /\ readPtr \in Pointers /\ sentPtr \in Pointers /\ writtenPtr \in Pointers
         /\ Waiting \in Nat /\ Len(pending) \in Nat /\ pending \in Seq(Pointers)
         /\ Len(flights) \in Nat /\ Len(intended) = Len(flights)
         /\ \A i \in 1 .. Len(flights) :
              /\ flights[i].from \in Pointers /\ flights[i].length \in Nat
              /\ Behind(flights[i]) \in Nat
              /\ intended[i] \in Seq(Pointers)
<1>1. /\ readPtr \in Pointers /\ sentPtr \in Pointers /\ writtenPtr \in Pointers
      /\ flights \in Seq([from : Pointers, length : Pointers])
      /\ intended \in Seq(Seq(Pointers)) /\ Len(intended) = Len(flights)
      /\ pending \in Seq(Pointers)
  BY DEF SendInv, TypeOK
<1>2. ASSUME NEW i \in 1 .. Len(flights)
      PROVE  /\ flights[i].from \in Pointers /\ flights[i].length \in Nat
             /\ Behind(flights[i]) \in Nat
             /\ intended[i] \in Seq(Pointers)
  <2>1. flights[i] \in [from : Pointers, length : Pointers]
    BY <1>1, ElementFact
  <2>2. flights[i].from \in Pointers /\ flights[i].length \in Pointers
    BY <2>1
  <2>3. flights[i].length \in Nat
    BY <2>2, PointerFacts
  <2>4. Behind(flights[i]) \in Nat
    BY <1>1, <2>2, DistanceType DEF Behind
  <2>5. intended[i] \in Seq(Pointers)
    BY <1>1
  <2>. QED
    BY <2>2, <2>3, <2>4, <2>5
<1>3. Waiting \in Nat
  BY <1>1, DistanceType DEF Waiting
<1>. QED
  BY <1>1, <1>2, <1>3

\* Nothing waits and nothing is pending when the driver starts.
LEMMA InitSent == Init => SentInv
<1>1. SUFFICES ASSUME Init PROVE FlightsInv /\ ContentInv
  BY DEF SentInv
<1>2. /\ readPtr = 0 /\ sentPtr = 0 /\ writtenPtr = 0 /\ flights = <<>>
      /\ pending = <<>> /\ intended = <<>> /\ call.what = "none"
  BY <1>1 DEF Init, NoCall
<1>3. Distance(0, 0) = 0
  BY PointerFacts, NoDistance
<1>4. Waiting = 0 /\ Distance(sentPtr, writtenPtr) = 0
  BY <1>2, <1>3 DEF Waiting
<1>5. FlightsInv
  BY <1>2 DEF FlightsInv
<1>6. ContentInv
  BY <1>2, <1>4, Sizes DEF ContentInv, Held
<1>. QED
  BY <1>5, <1>6

\* The transmitter takes the first datagram away, and the others move up.
LEMMA TransmitSent == SendInv /\ SentInv /\ Transmit => SentInv'
<1>1. SUFFICES ASSUME SendInv, FlightsInv, ContentInv, Transmit
               PROVE  FlightsInv' /\ ContentInv'
  BY DEF SentInv, Transmit
<1> DEFINE n == flights[1].length  N == Len(flights)
<1>2. /\ flights # <<>> /\ N \in Nat \ {0} /\ 1 \in 1 .. N
      /\ n \in Nat /\ readPtr \in Pointers /\ sentPtr \in Pointers
      /\ Waiting \in Nat /\ Len(pending) \in Nat
  <2>1. flights # <<>> /\ flights \in Seq([from : Pointers, length : Pointers])
    BY <1>1 DEF Transmit, SendInv, TypeOK
  <2>2. N \in Nat \ {0} /\ 1 \in 1 .. N
    BY <2>1
  <2>. QED
    BY <1>1, <2>1, <2>2, SendTypes
<1>3. /\ readPtr' = (readPtr + n) % PtrMod
      /\ Len(flights') = N - 1 /\ Len(intended') = N - 1
      /\ \A i \in 1 .. N - 1 : /\ flights'[i] = flights[i + 1]
                               /\ intended'[i] = intended[i + 1]
      /\ UNCHANGED <<ring, sentPtr, writtenPtr, call, pending>>
  <2>1. /\ flights' = Tail(flights) /\ intended' = Tail(intended)
        /\ Head(flights) = flights[1]
        /\ readPtr' = (readPtr + Head(flights).length) % PtrMod
        /\ UNCHANGED <<ring, sentPtr, writtenPtr, call, pending>>
    BY <1>1 DEF Transmit, driverVars
  <2>2. /\ flights \in Seq([from : Pointers, length : Pointers])
        /\ intended \in Seq(Seq(Pointers)) /\ Len(intended) = N
    BY <1>1 DEF SendInv, TypeOK
  <2>3. /\ Len(Tail(flights)) = N - 1
        /\ \A i \in 1 .. N - 1 : Tail(flights)[i] = flights[i + 1]
    BY <1>2, <2>2
  <2>4. intended # <<>>
    BY <1>2, <2>2
  <2>5. /\ Len(Tail(intended)) = N - 1
        /\ \A i \in 1 .. N - 1 : Tail(intended)[i] = intended[i + 1]
    BY <1>2, <2>2, <2>4
  <2>. QED
    BY <2>1, <2>3, <2>5
<1>4. n <= Waiting /\ Waiting' = Waiting - n
  <2>1. flights[1].from = readPtr /\ Behind(flights[1]) + n <= Waiting
    BY <1>1, <1>2 DEF FlightsInv
  <2>2. Behind(flights[1]) = 0
    BY <1>2, <2>1, NoDistance DEF Behind
  <2> HIDE DEF n
  <2>3. n \in 0 .. Waiting
    BY <1>2, <2>1, <2>2
  <2>. QED
    BY <1>2, <1>3, <2>3, Approach DEF Waiting
<1>5. ASSUME NEW i \in 1 .. N - 1
      PROVE  /\ i + 1 \in 1 .. N
             /\ n <= Behind(flights[i + 1])
             /\ Behind(flights[i])' = Behind(flights[i + 1]) - n
  <2>1. i + 1 \in 1 .. N /\ 1 \in 1 .. (i + 1) - 1
    BY <1>2
  <2>2. Behind(flights[1]) + n <= Behind(flights[i + 1])
    BY <1>1, <2>1 DEF FlightsInv
  <2>3. Behind(flights[1]) = 0
    BY <1>1, <1>2, NoDistance DEF Behind, FlightsInv
  <2>4. flights[i + 1].from \in Pointers /\ Behind(flights[i + 1]) \in Nat
    BY <1>1, <2>1, SendTypes
  <2>5. Behind(flights[i])' = Distance((readPtr + n) % PtrMod, flights[i + 1].from)
    BY <1>3 DEF Behind
  <2> HIDE DEF n
  <2>6. n \in 0 .. Behind(flights[i + 1])
    BY <1>2, <2>2, <2>3, <2>4
  <2>7. Distance((readPtr + n) % PtrMod, flights[i + 1].from)
          = Distance(readPtr, flights[i + 1].from) - n
    BY <1>2, <2>4, <2>6, Approach DEF Behind
  <2>. QED
    BY <2>1, <2>5, <2>6, <2>7 DEF Behind
<1>6. FlightsInv'
  <2>1. flights[1].from = readPtr
        /\ (readPtr + n) % PtrMod = IF 1 = N THEN sentPtr ELSE flights[2].from
    <3>1. flights[1].from = readPtr
      BY <1>1, <1>2 DEF FlightsInv
    <3>2. (flights[1].from + flights[1].length) % PtrMod
             = IF 1 = Len(flights) THEN sentPtr ELSE flights[1 + 1].from
      BY <1>1, <1>2 DEF FlightsInv
    <3>. QED
      BY <3>1, <3>2
  <2>2. (flights = <<>>)' => readPtr' = sentPtr'
    <3>1. ASSUME (flights = <<>>)' PROVE N = 1
      <4>1. Len(flights') = 0
        BY <3>1
      <4>. QED
        BY <1>2, <1>3, <4>1
    <3>. QED
      BY <1>3, <2>1, <3>1
  <2>3. (flights # <<>>)' => flights'[1].from = readPtr'
    <3>1. ASSUME (flights # <<>>)' PROVE N > 1
      <4>1. flights' \in Seq([from : Pointers, length : Pointers])
        BY <1>1, <1>2 DEF Transmit, SendInv, TypeOK
      <4>2. Len(flights') # 0
        BY <3>1, <4>1
      <4>. QED
        BY <1>2, <1>3, <4>2
    <3>2. N > 1 => flights'[1] = flights[2] /\ 1 # N
      BY <1>2, <1>3
    <3>. QED
      BY <1>3, <2>1, <3>1, <3>2
  <2>4. ASSUME NEW i \in 1 .. N - 1
        PROVE  /\ Behind(flights[i])' + flights'[i].length <= Waiting'
               /\ (flights'[i].from + flights'[i].length) % PtrMod
                    = IF i = N - 1 THEN sentPtr' ELSE flights'[i + 1].from
               /\ \A j \in 1 .. i - 1 :
                    Behind(flights[j])' + flights'[j].length <= Behind(flights[i])'
    <3>1. i + 1 \in 1 .. N /\ Behind(flights[i])' = Behind(flights[i + 1]) - n
      BY <1>5
    <3>2. flights'[i] = flights[i + 1]
      BY <1>3
    <3>3. Behind(flights[i + 1]) \in Nat /\ flights[i + 1].length \in Nat
      BY <1>1, <3>1, SendTypes
    <3>4. /\ Behind(flights[i + 1]) + flights[i + 1].length <= Waiting
          /\ (flights[i + 1].from + flights[i + 1].length) % PtrMod
               = IF i + 1 = N THEN sentPtr ELSE flights[(i + 1) + 1].from
      BY <1>1, <3>1 DEF FlightsInv
    <3>5. Behind(flights[i])' + flights'[i].length <= Waiting'
      <4> HIDE DEF n
      <4>. QED
        BY <1>2, <1>4, <3>1, <3>2, <3>3, <3>4
    <3>6. ASSUME NEW j \in 1 .. i - 1
          PROVE  Behind(flights[j])' + flights'[j].length <= Behind(flights[i])'
      <4>1. j \in 1 .. N - 1 /\ j + 1 \in 1 .. (i + 1) - 1 /\ j + 1 \in 1 .. N
        BY <1>2, <3>6
      <4>2. Behind(flights[j])' = Behind(flights[j + 1]) - n
        BY <1>5, <4>1
      <4>3. flights'[j] = flights[j + 1]
        BY <1>3, <4>1
      <4>4. Behind(flights[j + 1]) \in Nat /\ flights[j + 1].length \in Nat
        BY <1>1, <4>1, SendTypes
      <4>5. Behind(flights[j + 1]) + flights[j + 1].length <= Behind(flights[i + 1])
        BY <1>1, <3>1, <4>1 DEF FlightsInv
      <4> HIDE DEF n
      <4>. QED
        BY <1>2, <3>1, <3>3, <4>2, <4>3, <4>4, <4>5
    <3>7. IF i + 1 = N THEN i = N - 1
                       ELSE i # N - 1 /\ flights'[i + 1] = flights[(i + 1) + 1]
      <4>1. i + 1 # N => i + 1 \in 1 .. N - 1
        BY <1>2
      <4>2. i \in Int /\ N \in Int
        BY <1>2
      <4>. QED
        BY <1>3, <4>1, <4>2
    <3>. QED
      BY <1>3, <3>2, <3>4, <3>5, <3>6, <3>7
  <2>. QED
    BY <1>3, <2>2, <2>3, <2>4 DEF FlightsInv
<1>7. ContentInv'
  <2>1. /\ Waiting + Len(pending) <= RingSize
        /\ Distance(sentPtr, writtenPtr) = Len(pending)
        /\ Held(ring, sentPtr, pending)
    BY <1>1 DEF ContentInv
  <2>2. ASSUME NEW i \in 1 .. N - 1
        PROVE  /\ flights'[i].length = Len(intended'[i])
               /\ Held(ring', flights'[i].from, intended'[i])
    <3>1. i + 1 \in 1 .. N
      BY <1>5
    <3>2. /\ flights[i + 1].length = Len(intended[i + 1])
          /\ Held(ring, flights[i + 1].from, intended[i + 1])
      BY <1>1, <3>1 DEF ContentInv
    <3>3. flights'[i] = flights[i + 1] /\ intended'[i] = intended[i + 1] /\ ring' = ring
      BY <1>3
    <3>. QED
      BY <3>2, <3>3
  <2>3. /\ Waiting' + Len(pending) <= RingSize
        /\ call.what \in {"write", "send"} => Waiting' + call.free <= RingSize
    <3>1. call.what \in {"write", "send"} => Waiting + call.free <= RingSize
      BY <1>1 DEF ContentInv
    <3>2. call.free \in Nat /\ RingSize \in Nat
      BY <1>1, PointerFacts, Sizes DEF SendInv, TypeOK
    <3> HIDE DEF n
    <3>. QED
      BY <1>2, <1>4, <2>1, <3>1, <3>2
  <2>4. Distance(sentPtr, writtenPtr)' = Distance(sentPtr, writtenPtr)
        /\ Held(ring, sentPtr, pending)' = Held(ring, sentPtr, pending)
    BY <1>3
  <2>. QED
    BY <1>3, <2>1, <2>2, <2>3, <2>4 DEF ContentInv
<1>. QED
  BY <1>6, <1>7

\* What is pending becomes the last datagram, right behind the one before.
LEMMA CommandSent ==
  ASSUME SendInv, SentInv, SendCommand, call' = NoCall,
         UNCHANGED <<ring, readPtr, writtenPtr, sound>>
  PROVE  SentInv'
<1>1. SUFFICES ASSUME FlightsInv, ContentInv PROVE FlightsInv' /\ ContentInv'
  BY DEF SentInv
<1> DEFINE n == Distance(sentPtr, writtenPtr)  N == Len(flights)
           new == [from |-> sentPtr, length |-> n]
<1>2. /\ readPtr \in Pointers /\ sentPtr \in Pointers /\ writtenPtr \in Pointers
      /\ Waiting \in Nat /\ N \in Nat /\ Len(intended) = N /\ n \in Nat
      /\ pending \in Seq(Pointers)
  BY SendTypes, DistanceType
<1>3. /\ n = Len(pending) /\ Waiting + n <= RingSize /\ Waiting + n < PtrMod
      /\ writtenPtr = (sentPtr + n) % PtrMod
  <2>1. n = Len(pending) /\ Waiting + n <= RingSize
    BY <1>1 DEF ContentInv
  <2>2. writtenPtr = (sentPtr + n) % PtrMod
    BY <1>2, Arrived
  <2> HIDE DEF n
  <2>3. Waiting + n < PtrMod
    BY <1>2, <2>1, Sizes
  <2>. QED
    BY <2>1, <2>2, <2>3
<1>4. sentPtr' = writtenPtr /\ Waiting' = Waiting + n
  <2>1. sentPtr' = writtenPtr /\ readPtr' = readPtr
    BY DEF SendCommand
  <2> HIDE DEF n
  <2>2. Distance(readPtr, (sentPtr + n) % PtrMod) = Waiting + n
    BY <1>2, <1>3, Depart DEF Waiting
  <2>. QED
    BY <1>3, <2>1, <2>2 DEF Waiting
<1>5. /\ Len(flights') = N + 1 /\ Len(intended') = N + 1
      /\ \A i \in 1 .. N : flights'[i] = flights[i] /\ intended'[i] = intended[i]
      /\ flights'[N + 1] = new /\ intended'[N + 1] = pending
      /\ pending' = <<>> /\ flights' # <<>>
  <2>1. /\ flights \in Seq([from : Pointers, length : Pointers])
        /\ intended \in Seq(Seq(Pointers))
        /\ new \in [from : Pointers, length : Pointers]
    BY <1>2, DistancePointer DEF SendInv, TypeOK
  <2>2. flights' = Append(flights, new) /\ intended' = Append(intended, pending)
        /\ pending' = <<>>
    BY DEF SendCommand
  <2> HIDE DEF new
  <2>3. /\ Len(flights') = N + 1
        /\ \A i \in 1 .. N : flights'[i] = flights[i]
        /\ flights'[N + 1] = new /\ flights' # <<>>
    BY <2>1, <2>2
  <2>4. /\ Len(intended') = N + 1
        /\ \A i \in 1 .. N : intended'[i] = intended[i]
        /\ intended'[N + 1] = pending
    BY <1>2, <2>1, <2>2
  <2>. QED
    BY <2>2, <2>3, <2>4
<1>7. ASSUME NEW i \in 1 .. N + 1
      PROVE  Behind(flights[i])' = IF i = N + 1 THEN Waiting ELSE Behind(flights[i])
  <2>1. Behind(flights[i])' = Distance(readPtr, flights'[i].from)
    BY DEF Behind
  <2>2. CASE i = N + 1
    BY <1>5, <2>1, <2>2 DEF Waiting
  <2>3. CASE i # N + 1
    <3>1. i \in 1 .. N
      BY <1>2, <2>3
    <3>. QED
      BY <1>5, <2>1, <2>3, <3>1 DEF Behind
  <2>. QED
    BY <2>2, <2>3
<1>8. FlightsInv'
  <2>1. flights'[1].from = readPtr'
    <3>1. CASE N = 0
      <4>1. flights = <<>>
        BY <3>1 DEF SendInv, TypeOK
      <4>2. readPtr = sentPtr /\ flights'[1] = new
        BY <1>1, <1>5, <3>1, <4>1 DEF FlightsInv
      <4>. QED
        BY <4>2
    <3>2. CASE N # 0
      <4>1. flights # <<>> /\ 1 \in 1 .. N
        BY <1>2, <3>2
      <4>. QED
        BY <1>1, <1>5, <4>1 DEF FlightsInv
    <3>. QED
      BY <3>1, <3>2
  <2>2. ASSUME NEW i \in 1 .. N + 1
        PROVE  /\ Behind(flights[i])' + flights'[i].length <= Waiting'
               /\ (flights'[i].from + flights'[i].length) % PtrMod
                    = IF i = N + 1 THEN sentPtr' ELSE flights'[i + 1].from
               /\ \A j \in 1 .. i - 1 :
                    Behind(flights[j])' + flights'[j].length <= Behind(flights[i])'
    <3>1. CASE i = N + 1
      <4>1. flights'[i] = new /\ new.from = sentPtr /\ new.length = n
        BY <1>5, <3>1
      <4>2. Behind(flights[i])' = Waiting
        BY <1>7, <3>1
      <4>3. Behind(flights[i])' + flights'[i].length <= Waiting'
        <5> HIDE DEF n, new
        <5>. QED
          BY <1>2, <1>4, <4>1, <4>2
      <4>4. (flights'[i].from + flights'[i].length) % PtrMod = sentPtr'
        BY <1>3, <1>4, <4>1
      <4>5. ASSUME NEW j \in 1 .. i - 1
            PROVE  Behind(flights[j])' + flights'[j].length <= Behind(flights[i])'
        <5>1. j \in 1 .. N /\ j \in 1 .. N + 1 /\ j # N + 1
          BY <1>2, <3>1
        <5>2. Behind(flights[j])' = Behind(flights[j]) /\ flights'[j] = flights[j]
          BY <1>5, <1>7, <5>1
        <5>3. Behind(flights[j]) + flights[j].length <= Waiting
          BY <1>1, <5>1 DEF FlightsInv
        <5>. QED
          BY <4>2, <5>2, <5>3
      <4>. QED
        BY <3>1, <4>3, <4>4, <4>5
    <3>2. CASE i # N + 1
      <4>1. i \in 1 .. N /\ \A j \in 1 .. i - 1 : j \in 1 .. N
        BY <1>2, <3>2
      <4>2. /\ Behind(flights[i]) \in Nat /\ flights[i].length \in Nat
            /\ Behind(flights[i]) + flights[i].length <= Waiting
            /\ (flights[i].from + flights[i].length) % PtrMod
                 = IF i = N THEN sentPtr ELSE flights[i + 1].from
        BY <1>1, <4>1, SendTypes DEF FlightsInv
      <4>3. /\ flights'[i] = flights[i] /\ Behind(flights[i])' = Behind(flights[i])
            /\ \A j \in 1 .. i - 1 : /\ flights'[j] = flights[j]
                                     /\ Behind(flights[j])' = Behind(flights[j])
        <5>1. ASSUME NEW j \in 1 .. N PROVE Behind(flights[j])' = Behind(flights[j])
          <6>1. j \in 1 .. N + 1 /\ j # N + 1
            BY <1>2
          <6>. QED
            BY <1>7, <6>1
        <5>. QED
          BY <1>5, <4>1, <5>1
      <4>4. Behind(flights[i])' + flights'[i].length <= Waiting'
        <5> HIDE DEF n
        <5>. QED
          BY <1>2, <1>4, <4>2, <4>3
      <4>5. (flights'[i].from + flights'[i].length) % PtrMod = flights'[i + 1].from
        <5>1. CASE i = N
          BY <1>5, <4>2, <4>3, <5>1
        <5>2. CASE i # N
          <6>1. i + 1 \in 1 .. N
            BY <1>2, <4>1, <5>2
          <6>. QED
            BY <1>5, <4>2, <4>3, <5>2, <6>1
        <5>. QED
          BY <5>1, <5>2
      <4>6. \A j \in 1 .. i - 1 :
              Behind(flights[j])' + flights'[j].length <= Behind(flights[i])'
        BY <1>1, <4>1, <4>3 DEF FlightsInv
      <4>. QED
        BY <3>2, <4>4, <4>5, <4>6
    <3>. QED
      BY <3>1, <3>2
  <2>. QED
    BY <1>5, <2>1, <2>2 DEF FlightsInv
<1>9. ContentInv'
  <2>1. Waiting' + Len(pending') <= RingSize
    <3> HIDE DEF n
    <3>. QED
      BY <1>2, <1>3, <1>4, <1>5
  <2>2. Distance(sentPtr, writtenPtr)' = 0 /\ Len(pending') = 0
    BY <1>2, <1>4, <1>5, NoDistance
  <2>3. Held(ring', sentPtr', pending') /\ ring' = ring
    BY <1>5 DEF Held
  <2>4. ASSUME NEW i \in 1 .. N + 1
        PROVE  /\ flights'[i].length = Len(intended'[i])
               /\ Held(ring, flights'[i].from, intended'[i])
    <3>1. CASE i = N + 1
      BY <1>1, <1>3, <1>5, <3>1 DEF ContentInv
    <3>2. CASE i # N + 1
      <4>1. i \in 1 .. N
        BY <1>2, <3>2
      <4>. QED
        BY <1>1, <1>5, <4>1 DEF ContentInv
    <3>. QED
      BY <3>1, <3>2
  <2>5. call'.what = "none"
    BY DEF NoCall
  <2>. QED
    BY <1>5, <2>1, <2>2, <2>3, <2>4, <2>5 DEF ContentInv
<1>. QED
  BY <1>8, <1>9

\* The free size is what waiting datagrams leave of the ring.
LEMMA CallWriteSent ==
  ASSUME SendInv, SentInv, NEW size, NEW what \in {"write", "send"},
         CallWrite(what, size)
  PROVE  SentInv'
<1>1. SUFFICES ASSUME FlightsInv, ContentInv PROVE FlightsInv' /\ ContentInv'
  BY DEF SentInv, CallWrite, histVars
<1>2. UNCHANGED <<ring, readPtr, sentPtr, writtenPtr, flights, pending, intended>>
      /\ call'.free = FreeSize
  BY DEF CallWrite, chipVars, histVars
<1>3. Waiting + FreeSize <= RingSize
  <2>1. Waiting \in Nat /\ Waiting <= RingSize
    <3>1. Waiting + Len(pending) <= RingSize
      BY <1>1 DEF ContentInv
    <3>. QED
      BY <3>1, SendTypes, Sizes
  <2>2. FreeSize = (RingSize - Waiting) % PtrMod
    BY DEF FreeSize, Waiting
  <2>3. RingSize - Waiting \in 0 .. PtrMod - 1
    BY <2>1, Sizes
  <2>4. FreeSize = RingSize - Waiting
    BY <2>2, <2>3, Sizes, ModSmall
  <2>. QED
    BY <2>1, <2>4, Sizes
<1>4. FlightsInv'
  BY <1>1, <1>2 DEF FlightsInv, Behind, Waiting
<1>5. ContentInv'
  BY <1>1, <1>2, <1>3 DEF ContentInv, Waiting, Held
<1>. QED
  BY <1>4, <1>5

\* Copying puts the bytes behind the m that wait and are pending, and damages
\* none of those.
LEMMA CopiedBytes ==
  ASSUME SendInv, NEW bytes \in Seq(Pointers), Copied(bytes),
         NEW m \in Nat, m = Waiting + writeOffset, m + Len(bytes) <= RingSize
  PROVE  /\ \A k \in 0 .. m - 1 : Byte(ring', readPtr, k) = Byte(ring, readPtr, k)
         /\ \A j \in 0 .. Len(bytes) - 1 :
              Byte(ring', readPtr, m + j) = bytes[j + 1]
         /\ Distance(sentPtr, writtenPtr') = writeOffset + Len(bytes)
<1> DEFINE n == Len(bytes)  start == (sentPtr + writeOffset) % PtrMod
           At(k) == (readPtr + k) % RingSize
<1>1. /\ readPtr \in Pointers /\ sentPtr \in Pointers
      /\ readPtr \in Int /\ sentPtr \in Int
      /\ writeOffset \in Nat /\ n \in Nat /\ Waiting \in Nat
      /\ RingSize \in Nat \ {0} /\ PtrMod \in Nat
      /\ m + n <= RingSize /\ m + n < PtrMod
  <2>1. readPtr \in Pointers /\ sentPtr \in Pointers /\ Waiting \in Nat
    BY SendTypes
  <2>2. writeOffset \in Nat /\ n \in Nat
    BY DEF SendInv, TypeOK
  <2>3. /\ RingSize \in Nat \ {0} /\ PtrMod \in Nat /\ m + n <= RingSize
        /\ RingSize < PtrMod
    BY Sizes
  <2> HIDE DEF n
  <2>4. m + n < PtrMod
    BY <2>2, <2>3
  <2>. QED
    BY <2>1, <2>2, <2>3, <2>4, PointerType
<1> HIDE DEF n
<1>2. /\ start \in Pointers /\ start \in Int
      /\ Waiting + writeOffset < PtrMod /\ writeOffset < PtrMod
      /\ writeOffset + n < PtrMod
  <2>1. sentPtr + writeOffset \in Int
    BY <1>1
  <2>2. start \in Pointers
    BY <2>1, PointerType
  <2> HIDE DEF start, At
  <2>. QED
    BY <1>1, <2>2, PointerType
<1>3. Distance(readPtr, start) = m
  BY <1>1, <1>2, Depart DEF Waiting
<1>4. Distance(sentPtr, writtenPtr') = writeOffset + n
  <2>1. Distance(sentPtr, sentPtr) = 0 /\ 0 + writeOffset = writeOffset
    BY <1>1, NoDistance
  <2>2. Distance(sentPtr, start) = writeOffset
    <3>1. Distance(sentPtr, sentPtr) + writeOffset < PtrMod
      BY <1>2, <2>1
    <3>. QED
      BY <1>1, <2>1, <3>1, Depart
  <2>3. writtenPtr' = (start + n) % PtrMod
    BY DEF Copied, n
  <2> HIDE DEF start
  <2>. QED
    BY <1>1, <1>2, <2>2, <2>3, Depart
<1>5. ASSUME NEW k \in Int PROVE At(k) \in 0 .. RingSize - 1
  <2>1. readPtr + k \in Int
    BY <1>1
  <2>. QED
    BY <1>1, <2>1, ModType
<1>6. ASSUME NEW k \in Int PROVE (At(k) - start) % RingSize = (k - m) % RingSize
  <2> HIDE DEF start
  <2>1. (((readPtr + k) % RingSize) - start) % RingSize
          = (k - Distance(readPtr, start)) % RingSize
    BY <1>1, <1>2, PlaceIs
  <2>. QED
    BY <1>3, <2>1
<1>7. \A i \in 0 .. RingSize - 1 :
        ring'[i] = IF (i - start) % RingSize < n
                   THEN bytes[((i - start) % RingSize) + 1] ELSE ring[i]
  <2>1. DOMAIN ring = 0 .. RingSize - 1
    BY DEF SendInv, TypeOK
  <2>. QED
    BY <2>1 DEF Copied, n
<1>8. \A k \in Int :
        Byte(ring', readPtr, k) = IF (k - m) % RingSize < n
                                  THEN bytes[((k - m) % RingSize) + 1]
                                  ELSE Byte(ring, readPtr, k)
  <2>1. \A k \in Int : Byte(ring', readPtr, k) = ring'[At(k)]
                       /\ Byte(ring, readPtr, k) = ring[At(k)]
    BY DEF Byte
  <2> HIDE DEF At, n, start
  <2>. QED
    BY <1>5, <1>6, <1>7, <2>1
<1>9. ASSUME NEW k \in 0 .. m - 1
      PROVE  Byte(ring', readPtr, k) = Byte(ring, readPtr, k)
  <2> DEFINE place == (k - m) % RingSize
  <2>1. k \in Int /\ k - m \in Int
    BY <1>1
  <2>2. place \in Int
    BY <1>1, <2>1, ModType
  <2>3. place >= n
    BY <1>1, PlaceBefore
  <2> HIDE DEF place, n
  <2>4. ~(place < n)
    BY <1>1, <2>2, <2>3
  <2>. QED
    BY <1>8, <2>1, <2>4 DEF place
<1>10. ASSUME NEW j \in 0 .. n - 1
       PROVE  Byte(ring', readPtr, m + j) = bytes[j + 1]
  <2>1. m + j \in Int /\ j < n
    BY <1>1
  <2>2. ((m + j) - m) % RingSize = j
    BY <1>1, PlaceBehind
  <2> HIDE DEF n
  <2>. QED
    BY <1>8, <2>1, <2>2
<1>. QED
  BY <1>4, <1>9, <1>10 DEF n

\* A write that finds room extends what is pending and leaves what waits.
LEMMA WriteSent == SendInv /\ SentInv /\ Write => SentInv'
<1>1. SUFFICES ASSUME SendInv, Write, sound', FlightsInv, ContentInv
               PROVE  FlightsInv' /\ ContentInv'
  BY DEF SentInv, Write
<1> DEFINE n == Accepted  p == Len(pending)  m == Waiting + p
           bytes == Produced(Accepted)
<1>2. /\ readPtr \in Pointers /\ sentPtr \in Pointers /\ writtenPtr \in Pointers
      /\ Waiting \in Nat /\ p \in Nat /\ m \in Nat /\ pending \in Seq(Pointers)
      /\ n \in Nat /\ bytes \in Seq(Pointers) /\ Len(bytes) = n
      /\ RingSize \in Nat /\ call.free \in Nat /\ n <= call.free
  <2>1. n \in Nat /\ n <= call.free
    BY <1>1, AcceptedType DEF SendInv
  <2>2. bytes \in Seq(Pointers) /\ Len(bytes) = n
    BY <1>1, <2>1, ProducedType DEF SendInv
  <2>3. call.free \in Nat
    BY <1>1, PointerFacts DEF SendInv, TypeOK
  <2>. QED
    BY <1>1, <2>1, <2>2, <2>3, SendTypes, Sizes
<1>3. /\ call.what \in {"write", "send"} /\ p = writeOffset
      /\ p + n <= call.free /\ Waiting + call.free <= RingSize
  BY <1>1 DEF Write, SendInv, OffsetInv, ContentInv
<1>4. m + n <= RingSize
  <2> HIDE DEF n, p
  <2>. QED
    BY <1>2, <1>3
<1>5. /\ \A k \in 0 .. m - 1 : Byte(ring', readPtr, k) = Byte(ring, readPtr, k)
      /\ \A j \in 0 .. n - 1 : Byte(ring', readPtr, m + j) = bytes[j + 1]
      /\ Distance(sentPtr, writtenPtr') = p + n
  <2>1. CASE call.free = 0
    <3>1. ring' = ring /\ writtenPtr' = writtenPtr
      BY <1>1, <2>1 DEF Write
    <3>2. Distance(sentPtr, writtenPtr) = p
      BY <1>1 DEF ContentInv
    <3> HIDE DEF n, p, bytes
    <3>3. n = 0 /\ p + n = p
      BY <1>2, <2>1
    <3>. QED
      BY <3>1, <3>2, <3>3
  <2>2. CASE call.free # 0
    <3>1. Copied(bytes)
      BY <1>1, <2>2 DEF Write
    <3>2. m = Waiting + writeOffset
      BY <1>3
    <3> HIDE DEF n, m, bytes
    <3>3. m + Len(bytes) <= RingSize
      BY <1>2, <1>4
    <3>4. /\ \A k \in 0 .. m - 1 : Byte(ring', readPtr, k) = Byte(ring, readPtr, k)
          /\ \A j \in 0 .. Len(bytes) - 1 : Byte(ring', readPtr, m + j) = bytes[j + 1]
          /\ Distance(sentPtr, writtenPtr') = writeOffset + Len(bytes)
      BY <1>1, <1>2, <3>1, <3>2, <3>3, CopiedBytes
    <3>. QED
      BY <1>2, <1>3, <3>4
  <2>. QED
    BY <2>1, <2>2
<1>6. /\ UNCHANGED <<readPtr, sentPtr, flights, intended>>
      /\ pending' = pending \o bytes /\ call'.what \notin {"write", "send"}
  <2>1. CASE call.what = "write"
    BY <1>1, <2>1 DEF Write, NoCall
  <2>2. CASE call.what = "send"
    <3>1. call' = [call EXCEPT !.what = "command"]
      BY <1>1, <2>2 DEF Write
    <3>2. call'.what = "command"
      BY <1>1, <3>1 DEF SendInv, TypeOK
    <3>. QED
      BY <1>1, <3>2 DEF Write
  <2>. QED
    BY <1>3, <2>1, <2>2
<1>7. FlightsInv'
  BY <1>1, <1>6 DEF FlightsInv, Behind, Waiting
<1>8. \* Bytes between two places on this side of the write stay.
      ASSUME NEW from \in Pointers, NEW part \in Seq(Pointers),
             Distance(readPtr, from) + Len(part) <= m, Held(ring, from, part)
      PROVE  Held(ring', from, part)
  <2> DEFINE d == Distance(readPtr, from)
  <2>1. d \in Nat /\ from = (readPtr + d) % PtrMod
    BY <1>2, DistanceType, Arrived
  <2> HIDE DEF d
  <2>2. ASSUME NEW i \in 1 .. Len(part)
        PROVE  Byte(ring', from, i - 1) = part[i]
    <3>1. i - 1 \in Int /\ d \in Int /\ Len(part) \in Nat
      BY <2>1
    <3>2. d + Len(part) <= m
      BY <1>8 DEF d
    <3>3. d + (i - 1) \in 0 .. m - 1
      <4> HIDE DEF m
      <4>. QED
        BY <1>2, <2>1, <3>1, <3>2
    <3>4. /\ Byte(ring', from, i - 1) = Byte(ring', readPtr, d + (i - 1))
          /\ Byte(ring, from, i - 1) = Byte(ring, readPtr, d + (i - 1))
      BY <1>2, <2>1, <3>1, ByteMoved
    <3>. QED
      BY <1>5, <1>8, <3>3, <3>4 DEF Held
  <2>. QED
    BY <2>2 DEF Held
<1>9. Held(ring', sentPtr, pending')
  <2>1. Held(ring', sentPtr, pending)
    <3>1. Distance(readPtr, sentPtr) + Len(pending) <= m
      BY <1>2 DEF Waiting
    <3>. QED
      BY <1>1, <1>2, <1>8, <3>1 DEF ContentInv
  <2>2. sentPtr = (readPtr + Waiting) % PtrMod
    BY <1>2, Arrived DEF Waiting
  <2>3. Len(pending') = p + n
    <3> HIDE DEF bytes, n
    <3>. QED
      BY <1>2, <1>6, ConcatFacts
  <2>4. ASSUME NEW i \in 1 .. p + n
        PROVE  Byte(ring', sentPtr, i - 1) = pending'[i]
    <3>1. i \in Int /\ i - 1 \in Int
      BY <1>2
    <3>2. CASE i <= p
      <4>1. i \in 1 .. p
        BY <1>2, <3>1, <3>2
      <4>2. pending'[i] = pending[i]
        <5> HIDE DEF bytes
        <5>. QED
          BY <1>2, <1>6, <4>1
      <4>. QED
        BY <2>1, <4>1, <4>2 DEF Held
    <3>3. CASE i > p
      <4> DEFINE j == i - p - 1
      <4>1. j \in 0 .. n - 1 /\ j + 1 = i - p /\ Waiting + (i - 1) = m + j
        <5> HIDE DEF n
        <5>. QED
          BY <1>2, <3>1, <3>3
      <4>2. pending'[i] = bytes[i - p]
        <5> HIDE DEF bytes, n
        <5>. QED
          BY <1>2, <1>6, <3>3
      <4>3. Byte(ring', sentPtr, i - 1) = Byte(ring', readPtr, Waiting + (i - 1))
        <5> HIDE DEF j, n, m, p, bytes
        <5>1. Waiting \in Int
          BY <1>2
        <5>. QED
          BY <1>2, <2>2, <3>1, <5>1, ByteMoved
      <4> HIDE DEF j, n, m, bytes
      <4>. QED
        BY <1>5, <4>1, <4>2, <4>3
    <3>. QED
      BY <1>2, <3>1, <3>2, <3>3
  <2>. QED
    BY <2>3, <2>4 DEF Held
<1>10. ASSUME NEW i \in 1 .. Len(flights)
       PROVE  /\ flights[i].length = Len(intended[i])
              /\ Held(ring', flights[i].from, intended[i])
  <2>1. /\ flights[i].from \in Pointers /\ flights[i].length \in Nat
        /\ Behind(flights[i]) \in Nat /\ intended[i] \in Seq(Pointers)
    BY <1>1, SendTypes
  <2>2. /\ flights[i].length = Len(intended[i])
        /\ Held(ring, flights[i].from, intended[i])
    BY <1>1 DEF ContentInv
  <2>3. Behind(flights[i]) + flights[i].length <= Waiting
    BY <1>1 DEF FlightsInv
  <2>4. Distance(readPtr, flights[i].from) + Len(intended[i]) <= m
    BY <1>2, <2>1, <2>2, <2>3 DEF Behind
  <2>. QED
    BY <1>8, <2>1, <2>2, <2>4
<1>11. ContentInv'
  <2>1. Len(pending') = p + n
    <3> HIDE DEF bytes, n
    <3>. QED
      BY <1>2, <1>6, ConcatFacts
  <2>2. Waiting' + Len(pending') <= RingSize
    <3>1. Waiting' = Waiting
      BY <1>6 DEF Waiting
    <3> HIDE DEF n, p
    <3>. QED
      BY <1>2, <1>4, <2>1, <3>1
  <2>. QED
    BY <1>5, <1>6, <1>9, <1>10, <2>1, <2>2 DEF ContentInv
<1>. QED
  BY <1>7, <1>11

\* A socket reopened with nothing left behind starts anew.
LEMMA ReopenSent == SendInv /\ SentInv /\ Reopen => SentInv'
<1>1. SUFFICES ASSUME Reopen PROVE FlightsInv' /\ ContentInv'
  BY DEF SentInv
<1>2. /\ readPtr' = 0 /\ sentPtr' = 0 /\ writtenPtr' = 0
      /\ flights' = <<>> /\ intended' = <<>> /\ pending' = <<>>
      /\ call'.what = "none"
  BY <1>1 DEF Reopen, driverVars, NoCall
<1>3. Distance(0, 0) = 0
  BY PointerFacts, NoDistance
<1>4. Waiting' = 0 /\ Distance(sentPtr, writtenPtr)' = 0
  BY <1>2, <1>3 DEF Waiting
<1>5. FlightsInv'
  BY <1>2 DEF FlightsInv
<1>6. ContentInv'
  BY <1>2, <1>4, Sizes DEF ContentInv, Held
<1>. QED
  BY <1>5, <1>6

\* Every step keeps the contents.
LEMMA NextSent == SendInv /\ SentInv /\ [Next]_vars => SentInv'
<1>1. SUFFICES ASSUME SendInv, SentInv, [Next]_vars PROVE SentInv'
  OBVIOUS
<1>2. CASE Send
  <2>1. call' = NoCall
    BY <1>2 DEF Send
  <2>. QED
    BY <1>1, <1>2, <2>1, CommandSent DEF Send
<1>3. CASE SendBuffer
  BY <1>1, <1>3, CommandSent DEF SendBuffer
<1>4. CASE UNCHANGED vars
  <2>1. UNCHANGED <<ring, readPtr, sentPtr, writtenPtr, flights, call, pending,
                    intended, sound>>
    BY <1>4 DEF vars, chipVars, driverVars, histVars
  <2>. QED
    BY <1>1, <2>1 DEF SentInv, FlightsInv, ContentInv, Waiting, Behind, Held
<1>. QED
  BY <1>1, <1>2, <1>3, <1>4, TransmitSent, CallWriteSent, WriteSent, ReopenSent
     DEF Next

\* Each datagram that waits for its transmission holds the bytes written since
\* the send before it, wherever the pointers wrap and whatever is written while
\* it waits.
THEOREM WrittenIsSent == Spec => []SentIsWritten
<1>1. SendInv /\ SentInv => SentIsWritten
  <2>1. SUFFICES ASSUME SendInv, FlightsInv, ContentInv,
                        NEW i \in DOMAIN flights
                 PROVE  Contents(flights[i]) = intended[i]
    BY DEF SentInv, SentIsWritten
  <2>2. i \in 1 .. Len(flights)
    BY <2>1 DEF SendInv, TypeOK
  <2>3. /\ flights[i].from \in Int /\ intended[i] \in Seq(Pointers)
        /\ flights[i].length = Len(intended[i])
        /\ Held(ring, flights[i].from, intended[i])
    BY <2>1, <2>2, SendTypes, PointerType DEF ContentInv
  <2>4. ASSUME NEW k \in 1 .. Len(intended[i])
        PROVE  ring[(flights[i].from + k - 1) % RingSize] = intended[i][k]
    <3>1. flights[i].from + k - 1 = flights[i].from + (k - 1)
      BY <2>3
    <3>. QED
      BY <2>3, <3>1 DEF Held, Byte
  <2>5. intended[i] = [k \in 1 .. Len(intended[i]) |-> intended[i][k]]
    BY <2>3
  <2>. QED
    BY <2>3, <2>4, <2>5 DEF Contents
<1>. QED
  BY <1>1, InitSend, NextSend, InitSent, NextSent, PTL DEF Spec

=============================================================================
