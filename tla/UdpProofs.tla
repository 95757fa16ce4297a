------------------------------ MODULE UdpProofs ------------------------------
(***************************************************************************)
(* Proofs about UdpReceive for every size of the ring, width of the        *)
(* pointers, size of the header and mix of datagrams.                      *)
(***************************************************************************)
EXTENDS UdpReceive, PointerProofs, SequenceTheorems

LEMMA HeaderFits ==
  /\ RingSize \in Nat \ {0} /\ PtrMod \in Nat \ {0}
  /\ PtrMod > RingSize /\ PtrMod % RingSize = 0
  /\ HeaderSize \in Nat \ {0} /\ HeaderSize <= RingSize
  BY PointerAssumption, RingAssumption

-----------------------------------------------------------------------------
(* The bytes of a ring from a pointer on.                                  *)

StartsAt(buffer, from, k) == Byte(buffer, from, k).place = 0

TotalAt(buffer, from, k) == HeaderSize + Byte(buffer, from, k).of

\* Behind a pointer there are len bytes: what is left of a datagram, then whole
\* datagrams, one after the other.
Queued(buffer, from, len, left) ==
  /\ left \in 0 .. len
  /\ left < len => StartsAt(buffer, from, left)
  /\ \A k \in 0 .. left - 1 : ~StartsAt(buffer, from, k)
  /\ \A k \in left .. len - 1 : StartsAt(buffer, from, k) =>
       LET total == TotalAt(buffer, from, k)
       IN  /\ k + total <= len
           /\ k + total < len => StartsAt(buffer, from, k + total)
           /\ \A j \in 1 .. total - 1 : ~StartsAt(buffer, from, k + j)

Buffers == [0 .. RingSize - 1 -> Bytes]

LEMMA ByteType ==
  ASSUME NEW buffer \in Buffers, NEW from \in Int, NEW k \in Int
  PROVE  Byte(buffer, from, k) \in Bytes
<1>1. (from + k) % RingSize \in 0 .. RingSize - 1
  BY HeaderFits, ModType
<1> QED
  BY <1>1 DEF Byte, Buffers

LEMMA TotalType ==
  ASSUME NEW buffer \in Buffers, NEW from \in Int, NEW k \in Int
  PROVE  /\ TotalAt(buffer, from, k) \in Nat \ {0}
         /\ TotalAt(buffer, from, k) - HeaderSize = Byte(buffer, from, k).of
         /\ TotalAt(buffer, from, k) >= HeaderSize
         /\ Byte(buffer, from, k).of \in Payloads
<1>1. Byte(buffer, from, k).of \in Payloads
  BY ByteType DEF Bytes
<1> DEFINE of == Byte(buffer, from, k).of
<1>2. of \in Nat /\ HeaderSize \in Nat \ {0}
  BY <1>1, HeaderFits, RingAssumption
<1> HIDE DEF of
<1>3. /\ HeaderSize + of \in Nat \ {0} /\ (HeaderSize + of) - HeaderSize = of
      /\ HeaderSize + of >= HeaderSize
  BY <1>2
<1> QED
  BY <1>1, <1>3 DEF TotalAt, of

\* A pointer that moves on by n bytes has in front of it whatever there is from
\* there: rest bytes without a start, and then datagrams.
LEMMA QueuedFrom ==
  ASSUME NEW buffer \in Buffers, NEW from \in Pointers, NEW len \in Nat, NEW left \in Nat,
         Queued(buffer, from, len, left),
         NEW n \in 0 .. len, NEW rest \in 0 .. len - n, left <= n + rest,
         n + rest < len => StartsAt(buffer, from, n + rest),
         \A k \in n .. n + rest - 1 : ~StartsAt(buffer, from, k)
  PROVE  Queued(buffer, (from + n) % PtrMod, len - n, rest)
<1> DEFINE to == (from + n) % PtrMod
<1>1. n \in Int /\ 0 <= n /\ n <= len /\ rest \in Int /\ 0 <= rest /\ from \in Int
  BY PointerType
<1>2. \A k \in Int : Byte(buffer, to, k) = Byte(buffer, from, n + k)
  BY <1>1, ByteMoved
<1>3. \A k \in Int : TotalAt(buffer, from, n + k) \in Nat
  BY <1>1, TotalType
<1> HIDE DEF to
<1>4. rest < len - n => StartsAt(buffer, to, rest)
  BY <1>1, <1>2 DEF StartsAt
<1>5. ASSUME NEW k \in 0 .. rest - 1 PROVE ~StartsAt(buffer, to, k)
  <2>1. n + k \in n .. n + rest - 1 /\ k \in Int
    BY <1>1
  <2> QED
    BY <1>2, <2>1 DEF StartsAt
<1>6. ASSUME NEW k \in rest .. (len - n) - 1, StartsAt(buffer, to, k)
      PROVE  LET total == TotalAt(buffer, to, k)
             IN  /\ k + total <= len - n
                 /\ k + total < len - n => StartsAt(buffer, to, k + total)
                 /\ \A j \in 1 .. total - 1 : ~StartsAt(buffer, to, k + j)
  <2> DEFINE total == TotalAt(buffer, to, k)
  <2>1. n + k \in left .. len - 1 /\ k \in Int
    BY <1>1
  <2>2. StartsAt(buffer, from, n + k) /\ total = TotalAt(buffer, from, n + k) /\ total \in Nat
    BY <1>2, <1>3, <1>6, <2>1 DEF StartsAt, TotalAt
  <2>3. /\ (n + k) + total <= len
        /\ (n + k) + total < len => StartsAt(buffer, from, (n + k) + total)
        /\ \A j \in 1 .. total - 1 : ~StartsAt(buffer, from, (n + k) + j)
    BY <2>1, <2>2 DEF Queued
  <2> HIDE DEF total
  <2>4. \A i \in Int : StartsAt(buffer, to, k + i) <=> StartsAt(buffer, from, (n + k) + i)
    <3> TAKE i \in Int
    <3>1. k + i \in Int /\ n + (k + i) = (n + k) + i
      BY <1>1, <2>1
    <3> QED
      BY <1>2, <3>1 DEF StartsAt
  <2>5. /\ k + total <= len - n
        /\ k + total < len - n => StartsAt(buffer, to, k + total)
    BY <1>1, <2>1, <2>2, <2>3, <2>4
  <2>6. \A j \in 1 .. total - 1 : ~StartsAt(buffer, to, k + j)
    BY <2>2, <2>3, <2>4
  <2> QED
    BY <2>5, <2>6 DEF total
<1> QED
  BY <1>4, <1>5, <1>6 DEF Queued, to

\* Reading within the current datagram.
LEMMA QueuedTake ==
  ASSUME NEW buffer \in Buffers, NEW from \in Pointers, NEW len \in Nat, NEW left \in Nat,
         Queued(buffer, from, len, left), NEW n \in 0 .. left
  PROVE  Queued(buffer, (from + n) % PtrMod, len - n, left - n)
<1>1. left <= len /\ n \in Int /\ 0 <= n /\ n <= left
  BY DEF Queued
<1>2. n \in 0 .. len /\ left - n \in 0 .. len - n /\ n + (left - n) = left
  BY <1>1
<1>3. /\ left < len => StartsAt(buffer, from, left)
      /\ \A k \in n .. left - 1 : ~StartsAt(buffer, from, k)
  BY <1>1 DEF Queued
<1> QED
  BY <1>2, <1>3, QueuedFrom

\* Going on with a datagram that begins behind what is left.
LEMMA QueuedSkip ==
  ASSUME NEW buffer \in Buffers, NEW from \in Pointers, NEW len \in Nat, NEW left \in Nat,
         Queued(buffer, from, len, left),
         NEW n \in left .. len, n < len => StartsAt(buffer, from, n)
  PROVE  Queued(buffer, (from + n) % PtrMod, len - n, 0)
<1>1. n \in 0 .. len /\ 0 \in 0 .. len - n /\ left <= n + 0 /\ n + 0 = n
  OBVIOUS
<1>2. \A k \in n .. n - 1 : FALSE
  BY <1>1
<1> QED
  BY <1>1, <1>2, QueuedFrom

\* Reading the header of the next datagram: its payload is left.
LEMMA QueuedHeader ==
  ASSUME NEW buffer \in Buffers, NEW from \in Pointers, NEW len \in Nat,
         Queued(buffer, from, len, 0), len > 0
  PROVE  /\ HeaderSize <= len
         /\ Queued(buffer, (from + HeaderSize) % PtrMod, len - HeaderSize,
                   Byte(buffer, from, 0).of)
<1> DEFINE of == Byte(buffer, from, 0).of  total == TotalAt(buffer, from, 0)
<1>1. /\ total \in Nat /\ total - HeaderSize = of /\ of \in Nat
      /\ HeaderSize \in Nat \ {0} /\ HeaderSize + of = total
  <2>1. from \in Int /\ 0 \in Int
    BY PointerType
  <2>2. total \in Nat /\ total - HeaderSize = of /\ of \in Payloads
    BY <2>1, TotalType
  <2>3. of \in Nat
    BY <2>2, RingAssumption
  <2> HIDE DEF of
  <2> QED
    BY <2>2, <2>3, HeaderFits DEF TotalAt, of
<1>2. StartsAt(buffer, from, 0)
  BY DEF Queued
<1>3. /\ 0 + total <= len
      /\ 0 + total < len => StartsAt(buffer, from, 0 + total)
      /\ \A j \in 1 .. total - 1 : ~StartsAt(buffer, from, 0 + j)
  <2>1. 0 \in 0 .. len - 1
    OBVIOUS
  <2> QED
    BY <1>2, <2>1 DEF Queued
<1> HIDE DEF of, total
<1>4. total <= len /\ (total < len => StartsAt(buffer, from, total))
  BY <1>1, <1>3
<1>5. \A k \in HeaderSize .. total - 1 : ~StartsAt(buffer, from, k)
  <2> TAKE k \in HeaderSize .. total - 1
  <2>1. k \in 1 .. total - 1 /\ 0 + k = k
    BY <1>1
  <2> QED
    BY <1>3, <2>1
<1>6. HeaderSize \in 0 .. len /\ of \in 0 .. len - HeaderSize /\ 0 <= HeaderSize + of
  BY <1>1, <1>4
<1>7. Queued(buffer, (from + HeaderSize) % PtrMod, len - HeaderSize, of)
  BY <1>1, <1>4, <1>5, <1>6, QueuedFrom
<1> QED
  BY <1>6, <1>7 DEF of

-----------------------------------------------------------------------------
(* A datagram that arrives.                                                *)

Received(buffer, write, payload) ==
  [i \in 0 .. RingSize - 1 |->
     LET place == (i - write) % RingSize
     IN  IF place < HeaderSize + payload THEN [place |-> place, of |-> payload]
                                         ELSE buffer[i]]

\* It overwrites nothing unread and is what follows.
LEMMA ReceivedBytes ==
  ASSUME NEW buffer \in Buffers, NEW read \in Pointers, NEW write \in Pointers,
         NEW payload \in Payloads, NEW step, step = HeaderSize + payload,
         NEW len, len = Distance(read, write), len + step <= RingSize,
         NEW new, new = Received(buffer, write, payload)
  PROVE  /\ new \in Buffers
         /\ \A k \in 0 .. len - 1 : Byte(new, read, k) = Byte(buffer, read, k)
         /\ \A j \in 0 .. step - 1 :
              Byte(new, read, len + j).place = j /\ Byte(new, read, len + j).of = payload
<1> DEFINE At(k) == (read + k) % RingSize
<1>1. /\ len \in Nat /\ payload \in Nat /\ HeaderSize \in Nat /\ RingSize \in Nat \ {0}
      /\ step \in Nat /\ read \in Int /\ write \in Int
  BY DistanceType, PointerType, HeaderFits, RingAssumption
<1>2. \A k \in Int : At(k) \in 0 .. RingSize - 1
  BY <1>1, ModType
<1>3. \A k \in Int : (At(k) - write) % RingSize = (k - len) % RingSize
  BY PlaceIs
<1>4. \A k \in Int : Byte(new, read, k) = new[At(k)] /\ Byte(buffer, read, k) = buffer[At(k)]
  BY DEF Byte
<1> HIDE DEF At
<1>5. \A k \in Int :
        Byte(new, read, k) = IF (k - len) % RingSize < step
                             THEN [place |-> (k - len) % RingSize, of |-> payload]
                             ELSE Byte(buffer, read, k)
  BY <1>2, <1>3, <1>4 DEF Received
<1>6. ASSUME NEW k \in 0 .. len - 1
      PROVE  Byte(new, read, k) = Byte(buffer, read, k)
  <2> DEFINE place == (k - len) % RingSize
  <2>1. k \in Int /\ k - len \in Int
    BY <1>1
  <2>2. place \in Int
    BY <1>1, <2>1, ModType
  <2>3. place >= step
    BY <1>1, PlaceBefore
  <2> HIDE DEF place
  <2>4. ~(place < step)
    BY <1>1, <2>2, <2>3
  <2> QED
    BY <1>5, <2>1, <2>4 DEF place
<1>7. ASSUME NEW j \in 0 .. step - 1
      PROVE  Byte(new, read, len + j).place = j /\ Byte(new, read, len + j).of = payload
  <2>1. len + j \in Int /\ j < step
    BY <1>1
  <2>2. ((len + j) - len) % RingSize = j
    BY <1>1, PlaceBehind
  <2> QED
    BY <1>5, <2>1, <2>2
<1>8. new \in Buffers
  <2>1. ASSUME NEW i \in 0 .. RingSize - 1
        PROVE  (i - write) % RingSize \in Nat
    <3>1. i - write \in Int
      BY <1>1
    <3> QED
      BY <1>1, <3>1, ModType
  <2> QED
    BY <2>1 DEF Received, Buffers, Bytes
<1> QED
  BY <1>6, <1>7, <1>8

LEMMA QueuedReceived ==
  ASSUME NEW buffer \in Buffers, NEW new \in Buffers, NEW read \in Pointers,
         NEW len \in Nat, NEW left \in Nat, NEW payload \in Payloads,
         Queued(buffer, read, len, left),
         \A k \in 0 .. len - 1 : Byte(new, read, k) = Byte(buffer, read, k),
         NEW step, step = HeaderSize + payload, NEW grown, grown = len + step,
         \A j \in 0 .. step - 1 :
           Byte(new, read, len + j).place = j /\ Byte(new, read, len + j).of = payload
  PROVE  Queued(new, read, grown, left)
<1>1. /\ step \in Nat \ {0} /\ payload \in Nat /\ HeaderSize \in Nat
      /\ grown \in Nat
  BY HeaderFits, RingAssumption
<1>2. left <= len
  BY DEF Queued
<1>3. /\ \A j \in 0 .. step - 1 : StartsAt(new, read, len + j) <=> j = 0
      /\ TotalAt(new, read, len + 0) = step
  <2>1. 0 \in 0 .. step - 1
    BY <1>1
  <2>2. Byte(new, read, len + 0).of = payload
    BY <2>1
  <2> QED
    BY <2>2 DEF TotalAt, StartsAt
<1>4. \A k \in 0 .. len - 1 :
        /\ StartsAt(new, read, k) <=> StartsAt(buffer, read, k)
        /\ TotalAt(new, read, k) = TotalAt(buffer, read, k)
  BY DEF StartsAt, TotalAt
<1>5. StartsAt(new, read, len)
  <2>1. 0 \in 0 .. step - 1 /\ len + 0 = len
    BY <1>1
  <2> QED
    BY <1>3, <2>1
<1>6. left \in 0 .. grown /\ StartsAt(new, read, left)
  <2>1. CASE left = len
    BY <1>1, <1>5, <2>1
  <2>2. CASE left < len
    <3>1. StartsAt(buffer, read, left) /\ left \in 0 .. len - 1
      BY <2>2 DEF Queued
    <3> QED
      BY <1>1, <1>2, <1>4, <3>1
  <2> QED
    BY <1>2, <2>1, <2>2
<1>7. ASSUME NEW k \in 0 .. left - 1 PROVE ~StartsAt(new, read, k)
  <2>1. k \in 0 .. len - 1 /\ ~StartsAt(buffer, read, k)
    BY <1>2 DEF Queued
  <2> QED
    BY <1>4, <2>1
<1>8. ASSUME NEW k \in left .. grown - 1, StartsAt(new, read, k)
      PROVE  LET total == TotalAt(new, read, k)
             IN  /\ k + total <= grown
                 /\ k + total < grown => StartsAt(new, read, k + total)
                 /\ \A j \in 1 .. total - 1 : ~StartsAt(new, read, k + j)
  <2>1. CASE k < len
    <3> DEFINE total == TotalAt(new, read, k)
    <3>1. k \in 0 .. len - 1 /\ k \in left .. len - 1 /\ k \in Int
      BY <2>1
    <3>2. StartsAt(buffer, read, k) /\ total = TotalAt(buffer, read, k)
      BY <1>4, <1>8, <3>1
    <3>3. read \in Int
      BY PointerType
    <3>4. total \in Nat \ {0}
      BY <3>1, <3>2, <3>3, TotalType
    <3>5. /\ k + total <= len
          /\ k + total < len => StartsAt(buffer, read, k + total)
          /\ \A j \in 1 .. total - 1 : ~StartsAt(buffer, read, k + j)
      BY <3>1, <3>2 DEF Queued
    <3> HIDE DEF total
    <3>6. StartsAt(new, read, k + total)
      <4>1. CASE k + total = len
        BY <1>5, <4>1
      <4>2. CASE k + total < len
        <5>1. k + total \in 0 .. len - 1
          BY <3>1, <3>4, <4>2
        <5> QED
          BY <1>4, <3>5, <4>2, <5>1
      <4> QED
        BY <3>1, <3>4, <3>5, <4>1, <4>2
    <3>7. ASSUME NEW j \in 1 .. total - 1 PROVE ~StartsAt(new, read, k + j)
      <4>1. k + j \in 0 .. len - 1
        BY <3>1, <3>4, <3>5
      <4> QED
        BY <1>4, <3>5, <4>1
    <3>8. k + total <= grown
      BY <1>1, <3>1, <3>4, <3>5
    <3> QED
      BY <3>6, <3>7, <3>8 DEF total
  <2>2. CASE k >= len
    <3>1. k - len \in 0 .. step - 1 /\ len + (k - len) = k /\ k \in Int
      BY <1>1, <2>2
    <3>2. k - len = 0
      BY <1>3, <1>8, <3>1
    <3>3. k = len /\ len + 0 = len
      BY <3>1, <3>2
    <3>4. TotalAt(new, read, k) = step
      BY <1>3, <3>3
    <3>5. ASSUME NEW j \in 1 .. step - 1 PROVE ~StartsAt(new, read, len + j)
      <4>1. j \in 0 .. step - 1 /\ j # 0
        BY <1>1
      <4> QED
        BY <1>3, <4>1
    <3>6. grown <= grown /\ ~(grown < grown)
      BY <1>1
    <3> QED
      BY <3>3, <3>4, <3>5, <3>6
  <2> QED
    BY <1>1, <2>1, <2>2
<1> QED
  BY <1>6, <1>7, <1>8 DEF Queued

-----------------------------------------------------------------------------
(* The invariant.                                                          *)

\* The bytes in front of the next header: a call in progress has moved the read
\* pointer and has yet to bring the count in line.
Left ==
  IF pc = "headerRecv" THEN reported
  ELSE IF pc = "payloadRecv" THEN remaining - size
  ELSE IF pc = "flushRecv" THEN 0
  ELSE remaining

UnreadSize == Distance(readPtr, writePtr)

\* The pointers are in order around the ring, and behind the read pointer are
\* the rest of a datagram and whole datagrams, down to the write pointer.
RingOk ==
  /\ Distance(freedPtr, readPtr) + UnreadSize = ReceivedSize
  /\ ReceivedSize <= RingSize
  /\ Left \in Nat
  /\ Queued(ring, readPtr, UnreadSize, Left)

\* What a call in progress relies on when it goes on.
CallOk ==
  /\ pc \in {"idle", "header", "flush"} => freedPtr = readPtr
  /\ pc = "header" => remaining = 0 /\ UnreadSize > 0
  /\ pc = "headerRecv" => reported \in Payloads
  /\ pc = "payloadRecv" => size <= remaining
  /\ pc = "flush" =>
       LET n == Distance(readPtr, target)
       IN  n \in Left .. UnreadSize /\ (n < UnreadSize => StartsAt(ring, readPtr, n))

RingInv == TypeOK /\ RingOk /\ CallOk

LEMMA RingTypes ==
  ASSUME TypeOK
  PROVE  /\ ring \in Buffers
         /\ UnreadSize \in Nat /\ UnreadSize < PtrMod
         /\ ReceivedSize \in Nat /\ ReceivedSize < PtrMod
         /\ Distance(freedPtr, readPtr) \in Nat
  BY DistanceType DEF TypeOK, Buffers, UnreadSize, ReceivedSize

LEMMA RingInit == Init => RingInv
<1> SUFFICES ASSUME Init PROVE RingInv
  OBVIOUS
<1>1. TypeOK
  <2>1. (CHOOSE p \in Payloads : TRUE) \in Payloads
    BY RingAssumption
  <2>2. 0 \in Pointers
    BY HeaderFits DEF Pointers
  <2> QED
    BY <2>1, <2>2 DEF Init, TypeOK, Bytes, Pointers
<1>2. UnreadSize = 0 /\ ReceivedSize = 0 /\ Distance(freedPtr, readPtr) = 0
  BY <1>1, NoDistance DEF Init, TypeOK, UnreadSize, ReceivedSize
<1>3. Left = 0
  BY DEF Init, Left
<1>4. Queued(ring, readPtr, 0, 0)
  BY DEF Queued
<1>5. RingOk
  BY <1>2, <1>3, <1>4, HeaderFits DEF RingOk
<1> QED
  BY <1>1, <1>5 DEF Init, CallOk, RingInv

LEMMA ArriveKeeps ==
  ASSUME RingInv, NEW payload \in Payloads, Arrive(payload)
  PROVE  RingInv'
<1> DEFINE step == HeaderSize + payload
<1>1. TypeOK /\ RingOk /\ CallOk
  BY DEF RingInv
<1>2. /\ ring \in Buffers /\ UnreadSize \in Nat /\ ReceivedSize \in Nat
      /\ readPtr \in Pointers /\ writePtr \in Pointers /\ freedPtr \in Pointers
      /\ Distance(freedPtr, readPtr) \in Nat
  BY <1>1, RingTypes DEF TypeOK
<1>3. payload \in Nat /\ step \in Nat /\ HeaderSize \in Nat \ {0} /\ RingSize < PtrMod /\ RingSize \in Nat
      /\ PtrMod \in Nat
  BY HeaderFits, RingAssumption
<1>4. /\ ReceivedSize + step <= RingSize
      /\ ring' = Received(ring, writePtr, payload)
      /\ writePtr' = (writePtr + step) % PtrMod
      /\ UNCHANGED <<freedPtr, readPtr, pc, target, size, remaining, reported>>
  BY DEF Arrive, Received, driverVars
<1>5. UnreadSize <= ReceivedSize
  BY <1>1, <1>2 DEF RingOk
<1>6. UnreadSize + step <= RingSize
  BY <1>2, <1>3, <1>4, <1>5
<1>7. /\ ring' \in Buffers
      /\ \A k \in 0 .. UnreadSize - 1 : Byte(ring', readPtr, k) = Byte(ring, readPtr, k)
      /\ \A j \in 0 .. step - 1 :
           /\ Byte(ring', readPtr, UnreadSize + j).place = j
           /\ Byte(ring', readPtr, UnreadSize + j).of = payload
  BY <1>2, <1>4, <1>6, ReceivedBytes DEF UnreadSize
<1>9. writePtr' \in Pointers
  BY <1>2, <1>3, <1>4, Moved
<1> HIDE DEF step
<1>10. UnreadSize' = UnreadSize + step
  <2>1. Distance(readPtr, writePtr) + step < PtrMod
    BY <1>2, <1>3, <1>4, <1>5 DEF UnreadSize
  <2> QED
    BY <1>2, <1>3, <1>4, <2>1, Depart DEF UnreadSize
<1>11. ReceivedSize' = ReceivedSize + step
  <2>1. Distance(freedPtr, writePtr) + step < PtrMod
    BY <1>2, <1>3, <1>4 DEF ReceivedSize
  <2> QED
    BY <1>2, <1>3, <1>4, <2>1, Depart DEF ReceivedSize
<1>12. Left' = Left /\ Left \in Nat
  BY <1>1, <1>4 DEF Left, RingOk
<1>13. Queued(ring', readPtr, UnreadSize + step, Left)
  <2>1. Queued(ring, readPtr, UnreadSize, Left)
    BY <1>1 DEF RingOk
  <2> QED
    BY <1>2, <1>7, <1>12, <2>1, QueuedReceived DEF step
<1>14. TypeOK'
  BY <1>1, <1>4, <1>7, <1>9 DEF TypeOK, Buffers
<1>15. RingOk'
  <2>1. Distance(freedPtr, readPtr)' = Distance(freedPtr, readPtr)
    BY <1>4 DEF Distance
  <2>2. Distance(freedPtr, readPtr) + (UnreadSize + step) = ReceivedSize + step
    BY <1>1, <1>2, <1>3 DEF RingOk
  <2>3. Queued(ring, readPtr, UnreadSize, Left)'
    BY <1>4, <1>10, <1>12, <1>13
  <2> QED
    BY <1>4, <1>10, <1>11, <1>12, <2>1, <2>2, <2>3 DEF RingOk
<1>16. CallOk'
  <2>1. pc = "header" => UnreadSize' > 0
    BY <1>1, <1>2, <1>3, <1>10 DEF CallOk
  <2>2. ASSUME pc = "flush"
        PROVE  LET n == Distance(readPtr, target)
               IN  n \in Left .. UnreadSize + step /\ (n < UnreadSize + step => StartsAt(ring', readPtr, n))
    <3> DEFINE n == Distance(readPtr, target)
    <3>1. n \in Left .. UnreadSize /\ (n < UnreadSize => StartsAt(ring, readPtr, n))
      BY <1>1, <2>2 DEF CallOk
    <3> HIDE DEF n
    <3>2. CASE n < UnreadSize
      <4>1. n \in 0 .. UnreadSize - 1
        BY <1>2, <1>12, <3>1, <3>2
      <4> QED
        BY <1>2, <1>3, <1>7, <3>1, <3>2, <4>1 DEF StartsAt, n
    <3>3. CASE n = UnreadSize
      <4>1. 0 \in 0 .. step - 1 /\ UnreadSize + 0 = n
        BY <1>2, <1>3, <3>3 DEF step
      <4>2. StartsAt(ring', readPtr, n)
        BY <1>7, <4>1 DEF StartsAt
      <4> QED
        BY <1>2, <1>3, <3>1, <4>2 DEF n
    <3> QED
      BY <1>2, <1>12, <3>1, <3>2, <3>3
  <2>3. pc' = "flush" =>
          LET n == Distance(readPtr', target')
          IN  n \in Left' .. UnreadSize' /\ (n < UnreadSize' => StartsAt(ring', readPtr', n))
    BY <1>4, <1>10, <1>12, <2>2
  <2> QED
    BY <1>1, <1>4, <2>1, <2>3 DEF CallOk
<1> QED
  BY <1>14, <1>15, <1>16 DEF RingInv

\* The read pointer moves over n unread bytes while it is the one the chip has.
LEMMA ReadOn ==
  ASSUME RingInv, freedPtr = readPtr, NEW n \in 0 .. UnreadSize,
         readPtr' = (readPtr + n) % PtrMod, UNCHANGED <<ring, writePtr, freedPtr>>
  PROVE  /\ readPtr' \in Pointers
         /\ UnreadSize' = UnreadSize - n
         /\ ReceivedSize' = ReceivedSize
         /\ Distance(freedPtr', readPtr') + UnreadSize' = ReceivedSize'
<1>1. /\ readPtr \in Pointers /\ writePtr \in Pointers
      /\ UnreadSize \in Nat /\ UnreadSize < PtrMod /\ n \in Nat /\ n < PtrMod
      /\ ReceivedSize \in Nat
  <2>1. TypeOK
    BY DEF RingInv
  <2>2. UnreadSize \in Nat /\ UnreadSize < PtrMod /\ ReceivedSize \in Nat
    BY <2>1, RingTypes
  <2>3. readPtr \in Pointers /\ writePtr \in Pointers
    BY <2>1 DEF TypeOK
  <2>4. n \in Nat /\ n < PtrMod
    BY <2>2, HeaderFits
  <2> QED
    BY <2>2, <2>3, <2>4
<1>2. readPtr' \in Pointers
  BY <1>1, Moved
<1>3. UnreadSize' = UnreadSize - n
  BY <1>1, Approach DEF UnreadSize
<1>4. ReceivedSize' = ReceivedSize /\ ReceivedSize = UnreadSize
  BY DEF ReceivedSize, UnreadSize
<1>5. Distance(freedPtr', readPtr') = n
  <2>1. Distance(readPtr, readPtr) = 0
    BY <1>1, NoDistance
  <2>2. Distance(readPtr, (readPtr + n) % PtrMod) = 0 + n
    BY <1>1, <2>1, Depart
  <2> QED
    BY <1>1, <2>2
<1> QED
  BY <1>1, <1>2, <1>3, <1>4, <1>5

\* The chip takes over the read pointer.
LEMMA Freed ==
  ASSUME RingInv, freedPtr' = readPtr, UNCHANGED <<ring, writePtr, readPtr>>, Left' = Left
  PROVE  RingOk'
<1>1. /\ readPtr \in Pointers /\ UnreadSize \in Nat /\ ReceivedSize \in Nat
      /\ Distance(freedPtr, readPtr) \in Nat /\ RingSize \in Nat
  BY RingTypes, HeaderFits DEF RingInv, TypeOK
<1>2. UnreadSize' = UnreadSize /\ ReceivedSize' = UnreadSize
  BY DEF UnreadSize, ReceivedSize
<1>3. Distance(freedPtr', readPtr') = 0
  BY <1>1, NoDistance
<1>4. UnreadSize <= RingSize
  BY <1>1 DEF RingInv, RingOk
<1>5. Queued(ring, readPtr, UnreadSize, Left)'
  BY <1>2 DEF RingInv, RingOk
<1> QED
  BY <1>1, <1>2, <1>3, <1>4, <1>5 DEF RingInv, RingOk

LEMMA HasPacketKeeps == RingInv /\ HasPacketCall => RingInv'
<1> SUFFICES ASSUME RingInv, HasPacketCall PROVE RingInv'
  OBVIOUS
<1>1. TypeOK /\ RingOk /\ CallOk /\ pc = "idle" /\ remaining = 0
  BY DEF RingInv, HasPacketCall
<1>2. UNCHANGED <<ring, writePtr, freedPtr, readPtr, target, size, remaining>>
  BY DEF HasPacketCall, chipVars
<1>3. UnreadSize' = UnreadSize /\ ReceivedSize' = ReceivedSize
  BY <1>2 DEF UnreadSize, ReceivedSize
<1>4. Left' = Left
  BY <1>1 DEF HasPacketCall, Left
<1>5. RingOk'
  <2>1. Queued(ring, readPtr, UnreadSize, Left)'
    BY <1>1, <1>2, <1>3, <1>4 DEF RingOk
  <2> QED
    BY <1>1, <1>2, <1>3, <1>4, <2>1 DEF RingOk
<1>6. TypeOK'
  BY <1>1, <1>2 DEF HasPacketCall, TypeOK
<1>7. CallOk'
  <2>1. CASE HasPacket
    <3>1. ReceivedSize = UnreadSize
      BY <1>1 DEF CallOk, ReceivedSize, UnreadSize
    <3>2. UnreadSize \in Nat /\ UnreadSize > 0
      BY <1>1, <2>1, <3>1, HeaderFits, RingTypes DEF HasPacket
    <3> QED
      BY <1>1, <1>2, <1>3, <2>1, <3>2 DEF CallOk, HasPacketCall
  <2>2. CASE ~HasPacket
    BY <1>1, <1>2, <2>2 DEF CallOk, HasPacketCall
  <2> QED
    BY <2>1, <2>2
<1> QED
  BY <1>5, <1>6, <1>7 DEF RingInv

LEMMA ReadHeaderKeeps == RingInv /\ ReadHeader => RingInv'
<1> SUFFICES ASSUME RingInv, ReadHeader PROVE RingInv'
  OBVIOUS
<1>1. TypeOK /\ RingOk /\ CallOk /\ pc = "header"
  BY DEF RingInv, ReadHeader
<1>2. remaining = 0 /\ UnreadSize > 0 /\ freedPtr = readPtr /\ Left = 0
  BY <1>1 DEF CallOk, Left
<1>3. /\ ring \in Buffers /\ readPtr \in Pointers /\ readPtr \in Int /\ UnreadSize \in Nat
  BY <1>1, RingTypes, PointerType DEF TypeOK
<1>4. reported' = Byte(ring, readPtr, 0).of
  <2>1. readPtr + 0 = readPtr
    BY <1>3
  <2> QED
    BY <2>1 DEF ReadHeader, Byte
<1>5. reported' \in Payloads
  BY <1>3, <1>4, TotalType
<1>6. /\ HeaderSize <= UnreadSize
      /\ Queued(ring, (readPtr + HeaderSize) % PtrMod, UnreadSize - HeaderSize, reported')
  BY <1>1, <1>2, <1>3, <1>4, QueuedHeader DEF RingOk
<1>7. /\ readPtr' = (readPtr + HeaderSize) % PtrMod /\ pc' = "headerRecv"
      /\ UNCHANGED <<ring, writePtr, freedPtr, target, size, remaining>>
  BY DEF ReadHeader, Advance, chipVars
<1>8. HeaderSize \in 0 .. UnreadSize
  BY <1>3, <1>6, HeaderFits
<1>9. /\ readPtr' \in Pointers
      /\ UnreadSize' = UnreadSize - HeaderSize
      /\ ReceivedSize' = ReceivedSize
      /\ Distance(freedPtr', readPtr') + UnreadSize' = ReceivedSize'
  BY <1>2, <1>7, <1>8, ReadOn
<1>10. Left' = reported'
  BY <1>7 DEF Left
<1>11. RingOk'
  <2>1. Queued(ring, readPtr, UnreadSize, Left)'
    BY <1>6, <1>7, <1>9, <1>10
  <2>2. Left' \in Nat
    BY <1>5, <1>10, RingAssumption
  <2> QED
    BY <1>1, <1>9, <2>1, <2>2 DEF RingOk
<1>12. TypeOK'
  BY <1>1, <1>5, <1>7, <1>9 DEF TypeOK
<1>13. CallOk'
  BY <1>5, <1>7 DEF CallOk
<1> QED
  BY <1>11, <1>12, <1>13 DEF RingInv

LEMMA HeaderRecvKeeps == RingInv /\ HeaderRecv => RingInv'
<1> SUFFICES ASSUME RingInv, HeaderRecv PROVE RingInv'
  OBVIOUS
<1>1. TypeOK /\ CallOk /\ pc = "headerRecv" /\ reported \in Nat
  BY RingAssumption DEF RingInv, HeaderRecv, CallOk
<1>2. /\ freedPtr' = readPtr /\ remaining' = reported /\ pc' = "idle"
      /\ UNCHANGED <<ring, writePtr, readPtr, target, size, reported>>
  BY DEF HeaderRecv
<1>3. Left' = Left
  BY <1>1, <1>2 DEF Left
<1>4. RingOk'
  BY <1>2, <1>3, Freed
<1>5. TypeOK'
  BY <1>1, <1>2 DEF TypeOK
<1>6. CallOk'
  BY <1>2 DEF CallOk
<1> QED
  BY <1>4, <1>5, <1>6 DEF RingInv

LEMMA ReadPayloadKeeps ==
  ASSUME RingInv, NEW n \in 1 .. remaining, ReadPayload(n)
  PROVE  RingInv'
<1>1. TypeOK /\ RingOk /\ CallOk /\ pc = "idle" /\ freedPtr = readPtr /\ Left = remaining
  BY DEF RingInv, ReadPayload, CallOk, Left
<1>2. /\ ring \in Buffers /\ readPtr \in Pointers /\ UnreadSize \in Nat /\ remaining \in Nat
      /\ n \in Nat /\ n <= remaining
  BY <1>1, RingTypes DEF TypeOK
<1>3. Queued(ring, readPtr, UnreadSize, remaining)
  BY <1>1 DEF RingOk
<1>4. remaining <= UnreadSize
  BY <1>3 DEF Queued
<1>5. n \in 0 .. remaining /\ n \in 0 .. UnreadSize
  BY <1>2, <1>4
<1>6. Queued(ring, (readPtr + n) % PtrMod, UnreadSize - n, remaining - n)
  BY <1>2, <1>3, <1>5, QueuedTake
<1>7. /\ readPtr' = (readPtr + n) % PtrMod /\ pc' = "payloadRecv" /\ size' = n
      /\ UNCHANGED <<ring, writePtr, freedPtr, target, remaining, reported>>
  BY DEF ReadPayload, Advance, chipVars
<1>8. /\ readPtr' \in Pointers
      /\ UnreadSize' = UnreadSize - n
      /\ ReceivedSize' = ReceivedSize
      /\ Distance(freedPtr', readPtr') + UnreadSize' = ReceivedSize'
  BY <1>1, <1>5, <1>7, ReadOn
<1>9. Left' = remaining - n
  BY <1>7 DEF Left
<1>10. RingOk'
  <2>1. Queued(ring, readPtr, UnreadSize, Left)'
    BY <1>6, <1>7, <1>8, <1>9
  <2>2. Left' \in Nat
    BY <1>2, <1>9
  <2> QED
    BY <1>1, <1>8, <2>1, <2>2 DEF RingOk
<1>11. TypeOK'
  BY <1>1, <1>2, <1>7, <1>8 DEF TypeOK
<1>12. CallOk'
  BY <1>2, <1>7 DEF CallOk
<1> QED
  BY <1>10, <1>11, <1>12 DEF RingInv

LEMMA PayloadRecvKeeps == RingInv /\ PayloadRecv => RingInv'
<1> SUFFICES ASSUME RingInv, PayloadRecv PROVE RingInv'
  OBVIOUS
<1>1. /\ TypeOK /\ pc = "payloadRecv" /\ size <= remaining
      /\ remaining \in Nat /\ size \in Nat
  BY DEF RingInv, PayloadRecv, CallOk, TypeOK
<1>2. /\ freedPtr' = readPtr /\ remaining' = remaining - size /\ size' = 0 /\ pc' = "idle"
      /\ UNCHANGED <<ring, writePtr, readPtr, target, reported>>
  BY DEF PayloadRecv
<1>3. Left' = Left
  BY <1>1, <1>2 DEF Left
<1>4. RingOk'
  BY <1>2, <1>3, Freed
<1>5. remaining' \in Nat
  BY <1>1, <1>2
<1>6. TypeOK'
  BY <1>1, <1>2, <1>5 DEF TypeOK
<1>7. CallOk'
  BY <1>2 DEF CallOk
<1> QED
  BY <1>4, <1>6, <1>7 DEF RingInv

LEMMA FlushCallKeeps == RingInv /\ FlushCall => RingInv'
<1> SUFFICES ASSUME RingInv, FlushCall PROVE RingInv'
  OBVIOUS
<1>1. TypeOK /\ RingOk /\ CallOk /\ pc = "idle" /\ freedPtr = readPtr
  BY DEF RingInv, FlushCall, CallOk
<1>2. /\ target' = writePtr /\ pc' = "flush"
      /\ UNCHANGED <<ring, writePtr, freedPtr, readPtr, size, remaining, reported>>
  BY DEF FlushCall, chipVars
<1>3. UnreadSize' = UnreadSize /\ ReceivedSize' = ReceivedSize /\ Left' = Left
  BY <1>1, <1>2 DEF UnreadSize, ReceivedSize, Left
<1>4. RingOk'
  <2>1. Queued(ring, readPtr, UnreadSize, Left)'
    BY <1>1, <1>2, <1>3 DEF RingOk
  <2> QED
    BY <1>1, <1>2, <1>3, <2>1 DEF RingOk
<1>5. TypeOK'
  BY <1>1, <1>2 DEF TypeOK
<1>6. Distance(readPtr', target') = UnreadSize /\ UnreadSize \in Left .. UnreadSize
  <2>1. UnreadSize \in Nat /\ Left \in Nat /\ Left <= UnreadSize
    BY <1>1, RingTypes DEF RingOk, Queued
  <2> QED
    BY <1>2, <2>1 DEF UnreadSize
<1>7. CallOk'
  <2>1. ~(UnreadSize < UnreadSize)
    BY <1>1, RingTypes
  <2> QED
    BY <1>1, <1>2, <1>3, <1>6, <2>1 DEF CallOk
<1> QED
  BY <1>4, <1>5, <1>7 DEF RingInv

LEMMA FlushSetPointerKeeps == RingInv /\ FlushSetPointer => RingInv'
<1> SUFFICES ASSUME RingInv, FlushSetPointer PROVE RingInv'
  OBVIOUS
<1> DEFINE n == Distance(readPtr, target)
<1>1. TypeOK /\ RingOk /\ CallOk /\ pc = "flush" /\ freedPtr = readPtr
  BY DEF RingInv, FlushSetPointer, CallOk
<1>2. n \in Left .. UnreadSize /\ (n < UnreadSize => StartsAt(ring, readPtr, n))
  BY <1>1 DEF CallOk
<1>3. /\ ring \in Buffers /\ readPtr \in Pointers /\ target \in Pointers
      /\ UnreadSize \in Nat /\ Left \in Nat /\ n \in Nat
  BY <1>1, RingTypes, DistanceType DEF TypeOK, RingOk
<1>4. /\ readPtr' = target /\ pc' = "flushRecv"
      /\ UNCHANGED <<ring, writePtr, freedPtr, target, size, remaining, reported>>
  BY DEF FlushSetPointer, chipVars
<1>5. readPtr' = (readPtr + n) % PtrMod
  BY <1>3, <1>4, Arrived
<1> HIDE DEF n
<1>6. Queued(ring, (readPtr + n) % PtrMod, UnreadSize - n, 0)
  <2>1. Queued(ring, readPtr, UnreadSize, Left)
    BY <1>1 DEF RingOk
  <2> QED
    BY <1>2, <1>3, <2>1, QueuedSkip
<1>7. n \in 0 .. UnreadSize
  BY <1>2, <1>3
<1>8. /\ readPtr' \in Pointers
      /\ UnreadSize' = UnreadSize - n
      /\ ReceivedSize' = ReceivedSize
      /\ Distance(freedPtr', readPtr') + UnreadSize' = ReceivedSize'
  BY <1>1, <1>4, <1>5, <1>7, ReadOn
<1>9. Left' = 0
  BY <1>4 DEF Left
<1>10. RingOk'
  <2>1. Queued(ring, readPtr, UnreadSize, Left)'
    BY <1>4, <1>5, <1>6, <1>8, <1>9
  <2> QED
    BY <1>1, <1>8, <1>9, <2>1 DEF RingOk
<1>11. TypeOK'
  BY <1>1, <1>4, <1>8 DEF TypeOK
<1>12. CallOk'
  BY <1>4 DEF CallOk
<1> QED
  BY <1>10, <1>11, <1>12 DEF RingInv

LEMMA FlushRecvKeeps == RingInv /\ FlushRecv => RingInv'
<1> SUFFICES ASSUME RingInv, FlushRecv PROVE RingInv'
  OBVIOUS
<1>1. TypeOK /\ pc = "flushRecv"
  BY DEF RingInv, FlushRecv
<1>2. /\ freedPtr' = readPtr /\ remaining' = 0 /\ target' = 0 /\ pc' = "idle"
      /\ UNCHANGED <<ring, writePtr, readPtr, size, reported>>
  BY DEF FlushRecv
<1>3. Left' = Left
  BY <1>1, <1>2 DEF Left
<1>4. RingOk'
  BY <1>2, <1>3, Freed
<1>5. 0 \in Pointers
  BY HeaderFits DEF Pointers
<1>6. TypeOK'
  BY <1>1, <1>2, <1>5 DEF TypeOK
<1>7. CallOk'
  BY <1>2 DEF CallOk
<1> QED
  BY <1>4, <1>6, <1>7 DEF RingInv

LEMMA RingStep == RingInv /\ [Next]_vars => RingInv'
<1> SUFFICES ASSUME RingInv, [Next]_vars PROVE RingInv'
  OBVIOUS
<1>1. CASE UNCHANGED vars
  <2>1. UNCHANGED <<ring, writePtr, freedPtr, readPtr, pc, target, size, remaining, reported>>
    BY <1>1 DEF vars, chipVars, driverVars
  <2>2. UnreadSize' = UnreadSize /\ ReceivedSize' = ReceivedSize /\ Left' = Left
    BY <2>1 DEF UnreadSize, ReceivedSize, Left
  <2>3. TypeOK'
    BY <2>1 DEF RingInv, TypeOK
  <2>4. Queued(ring, readPtr, UnreadSize, Left)'
    BY <2>1, <2>2 DEF RingInv, RingOk
  <2>5. RingOk'
    BY <2>1, <2>2, <2>4 DEF RingInv, RingOk
  <2>6. CallOk'
    BY <2>1, <2>2 DEF RingInv, CallOk
  <2> QED
    BY <2>3, <2>5, <2>6 DEF RingInv
<1> QED
  BY <1>1, ArriveKeeps, HasPacketKeeps, ReadHeaderKeeps, HeaderRecvKeeps, ReadPayloadKeeps,
     PayloadRecvKeeps, FlushCallKeeps, FlushSetPointerKeeps, FlushRecvKeeps DEF Next

LEMMA RingAlways == Spec => []RingInv
  BY RingInit, RingStep, PTL DEF Spec

-----------------------------------------------------------------------------
(* What a reader relies on.                                                *)

\* The pointers, counts and bytes keep their types, for any ring.
THEOREM TypeCorrect == Spec => []TypeOK
<1>1. RingInv => TypeOK
  BY DEF RingInv
<1> QED
  BY <1>1, RingAlways, PTL

\* read_packet_header() only ever decodes headers.
THEOREM HeadersRead == Spec => []ReadsHeaders
<1>1. RingInv => ReadsHeaders
  <2> SUFFICES ASSUME RingInv, pc = "header" PROVE IsStart(ring[readPtr % RingSize])
    BY DEF ReadsHeaders
  <2>1. remaining = 0 /\ UnreadSize > 0 /\ Left = 0
    BY DEF RingInv, CallOk, Left
  <2>2. StartsAt(ring, readPtr, 0)
    BY <2>1 DEF RingInv, RingOk, Queued
  <2>3. readPtr + 0 = readPtr
    BY PointerType DEF RingInv, TypeOK
  <2> QED
    BY <2>2, <2>3 DEF StartsAt, Byte, IsStart
<1> QED
  BY <1>1, RingAlways, PTL

LEMMA UnreadBytes ==
  ASSUME RingInv
  PROVE  /\ UnreadSize \in Nat /\ DOMAIN Unread = 1 .. UnreadSize
         /\ \A i \in 1 .. UnreadSize : IsStart(Unread[i]) <=> StartsAt(ring, readPtr, i - 1)
<1>1. UnreadSize \in Nat /\ readPtr \in Int
  BY RingTypes, PointerType DEF RingInv, TypeOK
<1>2. Unread = [i \in 1 .. UnreadSize |-> ring[(readPtr + i - 1) % RingSize]]
  BY DEF Unread, Span, UnreadSize
<1>3. ASSUME NEW i \in 1 .. UnreadSize
      PROVE  Unread[i] = Byte(ring, readPtr, i - 1)
  <2>1. readPtr + i - 1 = readPtr + (i - 1)
    BY <1>1
  <2> QED
    BY <1>2, <2>1 DEF Byte
<1> QED
  BY <1>1, <1>2, <1>3 DEF IsStart, StartsAt

\* has_packet() finds a datagram exactly if there is one.
THEOREM HasPacketIsExact == Spec => []HasPacketExact
<1>1. RingInv => HasPacketExact
  <2> SUFFICES ASSUME RingInv, pc = "idle", remaining = 0
               PROVE  HasPacket <=> \E i \in DOMAIN Unread : IsStart(Unread[i])
    BY DEF HasPacketExact
  <2>1. Left = 0 /\ freedPtr = readPtr /\ Queued(ring, readPtr, UnreadSize, 0)
    BY DEF RingInv, RingOk, CallOk, Left
  <2>2. ReceivedSize = UnreadSize
    BY <2>1 DEF ReceivedSize, UnreadSize
  <2>3. /\ UnreadSize \in Nat /\ DOMAIN Unread = 1 .. UnreadSize
        /\ \A i \in 1 .. UnreadSize : IsStart(Unread[i]) <=> StartsAt(ring, readPtr, i - 1)
    BY UnreadBytes
  <2>4. CASE UnreadSize = 0
    <3>1. ~HasPacket
      BY <2>2, <2>4, HeaderFits DEF HasPacket
    <3> QED
      BY <2>3, <2>4, <3>1
  <2>5. CASE UnreadSize > 0
    <3>1. HeaderSize <= UnreadSize
      BY <2>1, <2>3, <2>5, RingTypes, QueuedHeader DEF RingInv, TypeOK
    <3>2. HasPacket
      BY <2>2, <2>3, <3>1, HeaderFits DEF HasPacket
    <3>3. StartsAt(ring, readPtr, 0) /\ 1 \in 1 .. UnreadSize /\ 1 - 1 = 0
      BY <2>1, <2>3, <2>5 DEF Queued
    <3>4. IsStart(Unread[1])
      BY <2>3, <3>3
    <3> QED
      BY <2>3, <3>2, <3>3, <3>4
  <2> QED
    BY <2>3, <2>4, <2>5
<1> QED
  BY <1>1, RingAlways, PTL

-----------------------------------------------------------------------------
(* The datagrams that begin among some bytes.                              *)

UpTo(bytes) ==
  CHOOSE upTo : upTo = [n \in 0 .. Len(bytes) |->
    IF n = 0 THEN <<>>
    ELSE IF IsStart(bytes[n]) THEN Append(upTo[n - 1], bytes[n].of)
    ELSE upTo[n - 1]]

LEMMA UpToExists ==
  ASSUME NEW bytes, Len(bytes) \in Nat, \A n \in 1 .. Len(bytes) : bytes[n] \in Bytes
  PROVE  /\ Datagrams(bytes) = UpTo(bytes)[Len(bytes)]
         /\ UpTo(bytes)[0] = <<>>
         /\ \A n \in 0 .. Len(bytes) : UpTo(bytes)[n] \in Seq(Payloads)
         /\ \A n \in 1 .. Len(bytes) :
              UpTo(bytes)[n] = IF IsStart(bytes[n])
                               THEN Append(UpTo(bytes)[n - 1], bytes[n].of)
                               ELSE UpTo(bytes)[n - 1]
<1> DEFINE len == Len(bytes)
           Lists == Seq(Payloads)
           none == <<>>
           After(before, n) == IF IsStart(bytes[n]) THEN Append(before, bytes[n].of) ELSE before
           step == [n \in 1 .. len |-> [before \in Lists |-> After(before, n)]]
           Good(f) == f = [n \in 0 .. len |-> IF n = 0 THEN <<>> ELSE After(f[n - 1], n)]
<1>1. len \in Nat /\ \A n \in 1 .. len : bytes[n] \in Bytes
  OBVIOUS
<1>2. none \in Lists /\ \A before \in Lists : \A n \in 1 .. len : After(before, n) \in Lists
  BY <1>1 DEF Bytes
<1> HIDE DEF After, len, Lists, none
<1>3. step \in [1 .. len -> [Lists -> Lists]]
  BY <1>2
<1>4. \A before \in Lists : \A n \in 1 .. len : step[n][before] = After(before, n)
  OBVIOUS
<1> HIDE DEF step
<1>5. PICK f \in [0 .. len -> Lists] :
        f[0] = none /\ \A n \in 1 .. len : f[n] = step[n][f[n - 1]]
  <2>1. len \in Nat /\ none \in Lists
    BY <1>1, <1>2
  <2> HIDE DEF Good
  <2>2. PICK f : Recursive(f, Lists, none, len, step)
    BY <2>1, <1>3, Recursion, Zenon
  <2> QED
    BY <2>2, Zenon DEF Recursive
<1>6. ASSUME NEW n \in 0 .. len PROVE f[n] = IF n = 0 THEN <<>> ELSE After(f[n - 1], n)
  <2>1. CASE n = 0
    BY <1>5, <2>1 DEF none
  <2>2. CASE n # 0
    <3>1. n \in 1 .. len /\ n - 1 \in 0 .. len
      BY <1>1, <2>2
    <3>2. f[n - 1] \in Lists /\ f[n] = step[n][f[n - 1]]
      BY <1>5, <3>1
    <3> QED
      BY <1>4, <2>2, <3>1, <3>2
  <2> QED
    BY <2>1, <2>2
<1>7. Good(f)
  BY <1>6
<1>8. Good(UpTo(bytes))
  BY <1>7 DEF UpTo, After, len
<1>9. /\ UpTo(bytes)[0] = <<>>
      /\ \A n \in 1 .. len : UpTo(bytes)[n] = After(UpTo(bytes)[n - 1], n)
  <2>1. 0 \in 0 .. len /\ \A n \in 1 .. len : n \in 0 .. len /\ n # 0
    BY <1>1
  <2> QED
    BY <1>8, <2>1
<1> HIDE DEF Good
<1>10. \A n \in 0 .. len : UpTo(bytes)[n] \in Lists
  <2> DEFINE S == {n \in Nat : n <= len => UpTo(bytes)[n] \in Lists}
  <2>1. 0 \in S
    BY <1>2, <1>9 DEF none
  <2>2. ASSUME NEW n \in Nat, n \in S PROVE n + 1 \in S
    <3>1. CASE n + 1 <= len
      <4>1. n + 1 \in 1 .. len /\ (n + 1) - 1 = n /\ n <= len
        BY <1>1, <3>1
      <4>2. After(UpTo(bytes)[n], n + 1) \in Lists
        BY <1>2, <2>2, <4>1
      <4> QED
        BY <1>9, <4>1, <4>2
    <3>2. CASE ~(n + 1 <= len)
      BY <3>2
    <3> QED
      BY <3>1, <3>2
  <2> HIDE DEF S
  <2>3. \A n \in Nat : n \in S
    BY <2>1, <2>2, Inductive
  <2> QED
    BY <1>1, <2>3 DEF S
<1>11. Datagrams(bytes) = UpTo(bytes)[Len(bytes)]
  BY DEF Datagrams, UpTo
<1> QED
  BY <1>9, <1>10, <1>11 DEF After, len, Lists

LEMMA UpToIs ==
  ASSUME NEW bytes \in Seq(Bytes)
  PROVE  /\ Datagrams(bytes) = UpTo(bytes)[Len(bytes)]
         /\ UpTo(bytes)[0] = <<>>
         /\ \A n \in 0 .. Len(bytes) : UpTo(bytes)[n] \in Seq(Payloads)
         /\ \A n \in 1 .. Len(bytes) :
              UpTo(bytes)[n] = IF IsStart(bytes[n])
                               THEN Append(UpTo(bytes)[n - 1], bytes[n].of)
                               ELSE UpTo(bytes)[n - 1]
<1>1. Len(bytes) \in Nat /\ \A n \in 1 .. Len(bytes) : bytes[n] \in Bytes
  OBVIOUS
<1> QED
  BY <1>1, UpToExists

LEMMA DatagramsType ==
  ASSUME NEW bytes \in Seq(Bytes)
  PROVE  Datagrams(bytes) \in Seq(Payloads) /\ Len(Datagrams(bytes)) \in Nat
<1>1. Len(bytes) \in Nat /\ Len(bytes) \in 0 .. Len(bytes)
  OBVIOUS
<1>2. Datagrams(bytes) \in Seq(Payloads)
  BY <1>1, UpToIs
<1> QED
  BY <1>2

\* Bytes that begin no datagram do not count.
LEMMA NoDatagrams ==
  ASSUME NEW bytes \in Seq(Bytes), NEW m \in 0 .. Len(bytes),
         \A n \in m + 1 .. Len(bytes) : ~IsStart(bytes[n])
  PROVE  Datagrams(bytes) = UpTo(bytes)[m]
<1> DEFINE S == {k \in Nat : m + k <= Len(bytes) => UpTo(bytes)[m + k] = UpTo(bytes)[m]}
<1>1. Len(bytes) \in Nat /\ m \in Nat
  OBVIOUS
<1>2. 0 \in S
  BY <1>1
<1>3. ASSUME NEW k \in Nat, k \in S PROVE k + 1 \in S
  <2>1. CASE m + (k + 1) <= Len(bytes)
    <3> DEFINE n == m + (k + 1)
    <3>1. n \in 1 .. Len(bytes) /\ n \in m + 1 .. Len(bytes) /\ n - 1 = m + k /\ m + k <= Len(bytes)
      BY <1>1, <2>1
    <3> HIDE DEF n
    <3>2. UpTo(bytes)[n] = UpTo(bytes)[m + k]
      BY <1>1, <3>1, UpToIs
    <3>3. UpTo(bytes)[m + k] = UpTo(bytes)[m]
      BY <1>3, <3>1
    <3> QED
      BY <3>2, <3>3 DEF n
  <2>2. CASE ~(m + (k + 1) <= Len(bytes))
    BY <2>2
  <2> QED
    BY <2>1, <2>2
<1> HIDE DEF S
<1>4. \A k \in Nat : k \in S
  BY <1>2, <1>3, Inductive
<1>5. Len(bytes) - m \in Nat /\ m + (Len(bytes) - m) = Len(bytes)
  BY <1>1
<1>6. UpTo(bytes)[Len(bytes)] = UpTo(bytes)[m]
  BY <1>1, <1>4, <1>5 DEF S
<1> QED
  BY <1>1, <1>6, UpToIs

LEMMA WithinDatagram ==
  ASSUME NEW bytes \in Seq(Bytes), \A n \in 1 .. Len(bytes) : ~IsStart(bytes[n])
  PROVE  Datagrams(bytes) = <<>>
<1>1. 0 \in 0 .. Len(bytes) /\ Len(bytes) \in Nat /\ 0 + 1 = 1
  OBVIOUS
<1> QED
  BY <1>1, NoDatagrams, UpToIs

LEMMA OneDatagram ==
  ASSUME NEW bytes \in Seq(Bytes), Len(bytes) > 0, IsStart(bytes[1]),
         \A n \in 2 .. Len(bytes) : ~IsStart(bytes[n])
  PROVE  Datagrams(bytes) = <<bytes[1].of>>
<1>1. 1 \in 0 .. Len(bytes) /\ 1 \in 1 .. Len(bytes) /\ Len(bytes) \in Nat /\ 1 + 1 = 2 /\ 1 - 1 = 0
  OBVIOUS
<1>2. Datagrams(bytes) = UpTo(bytes)[1]
  BY <1>1, NoDatagrams
<1>3. UpTo(bytes)[1] = Append(<<>>, bytes[1].of)
  <2>1. UpTo(bytes)[1] = IF IsStart(bytes[1]) THEN Append(UpTo(bytes)[1 - 1], bytes[1].of)
                                           ELSE UpTo(bytes)[1 - 1]
    BY <1>1, UpToIs, Zenon
  <2>2. UpTo(bytes)[0] = <<>>
    BY UpToIs, Zenon
  <2> QED
    BY <1>1, <2>1, <2>2, Zenon
<1> QED
  BY <1>2, <1>3

LEMMA AppendFollows ==
  ASSUME NEW s \in Seq(Payloads), NEW t \in Seq(Payloads), NEW elt \in Payloads
  PROVE  Append(s \o t, elt) = s \o Append(t, elt)
<1>1. s \o t \in Seq(Payloads) /\ <<elt>> \in Seq(Payloads)
  OBVIOUS
<1>2. Append(s \o t, elt) = (s \o t) \o <<elt>> /\ Append(t, elt) = t \o <<elt>>
  BY <1>1, AppendIsConcat
<1> QED
  BY <1>1, <1>2, ConcatAssociative

\* The datagrams among bytes that follow others follow theirs.
LEMMA DatagramsFollow ==
  ASSUME NEW s \in Seq(Bytes), NEW t \in Seq(Bytes)
  PROVE  Datagrams(s \o t) = Datagrams(s) \o Datagrams(t)
<1> DEFINE all == s \o t
<1>1. /\ all \in Seq(Bytes) /\ Len(s) \in Nat /\ Len(t) \in Nat /\ Len(all) = Len(s) + Len(t) /\ Len(all) \in Nat
      /\ \A n \in 1 .. Len(s) : all[n] = s[n]
      /\ \A n \in 1 .. Len(t) : all[Len(s) + n] = t[n]
  OBVIOUS
<1> HIDE DEF all
<1>2. UpTo(all)[Len(s)] = Datagrams(s)
  <2> DEFINE S == {n \in Nat : n <= Len(s) => UpTo(all)[n] = UpTo(s)[n]}
  <2>1. 0 \in S
    <3>1. UpTo(all)[0] = UpTo(s)[0]
      BY <1>1, UpToIs
    <3> QED
      BY <3>1
  <2>2. ASSUME NEW n \in Nat, n \in S PROVE n + 1 \in S
    <3>1. CASE n + 1 <= Len(s)
      <4> DEFINE m == n + 1
      <4>1. m \in 1 .. Len(s) /\ m \in 1 .. Len(all) /\ m - 1 = n /\ n <= Len(s)
        BY <1>1, <3>1
      <4> HIDE DEF m
      <4>2. UpTo(all)[n] = UpTo(s)[n] /\ all[m] = s[m]
        BY <1>1, <2>2, <4>1
      <4>3. UpTo(all)[m] = UpTo(s)[m]
        BY <1>1, <4>1, <4>2, UpToIs
      <4> QED
        BY <4>3 DEF m
    <3>2. CASE ~(n + 1 <= Len(s))
      BY <3>2
    <3> QED
      BY <3>1, <3>2
  <2> HIDE DEF S
  <2>3. \A n \in Nat : n \in S
    BY <2>1, <2>2, Inductive
  <2> QED
    BY <1>1, <2>3, UpToIs DEF S
<1>3. UpTo(all)[Len(s) + Len(t)] = Datagrams(s) \o UpTo(t)[Len(t)]
  <2> DEFINE S == {k \in Nat : k <= Len(t) => UpTo(all)[Len(s) + k] = Datagrams(s) \o UpTo(t)[k]}
  <2>1. 0 \in S
    <3>1. UpTo(t)[0] = <<>> /\ Datagrams(s) \in Seq(Payloads)
      BY <1>1, UpToIs, DatagramsType
    <3>2. Len(s) + 0 = Len(s) /\ Datagrams(s) \o <<>> = Datagrams(s)
      BY <1>1, <3>1
    <3> QED
      BY <1>2, <3>1, <3>2
  <2>2. ASSUME NEW k \in Nat, k \in S PROVE k + 1 \in S
    <3>1. CASE k + 1 <= Len(t)
      <4> DEFINE m == k + 1  n == Len(s) + m
      <4>1. /\ m \in 1 .. Len(t) /\ m - 1 = k /\ k <= Len(t) /\ k \in 0 .. Len(t)
            /\ n \in 1 .. Len(all) /\ n - 1 = Len(s) + k
        BY <1>1, <3>1
      <4>2. all[n] = t[m]
        BY <1>1, <4>1
      <4> HIDE DEF m, n
      <4>3. UpTo(all)[Len(s) + k] = Datagrams(s) \o UpTo(t)[k]
        BY <2>2, <4>1
      <4>4. UpTo(all)[n] = IF IsStart(t[m])
                           THEN Append(Datagrams(s) \o UpTo(t)[k], t[m].of)
                           ELSE Datagrams(s) \o UpTo(t)[k]
        <5>1. UpTo(all)[n] = IF IsStart(all[n])
                             THEN Append(UpTo(all)[n - 1], all[n].of)
                             ELSE UpTo(all)[n - 1]
          BY <1>1, <4>1, UpToIs
        <5>2. UpTo(all)[n - 1] = Datagrams(s) \o UpTo(t)[k]
          BY <4>1, <4>3
        <5> QED
          BY <4>2, <5>1, <5>2, Zenon
      <4>5. UpTo(t)[m] = IF IsStart(t[m]) THEN Append(UpTo(t)[k], t[m].of) ELSE UpTo(t)[k]
        BY <1>1, <4>1, UpToIs
      <4>6. Datagrams(s) \in Seq(Payloads) /\ UpTo(t)[k] \in Seq(Payloads) /\ t[m].of \in Payloads
        <5>1. t[m] \in Bytes
          BY <4>1
        <5> QED
          BY <4>1, <5>1, DatagramsType, UpToIs DEF Bytes
      <4>7. Append(Datagrams(s) \o UpTo(t)[k], t[m].of)
              = Datagrams(s) \o Append(UpTo(t)[k], t[m].of)
        <5> DEFINE d == Datagrams(s)  u == UpTo(t)[k]  p == t[m].of
        <5>1. d \in Seq(Payloads) /\ u \in Seq(Payloads) /\ p \in Payloads
          BY <4>6
        <5> HIDE DEF d, u, p
        <5>2. Append(d \o u, p) = d \o Append(u, p)
          BY <5>1, AppendFollows
        <5> QED
          BY <5>2 DEF d, u, p
      <4>8. UpTo(all)[n] = Datagrams(s) \o UpTo(t)[m]
        BY <4>4, <4>5, <4>7, Zenon
      <4> QED
        BY <4>8 DEF m, n
    <3>2. CASE ~(k + 1 <= Len(t))
      BY <3>2
    <3> QED
      BY <3>1, <3>2
  <2> HIDE DEF S
  <2>3. \A k \in Nat : k \in S
    BY <2>1, <2>2, Inductive
  <2> QED
    BY <1>1, <2>3 DEF S
<1> QED
  BY <1>1, <1>3, UpToIs DEF all

-----------------------------------------------------------------------------
(* The bytes between two pointers.                                         *)

SpanOf(buffer, from, to) == [i \in 1 .. Distance(from, to) |-> Byte(buffer, from, i - 1)]

LEMMA SpanType ==
  ASSUME NEW buffer \in Buffers, NEW from \in Pointers, NEW to \in Pointers
  PROVE  /\ Distance(from, to) \in Nat
         /\ SpanOf(buffer, from, to) \in Seq(Bytes)
         /\ Len(SpanOf(buffer, from, to)) = Distance(from, to)
<1> DEFINE d == Distance(from, to)
<1>1. d \in Nat /\ from \in Int
  BY DistanceType, PointerType
<1> HIDE DEF d
<1>2. \A i \in 1 .. d : Byte(buffer, from, i - 1) \in Bytes
  BY <1>1, ByteType
<1>3. [i \in 1 .. d |-> Byte(buffer, from, i - 1)] \in [1 .. d -> Bytes]
  BY <1>2
<1> QED
  BY <1>1, <1>3 DEF SpanOf, d

LEMMA SpanJoin ==
  ASSUME NEW buffer \in Buffers, NEW a \in Pointers, NEW b \in Pointers, NEW c \in Pointers,
         Distance(a, b) + Distance(b, c) = Distance(a, c)
  PROVE  SpanOf(buffer, a, c) = SpanOf(buffer, a, b) \o SpanOf(buffer, b, c)
<1> DEFINE d == Distance(a, b)  s == SpanOf(buffer, a, b)  t == SpanOf(buffer, b, c)
<1>1. /\ d \in Nat /\ Distance(b, c) \in Nat /\ Distance(a, c) \in Nat
      /\ s \in Seq(Bytes) /\ t \in Seq(Bytes) /\ SpanOf(buffer, a, c) \in Seq(Bytes)
      /\ Len(s) = d /\ Len(t) = Distance(b, c) /\ Len(SpanOf(buffer, a, c)) = Distance(a, c)
  BY SpanType
<1>2. ASSUME NEW i \in 1 .. Distance(a, c)
      PROVE  SpanOf(buffer, a, c)[i] = (s \o t)[i]
  <2>1. SpanOf(buffer, a, c)[i] = Byte(buffer, a, i - 1)
    BY DEF SpanOf
  <2>2. CASE i <= d
    <3>1. i \in 1 .. d /\ i \in 1 .. Len(s)
      BY <1>1, <2>2
    <3>2. s[i] = Byte(buffer, a, i - 1)
      BY <3>1 DEF SpanOf
    <3> HIDE DEF s, t
    <3>3. (s \o t)[i] = s[i]
      BY <1>1, <3>1
    <3> QED
      BY <2>1, <3>2, <3>3
  <2>3. CASE ~(i <= d)
    <3> DEFINE j == i - d
    <3>1. j \in 1 .. Distance(b, c) /\ i = d + j /\ j - 1 \in Int /\ d + (j - 1) = i - 1
      BY <1>1, <2>3
    <3>2. t[j] = Byte(buffer, b, j - 1)
      BY <3>1 DEF SpanOf
    <3>3. Byte(buffer, b, j - 1) = Byte(buffer, a, i - 1)
      <4>1. b = (a + d) % PtrMod
        BY Arrived
      <4>2. Byte(buffer, (a + d) % PtrMod, j - 1) = Byte(buffer, a, d + (j - 1))
        BY <1>1, <3>1, ByteMoved
      <4> HIDE DEF d, j
      <4> QED
        BY <3>1, <4>1, <4>2
    <3> HIDE DEF s, t, d, j
    <3>4. (s \o t)[i] = t[j]
      <4>1. i \in 1 .. Len(s) + Len(t) /\ i > Len(s) /\ i - Len(s) = j
        BY <1>1, <2>3, <3>1
      <4> QED
        BY <1>1, <4>1
    <3> QED
      BY <2>1, <3>2, <3>3, <3>4
  <2> QED
    BY <2>2, <2>3
<1> HIDE DEF s, t, d
<1>3. s \o t \in Seq(Bytes) /\ Len(s \o t) = Distance(a, c)
  <2>1. s \o t \in Seq(Bytes) /\ Len(s \o t) = Len(s) + Len(t)
    BY <1>1, ConcatProperties, Zenon
  <2> QED
    BY <1>1, <2>1 DEF d
<1>4. SpanOf(buffer, a, c) = s \o t
  BY <1>1, <1>2, <1>3, SeqEqual
<1> QED
  BY <1>4 DEF s, t

\* What is left of a datagram is what lies in front of the next start.
LEMMA RestIs ==
  ASSUME NEW bytes, NEW len \in Nat, Len(bytes) = len, NEW left \in 0 .. len,
         left < len => IsStart(bytes[left + 1]),
         \A i \in 1 .. left : ~IsStart(bytes[i])
  PROVE  Rest(bytes) = left
<1> DEFINE I == {i \in 1 .. Len(bytes) : IsStart(bytes[i])}
<1>1. SelectInSeq(bytes, IsStart) = IF I # {} THEN Min(I) ELSE 0
  BY DEF SelectInSeq
<1>2. \A i \in I : i \in 1 .. len /\ ~(i <= left)
  OBVIOUS
<1>3. CASE left = len
  <2>1. I = {}
    BY <1>2, <1>3
  <2> QED
    BY <1>1, <1>3, <2>1 DEF Rest
<1>4. CASE left < len
  <2>1. left + 1 \in I
    BY <1>4
  <2>2. \A i \in I : i \in Int /\ left + 1 <= i
    BY <1>2
  <2> HIDE DEF I
  <2>3. Min(I) = left + 1
    <3>1. \A x \in I : (\A y \in I : x =< y) => x = left + 1
      BY <2>1, <2>2
    <3> QED
      BY <2>1, <2>2, <3>1 DEF Min
  <2>4. left + 1 # 0 /\ (left + 1) - 1 = left /\ I # {}
    BY <2>1
  <2> QED
    BY <1>1, <2>3, <2>4 DEF Rest
<1> QED
  BY <1>3, <1>4

LEMMA QueuedRest ==
  ASSUME NEW buffer \in Buffers, NEW from \in Pointers, NEW to \in Pointers, NEW left \in Nat,
         Queued(buffer, from, Distance(from, to), left)
  PROVE  Rest(SpanOf(buffer, from, to)) = left
<1> DEFINE len == Distance(from, to)  bytes == SpanOf(buffer, from, to)
<1>1. len \in Nat /\ Len(bytes) = len
  BY SpanType
<1>2. /\ left \in 0 .. len
      /\ left < len => StartsAt(buffer, from, left)
      /\ \A k \in 0 .. left - 1 : ~StartsAt(buffer, from, k)
  BY DEF Queued
<1>3. \A i \in 1 .. len : IsStart(bytes[i]) <=> StartsAt(buffer, from, i - 1)
  BY DEF IsStart, StartsAt, SpanOf
<1> HIDE DEF len, bytes
<1>4. left < len => IsStart(bytes[left + 1])
  <2> SUFFICES ASSUME left < len PROVE IsStart(bytes[left + 1])
    OBVIOUS
  <2>1. left + 1 \in 1 .. len /\ (left + 1) - 1 = left
    BY <1>1, <1>2
  <2> QED
    BY <1>2, <1>3, <2>1
<1>5. ASSUME NEW i \in 1 .. left PROVE ~IsStart(bytes[i])
  <2>1. i \in 1 .. len /\ i - 1 \in 0 .. left - 1
    BY <1>1, <1>2
  <2> QED
    BY <1>2, <1>3, <2>1
<1>6. Rest(bytes) = left
  BY <1>1, <1>2, <1>4, <1>5, RestIs
<1> QED
  BY <1>6 DEF bytes

-----------------------------------------------------------------------------
(* The queue.                                                              *)

LEMMA SpanIs ==
  ASSUME NEW buffer, NEW from \in Pointers, NEW to
  PROVE  [i \in 1 .. Distance(from, to) |-> buffer[(from + i - 1) % RingSize]]
           = SpanOf(buffer, from, to)
<1>1. \A i \in Int : from + i - 1 = from + (i - 1)
  BY PointerType
<1> QED
  BY <1>1 DEF SpanOf, Byte

\* How the queue is made of the ring.
Mapped ==
  /\ Unread = SpanOf(ring, readPtr, writePtr)
  /\ Rest(Unread) = Left
  /\ pc = "flush" => Span(readPtr, target) = SpanOf(ring, readPtr, target)

LEMMA RingMaps == RingInv => Mapped
<1> SUFFICES ASSUME RingInv PROVE Mapped
  OBVIOUS
<1>1. /\ ring \in Buffers /\ readPtr \in Pointers /\ writePtr \in Pointers
      /\ Left \in Nat /\ Queued(ring, readPtr, Distance(readPtr, writePtr), Left)
  BY RingTypes DEF RingInv, RingOk, TypeOK, UnreadSize
<1>2. /\ Unread = SpanOf(ring, readPtr, writePtr)
      /\ Span(readPtr, target) = SpanOf(ring, readPtr, target)
  BY <1>1, SpanIs DEF Unread, Span
<1>3. Rest(Unread) = Left
  BY <1>1, <1>2, QueuedRest
<1> QED
  BY <1>2, <1>3 DEF Mapped

LEMMA RingMapsNext == RingInv' => Mapped'
  BY RingMaps, PTL

\* Between two calls _packet_bytes_remaining counts the bytes in front of the
\* next header.
THEOREM RemainingIsRest == Spec => []RemainingIsTrue
<1>1. RingInv => RemainingIsTrue
  BY RingMaps DEF Mapped, Left, RemainingIsTrue
<1> QED
  BY <1>1, RingAlways, PTL

\* The mapped variables, as they are before and after a step.
LEMMA QueueOf ==
  ASSUME RingInv, RingInv'
  PROVE  /\ Datagrams(Unread) = Datagrams(SpanOf(ring, readPtr, writePtr))
         /\ Datagrams(Unread)' = Datagrams(SpanOf(ring', readPtr', writePtr'))
         /\ Rest(Unread) = Left /\ Rest(Unread)' = Left'
         /\ Doomed = IF pc = "flush" THEN Len(Datagrams(SpanOf(ring, readPtr, target))) ELSE -1
         /\ Doomed' = IF pc' = "flush" THEN Len(Datagrams(SpanOf(ring', readPtr', target')))
                                       ELSE -1
  BY RingMaps, RingMapsNext DEF Mapped, Doomed

Stutters == UNCHANGED <<Datagrams(Unread), Rest(Unread), Doomed>>

\* A datagram that arrives goes to the end of the queue, and a flush in progress
\* does not discard it.
LEMMA ArriveIsQueued ==
  ASSUME RingInv, RingInv', NEW payload \in Payloads, Arrive(payload)
  PROVE  Queue!Arrive(payload)
<1> DEFINE step == HeaderSize + payload
           old == SpanOf(ring, readPtr, writePtr)
           new == SpanOf(ring', readPtr, writePtr')
           arrived == SpanOf(ring', writePtr, writePtr')
<1>1. /\ ring \in Buffers /\ ring' \in Buffers /\ readPtr \in Pointers /\ writePtr \in Pointers
      /\ writePtr' \in Pointers /\ freedPtr \in Pointers /\ target \in Pointers
      /\ ReceivedSize \in Nat /\ UnreadSize \in Nat /\ UnreadSize <= ReceivedSize
  BY RingTypes DEF RingInv, RingOk, TypeOK, Buffers
<1>2. /\ ReceivedSize + step <= RingSize
      /\ ring' = Received(ring, writePtr, payload)
      /\ writePtr' = (writePtr + step) % PtrMod
      /\ UNCHANGED <<freedPtr, readPtr, pc, target, size, remaining, reported>>
  BY DEF Arrive, Received, driverVars
<1>3. /\ payload \in Nat /\ step \in Nat \ {0} /\ HeaderSize \in Nat \ {0}
      /\ step < PtrMod /\ UnreadSize + step <= RingSize /\ UnreadSize + step < PtrMod
  BY <1>1, <1>2, HeaderFits, RingAssumption
<1>4. /\ \A k \in 0 .. UnreadSize - 1 : Byte(ring', readPtr, k) = Byte(ring, readPtr, k)
      /\ \A j \in 0 .. step - 1 :
           /\ Byte(ring', readPtr, UnreadSize + j).place = j
           /\ Byte(ring', readPtr, UnreadSize + j).of = payload
  BY <1>1, <1>2, <1>3, ReceivedBytes DEF UnreadSize
<1>5. Distance(writePtr, writePtr') = step /\ Distance(readPtr, writePtr') = UnreadSize + step
  <2>1. Distance(writePtr, writePtr) = 0 /\ 0 + step = step
    BY <1>1, <1>3, NoDistance
  <2> HIDE DEF step
  <2>2. step \in Nat /\ Distance(writePtr, writePtr) + step < PtrMod
        /\ Distance(readPtr, writePtr) + step < PtrMod
    BY <1>3, <2>1 DEF UnreadSize
  <2> QED
    BY <1>1, <1>2, <2>1, <2>2, Depart DEF UnreadSize
<1>6. SpanOf(ring', readPtr, writePtr) = old
  <2>1. \A i \in 1 .. UnreadSize : i - 1 \in 0 .. UnreadSize - 1
    BY <1>1
  <2> QED
    BY <1>4, <2>1 DEF SpanOf, UnreadSize
<1>7. new = old \o arrived
  <2>1. Distance(readPtr, writePtr) + Distance(writePtr, writePtr') = Distance(readPtr, writePtr')
    BY <1>5 DEF UnreadSize
  <2> QED
    BY <1>1, <1>6, <2>1, SpanJoin
<1>8. /\ old \in Seq(Bytes) /\ arrived \in Seq(Bytes) /\ Len(arrived) = step
  BY <1>1, <1>5, SpanType
<1>9. ASSUME NEW n \in 1 .. step
      PROVE  arrived[n].place = n - 1 /\ arrived[n].of = payload
  <2>1. arrived[n] = Byte(ring', writePtr, n - 1)
    BY <1>5 DEF SpanOf
  <2>2. n - 1 \in 0 .. step - 1 /\ n - 1 \in Int /\ UnreadSize \in Int
    BY <1>1, <1>3
  <2>3. Byte(ring', writePtr, n - 1) = Byte(ring', readPtr, UnreadSize + (n - 1))
    <3>1. writePtr = (readPtr + UnreadSize) % PtrMod
      BY <1>1, Arrived DEF UnreadSize
    <3>2. Byte(ring', (readPtr + UnreadSize) % PtrMod, n - 1)
            = Byte(ring', readPtr, UnreadSize + (n - 1))
      BY <1>1, <2>2, ByteMoved
    <3> QED
      BY <3>1, <3>2
  <2> HIDE DEF step, arrived
  <2> QED
    BY <1>4, <2>1, <2>2, <2>3
<1>10. Datagrams(arrived) = <<payload>>
  <2>1. 1 \in 1 .. step /\ Len(arrived) > 0
    BY <1>3, <1>8
  <2>2. IsStart(arrived[1]) /\ arrived[1].of = payload
    BY <1>9, <2>1 DEF IsStart
  <2>3. ASSUME NEW n \in 2 .. Len(arrived) PROVE ~IsStart(arrived[n])
    <3>1. n \in 1 .. step /\ n - 1 # 0
      BY <1>3, <1>8
    <3> QED
      BY <1>9, <3>1 DEF IsStart
  <2> HIDE DEF arrived
  <2> QED
    BY <1>8, <2>1, <2>2, <2>3, OneDatagram
<1>11. Datagrams(new) = Append(Datagrams(old), payload)
  <2> HIDE DEF old, new, arrived
  <2>1. Datagrams(new) = Datagrams(old) \o <<payload>>
    BY <1>7, <1>8, <1>10, DatagramsFollow
  <2>2. Datagrams(old) \in Seq(Payloads)
    BY <1>8, DatagramsType
  <2> QED
    BY <2>1, <2>2
<1>12. Datagrams(Unread)' = Append(Datagrams(Unread), payload)
  BY <1>2, <1>11, QueueOf
<1>13. Rest(Unread)' = Rest(Unread)
  BY <1>2, QueueOf DEF Left
<1>14. Doomed' = Doomed
  <2>1. CASE pc = "flush"
    <3>1. Distance(readPtr, target) \in 0 .. UnreadSize
      BY <1>1, <2>1 DEF RingInv, CallOk, RingOk
    <3>2. \A i \in 1 .. Distance(readPtr, target) : i - 1 \in 0 .. UnreadSize - 1
      BY <1>1, <3>1
    <3>3. SpanOf(ring', readPtr, target) = SpanOf(ring, readPtr, target)
      BY <1>4, <3>2 DEF SpanOf
    <3> QED
      BY <1>2, <2>1, <3>3, QueueOf
  <2>2. CASE pc # "flush"
    BY <1>2, <2>2, QueueOf
  <2> QED
    BY <2>1, <2>2
<1> QED
  BY <1>12, <1>13, <1>14 DEF Queue!Arrive

\* Asking for a packet, and telling the chip what has been read, is nothing new
\* to the queue.
LEMMA QueueStutters ==
  ASSUME RingInv, RingInv',
         \/ HasPacketCall \/ HeaderRecv \/ PayloadRecv \/ FlushRecv \/ UNCHANGED vars
  PROVE  Stutters
<1>1. UNCHANGED <<ring, readPtr, writePtr>>
  BY DEF HasPacketCall, HeaderRecv, PayloadRecv, FlushRecv, vars, chipVars, driverVars
<1>2. Datagrams(Unread)' = Datagrams(Unread)
  BY <1>1, QueueOf
<1>3. Left' = Left
  <2>1. CASE HasPacketCall
    BY <2>1 DEF HasPacketCall, Left
  <2>2. CASE HeaderRecv
    BY <2>2 DEF HeaderRecv, Left
  <2>3. CASE PayloadRecv
    BY <2>3 DEF PayloadRecv, Left
  <2>4. CASE FlushRecv
    BY <2>4 DEF FlushRecv, Left
  <2>5. CASE UNCHANGED vars
    BY <2>5 DEF vars, driverVars, Left
  <2> QED
    BY <2>1, <2>2, <2>3, <2>4, <2>5
<1>4. Doomed' = Doomed
  <2>1. CASE UNCHANGED vars
    <3>1. UNCHANGED <<pc, target>>
      BY <2>1 DEF vars, driverVars
    <3> QED
      BY <1>1, <3>1, QueueOf
  <2>2. CASE ~UNCHANGED vars
    <3>1. pc # "flush" /\ pc' # "flush"
      BY <2>2 DEF HasPacketCall, HeaderRecv, PayloadRecv, FlushRecv
    <3> QED
      BY <3>1, QueueOf
  <2> QED
    BY <2>1, <2>2
<1> QED
  BY <1>2, <1>3, <1>4, QueueOf DEF Stutters

\* What is read lies in front of what stays.
LEMMA ReadSplits ==
  ASSUME RingInv, RingInv', NEW n \in 0 .. UnreadSize,
         readPtr' = (readPtr + n) % PtrMod, UNCHANGED <<ring, writePtr>>
  PROVE  /\ SpanOf(ring, readPtr, readPtr') \in Seq(Bytes)
         /\ Len(SpanOf(ring, readPtr, readPtr')) = n
         /\ \A i \in 1 .. n : SpanOf(ring, readPtr, readPtr')[i] = Byte(ring, readPtr, i - 1)
         /\ Datagrams(Unread) = Datagrams(SpanOf(ring, readPtr, readPtr')) \o Datagrams(Unread)'
         /\ Datagrams(SpanOf(ring, readPtr, readPtr')) \in Seq(Payloads)
         /\ Datagrams(Unread)' \in Seq(Payloads)
<1> DEFINE gone == SpanOf(ring, readPtr, readPtr')  kept == SpanOf(ring, readPtr', writePtr)
<1>1. /\ ring \in Buffers /\ readPtr \in Pointers /\ writePtr \in Pointers /\ readPtr' \in Pointers
      /\ UnreadSize \in Nat /\ UnreadSize < PtrMod /\ n \in Nat /\ n < PtrMod
  <2>1. TypeOK /\ TypeOK' /\ UnreadSize \in Nat /\ UnreadSize < PtrMod
    BY RingTypes DEF RingInv
  <2>2. n \in Nat /\ n < PtrMod
    BY <2>1, HeaderFits
  <2> QED
    BY <2>1, <2>2, RingTypes DEF TypeOK
<1>2. Distance(readPtr, readPtr') = n
  <2>1. Distance(readPtr, readPtr) = 0
    BY <1>1, NoDistance
  <2>2. 0 + n < PtrMod /\ 0 + n = n
    BY <1>1
  <2> QED
    BY <1>1, <2>1, <2>2, Depart
<1>3. Distance(readPtr, readPtr') + Distance(readPtr', writePtr) = Distance(readPtr, writePtr)
  <2>1. Distance(readPtr', writePtr) = UnreadSize - n
    BY <1>1, Approach DEF UnreadSize
  <2> QED
    BY <1>1, <1>2, <2>1 DEF UnreadSize
<1>4. SpanOf(ring, readPtr, writePtr) = gone \o kept
  BY <1>1, <1>3, SpanJoin
<1>5. gone \in Seq(Bytes) /\ kept \in Seq(Bytes) /\ Len(gone) = n
  BY <1>1, <1>2, SpanType
<1>6. \A i \in 1 .. n : gone[i] = Byte(ring, readPtr, i - 1)
  BY <1>2 DEF SpanOf
<1> HIDE DEF gone, kept
<1>7. /\ Datagrams(gone \o kept) = Datagrams(gone) \o Datagrams(kept)
      /\ Datagrams(gone) \in Seq(Payloads) /\ Datagrams(kept) \in Seq(Payloads)
  BY <1>5, DatagramsFollow, DatagramsType
<1>8. Datagrams(Unread)' = Datagrams(kept) /\ Datagrams(Unread) = Datagrams(gone \o kept)
  BY <1>4, QueueOf DEF kept
<1> QED
  BY <1>5, <1>6, <1>7, <1>8 DEF gone

\* Reading a header begins the oldest datagram.
LEMMA ReadHeaderBegins ==
  ASSUME RingInv, RingInv', ReadHeader
  PROVE  Queue!Begin
<1> DEFINE gone == SpanOf(ring, readPtr, readPtr')  of == Byte(ring, readPtr, 0).of
<1>1. /\ pc = "header" /\ remaining = 0 /\ Left = 0 /\ UnreadSize > 0
      /\ Queued(ring, readPtr, UnreadSize, 0)
  BY DEF RingInv, RingOk, CallOk, ReadHeader, Left
<1>2. /\ ring \in Buffers /\ readPtr \in Pointers /\ readPtr \in Int /\ UnreadSize \in Nat
      /\ HeaderSize \in Nat \ {0}
  BY RingTypes, PointerType, HeaderFits DEF RingInv, TypeOK
<1>3. HeaderSize \in 0 .. UnreadSize
  BY <1>1, <1>2, QueuedHeader
<1>4. /\ readPtr' = (readPtr + HeaderSize) % PtrMod /\ pc' = "headerRecv"
      /\ reported' = of /\ UNCHANGED <<ring, writePtr>>
  <2>1. readPtr + 0 = readPtr
    BY <1>2
  <2> QED
    BY <2>1 DEF ReadHeader, Advance, chipVars, Byte
<1>5. /\ gone \in Seq(Bytes) /\ Len(gone) = HeaderSize
      /\ \A i \in 1 .. HeaderSize : gone[i] = Byte(ring, readPtr, i - 1)
      /\ Datagrams(Unread) = Datagrams(gone) \o Datagrams(Unread)'
      /\ Datagrams(Unread)' \in Seq(Payloads)
  BY <1>3, <1>4, ReadSplits
<1>6. StartsAt(ring, readPtr, 0)
  BY <1>1 DEF Queued
<1>7. \A j \in 1 .. HeaderSize - 1 : ~StartsAt(ring, readPtr, j)
  <2>1. 0 \in 0 .. UnreadSize - 1 /\ TotalAt(ring, readPtr, 0) \in Nat
        /\ TotalAt(ring, readPtr, 0) >= HeaderSize
    BY <1>1, <1>2, TotalType
  <2>2. \A j \in 1 .. TotalAt(ring, readPtr, 0) - 1 : ~StartsAt(ring, readPtr, 0 + j)
    BY <1>1, <1>6, <2>1 DEF Queued
  <2> TAKE j \in 1 .. HeaderSize - 1
  <2>3. j \in 1 .. TotalAt(ring, readPtr, 0) - 1 /\ 0 + j = j
    BY <1>2, <2>1
  <2> QED
    BY <2>2, <2>3
<1>8. Datagrams(gone) = <<of>>
  <2>1. 1 \in 1 .. HeaderSize /\ 1 - 1 = 0 /\ Len(gone) > 0
    BY <1>2, <1>5
  <2>2. IsStart(gone[1]) /\ gone[1].of = of
    BY <1>5, <1>6, <2>1 DEF IsStart, StartsAt
  <2>3. ASSUME NEW n \in 2 .. Len(gone) PROVE ~IsStart(gone[n])
    <3>1. n \in 1 .. HeaderSize /\ n - 1 \in 1 .. HeaderSize - 1
      BY <1>2, <1>5
    <3> QED
      BY <1>5, <1>7, <3>1 DEF IsStart, StartsAt
  <2> HIDE DEF gone
  <2> QED
    BY <1>5, <2>1, <2>2, <2>3, OneDatagram
<1> HIDE DEF gone, of
<1>9. of \in Payloads
  BY <1>2, TotalType DEF of
<1>10. /\ Datagrams(Unread) # <<>> /\ Head(Datagrams(Unread)) = of
       /\ Tail(Datagrams(Unread)) = Datagrams(Unread)'
  <2> DEFINE q == Datagrams(Unread)'
  <2>1. q \in Seq(Payloads) /\ Datagrams(Unread) = <<of>> \o q
    BY <1>5, <1>8
  <2> HIDE DEF q
  <2>2. <<of>> \o q # <<>> /\ Head(<<of>> \o q) = of /\ Tail(<<of>> \o q) = q
    BY <1>9, <2>1
  <2> QED
    BY <2>1, <2>2 DEF q
<1>11. Rest(Unread) = 0 /\ Rest(Unread)' = of /\ Doomed = -1 /\ Doomed' = -1
  BY <1>1, <1>4, QueueOf DEF Left
<1> QED
  BY <1>10, <1>11 DEF Queue!Begin, Queue!NoFlush

\* Reading takes from the datagram that was begun, and from no other.
LEMMA ReadPayloadTakes ==
  ASSUME RingInv, RingInv', NEW n \in 1 .. remaining, ReadPayload(n)
  PROVE  n \in 1 .. Rest(Unread) /\ Queue!Take(n)
<1> DEFINE gone == SpanOf(ring, readPtr, readPtr')
<1>1. /\ pc = "idle" /\ Left = remaining /\ remaining \in Nat /\ n \in Nat /\ n <= remaining
      /\ Queued(ring, readPtr, UnreadSize, remaining) /\ UnreadSize \in Nat
  BY RingTypes DEF RingInv, RingOk, TypeOK, ReadPayload, Left
<1>2. n \in 0 .. UnreadSize /\ remaining <= UnreadSize
  BY <1>1 DEF Queued
<1>3. /\ readPtr' = (readPtr + n) % PtrMod /\ pc' = "payloadRecv" /\ size' = n
      /\ UNCHANGED <<ring, writePtr, remaining>>
  BY DEF ReadPayload, Advance, chipVars
<1>4. /\ gone \in Seq(Bytes) /\ Len(gone) = n
      /\ \A i \in 1 .. n : gone[i] = Byte(ring, readPtr, i - 1)
      /\ Datagrams(Unread) = Datagrams(gone) \o Datagrams(Unread)'
      /\ Datagrams(Unread)' \in Seq(Payloads)
  BY <1>2, <1>3, ReadSplits
<1>5. Datagrams(gone) = <<>>
  <2>1. ASSUME NEW i \in 1 .. Len(gone) PROVE ~IsStart(gone[i])
    <3>1. i \in 1 .. n /\ i - 1 \in 0 .. remaining - 1
      BY <1>1, <1>4
    <3> QED
      BY <1>1, <1>4, <3>1 DEF Queued, IsStart, StartsAt
  <2> HIDE DEF gone
  <2> QED
    BY <1>4, <2>1, WithinDatagram
<1> HIDE DEF gone
<1>6. Datagrams(Unread)' = Datagrams(Unread)
  BY <1>4, <1>5, ConcatEmptySeq
<1>7. Rest(Unread) = remaining /\ Rest(Unread)' = remaining - n /\ Doomed = -1 /\ Doomed' = -1
  BY <1>1, <1>3, QueueOf DEF Left
<1> QED
  BY <1>6, <1>7 DEF Queue!Take, Queue!NoFlush

\* flush() discards what was there when the write pointer was read.
LEMMA FlushCallDooms ==
  ASSUME RingInv, RingInv', FlushCall
  PROVE  Queue!CallFlush
<1>1. /\ pc = "idle" /\ pc' = "flush" /\ target' = writePtr
      /\ UNCHANGED <<ring, writePtr, readPtr, remaining>>
  BY DEF FlushCall, chipVars
<1>2. Datagrams(Unread)' = Datagrams(Unread) /\ Doomed' = Len(Datagrams(Unread)) /\ Doomed = -1
  BY <1>1, QueueOf
<1>3. Rest(Unread)' = Rest(Unread)
  BY <1>1, QueueOf DEF Left
<1> QED
  BY <1>2, <1>3 DEF Queue!CallFlush, Queue!NoFlush

LEMMA FlushDiscards ==
  ASSUME RingInv, RingInv', FlushSetPointer
  PROVE  Queue!Flush
<1> DEFINE n == Distance(readPtr, target)  gone == SpanOf(ring, readPtr, target)
<1>1. /\ pc = "flush" /\ readPtr' = target /\ pc' = "flushRecv"
      /\ UNCHANGED <<ring, writePtr>>
  BY DEF FlushSetPointer, chipVars
<1>2. /\ readPtr \in Pointers /\ target \in Pointers /\ UnreadSize \in Nat /\ Left \in Nat
      /\ n \in Left .. UnreadSize
  BY <1>1, RingTypes DEF RingInv, RingOk, TypeOK, CallOk
<1>3. n \in 0 .. UnreadSize
  BY <1>2
<1>4. readPtr' = (readPtr + n) % PtrMod
  BY <1>1, <1>2, Arrived
<1>5. /\ Datagrams(Unread) = Datagrams(gone) \o Datagrams(Unread)'
      /\ Datagrams(gone) \in Seq(Payloads) /\ Datagrams(Unread)' \in Seq(Payloads)
  BY <1>1, <1>3, <1>4, ReadSplits
<1>6. Doomed = Len(Datagrams(gone)) /\ Doomed' = -1 /\ Rest(Unread)' = 0
  BY <1>1, QueueOf DEF Left
<1> HIDE DEF gone, n
<1>7. Doomed # -1
  BY <1>5, <1>6
<1>8. Datagrams(Unread)' = SubSeq(Datagrams(Unread), Doomed + 1, Len(Datagrams(Unread)))
  <2> DEFINE s == Datagrams(gone)  t == Datagrams(Unread)'
  <2>1. s \in Seq(Payloads) /\ t \in Seq(Payloads) /\ Datagrams(Unread) = s \o t /\ Doomed = Len(s)
    BY <1>5, <1>6
  <2> HIDE DEF s, t
  <2>2. SubSeq(s \o t, Len(s) + 1, Len(s \o t)) = t
    BY <2>1, SubSeqOfConcat2
  <2> QED
    BY <2>1, <2>2 DEF t
<1> QED
  BY <1>6, <1>7, <1>8 DEF Queue!Flush, Queue!NoFlush

\* The ring implements a queue of datagrams: each is read whole and in order,
\* reads never reach into the next one, and a flush discards what was there when
\* it was called and nothing that arrives before it is done.
THEOREM RingIsQueue == Spec => IsQueue
<1>1. Init => Queue!Init
  <2> SUFFICES ASSUME Init PROVE Queue!Init
    OBVIOUS
  <2>1. RingInv
    BY RingInit
  <2>2. readPtr \in Pointers /\ writePtr = readPtr /\ pc = "idle" /\ Left = 0
    BY <2>1 DEF RingInv, TypeOK, Init, Left
  <2>3. Distance(readPtr, writePtr) = 0
    BY <2>2, NoDistance
  <2>4. /\ Unread \in Seq(Bytes) /\ Len(Unread) = 0 /\ Rest(Unread) = 0
    <3>1. Unread = SpanOf(ring, readPtr, writePtr) /\ Rest(Unread) = Left
      BY <2>1, RingMaps DEF Mapped
    <3>2. ring \in Buffers
      BY <2>1, RingTypes DEF RingInv
    <3> QED
      BY <2>2, <2>3, <3>1, <3>2, SpanType
  <2>5. Datagrams(Unread) = <<>>
    <3>1. \A n \in 1 .. Len(Unread) : FALSE
      BY <2>4
    <3> HIDE DEF Unread
    <3> QED
      BY <2>4, <3>1, WithinDatagram
  <2> QED
    BY <2>2, <2>4, <2>5 DEF Queue!Init, Queue!NoFlush, Doomed
<1>2. RingInv /\ RingInv' /\ [Next]_vars
        => [Queue!Next]_<<Datagrams(Unread), Rest(Unread), Doomed>>
  <2> SUFFICES ASSUME RingInv, RingInv', [Next]_vars
               PROVE  Queue!Next \/ Stutters
    BY DEF Stutters
  <2>1. ASSUME NEW payload \in Payloads, Arrive(payload) PROVE Queue!Next
    BY <2>1, ArriveIsQueued DEF Queue!Next
  <2>2. CASE ReadHeader
    BY <2>2, ReadHeaderBegins DEF Queue!Next
  <2>3. ASSUME NEW n \in 1 .. remaining, ReadPayload(n) PROVE Queue!Next
    BY <2>3, ReadPayloadTakes DEF Queue!Next
  <2>4. CASE FlushCall
    BY <2>4, FlushCallDooms DEF Queue!Next
  <2>5. CASE FlushSetPointer
    BY <2>5, FlushDiscards DEF Queue!Next
  <2>6. CASE HasPacketCall \/ HeaderRecv \/ PayloadRecv \/ FlushRecv \/ UNCHANGED vars
    BY <2>6, QueueStutters
  <2> QED
    BY <2>1, <2>2, <2>3, <2>4, <2>5, <2>6 DEF Next
<1> QED
  BY <1>1, <1>2, RingAlways, RingStep, PTL DEF Spec, IsQueue, Queue!Spec, Queue!queueVars

=============================================================================
