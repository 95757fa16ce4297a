------------------------------ MODULE NtpProofs ------------------------------
(***************************************************************************)
(* Proofs about NtpClient for every set of servers, every interval and     *)
(* every size of the RX buffer, and about its time for every width of the  *)
(* numbers.                                                                *)
(***************************************************************************)
EXTENDS NtpClient, NumberProofs

-----------------------------------------------------------------------------
(* The time of parse_packet.                                               *)

LEMMA TimeTypes ==
  /\ U32 \in Nat \ {0} /\ SeventyYears \in 0 .. U32 - 1
  /\ MillisPerSecond \in Nat \ {0}
  /\ (U32 - 1) \div MillisPerSecond \in Nat \ {0}
<1>1. U32 \in Nat \ {0} /\ MillisPerSecond \in Nat \ {0} /\ U32 - 1 \in Nat
  BY TimeAssumption
<1>2. (U32 - 1) \div MillisPerSecond \in Nat
  BY <1>1, DivType
<1>3. (U32 - 1) % MillisPerSecond >= 0
  BY <1>1, ModType
<1>4. (U32 - 1) \div MillisPerSecond # 0
  <2> DEFINE q == (U32 - 1) \div MillisPerSecond  r == (U32 - 1) % MillisPerSecond
  <2>1. r < q /\ r >= 0 /\ r \in Int /\ q \in Int
    BY <1>1, <1>2, <1>3, ModType, TimeAssumption
  <2> HIDE DEF q, r
  <2>2. q # 0
    BY <2>1
  <2> QED
    BY <2>2 DEF q
<1> QED
  BY <1>1, <1>2, <1>4, TimeAssumption

\* The 32 bit subtraction recovers the seconds since 1970 of every time stamp,
\* on either side of the wrap.
THEOREM SecondsExact == SecondsAreExact
<1> SUFFICES ASSUME NEW u \in Words PROVE UnixSeconds(StampOf(u)) = u
  BY DEF SecondsAreExact
<1>1. u \in 0 .. U32 - 1 /\ u \in Int /\ SeventyYears \in Int /\ U32 \in Int
  BY TimeTypes DEF Words
<1>2. CASE u + SeventyYears < U32
  <2>1. u + SeventyYears \in 0 .. U32 - 1
    BY <1>1, <1>2, TimeTypes
  <2>2. StampOf(u) = u + SeventyYears
    BY <2>1, ModSmall, TimeTypes DEF StampOf
  <2>3. StampOf(u) - SeventyYears = u
    BY <1>1, <2>2
  <2> QED
    BY <1>1, <2>3, ModSmall, TimeTypes DEF UnixSeconds
<1>3. CASE u + SeventyYears >= U32
  <2> DEFINE n == u + SeventyYears - U32
  <2>1. n \in 0 .. U32 - 1 /\ u + SeventyYears = n + U32
    BY <1>1, <1>3, TimeTypes
  <2>2. StampOf(u) = n
    <3> HIDE DEF n
    <3> QED
      BY <2>1, ModAbove, TimeTypes DEF StampOf
  <2>3. StampOf(u) - SeventyYears = u - U32
    BY <1>1, <2>2
  <2> QED
    BY <1>1, <2>3, ModBelow, TimeTypes DEF UnixSeconds
<1> QED
  BY <1>1, <1>2, <1>3

\* The fractions of a second never reach beyond it.
LEMMA LastMillis == Millis(U32 - 1) = MillisPerSecond
<1> DEFINE q == (U32 - 1) \div MillisPerSecond
           r == (U32 - 1) % MillisPerSecond
<1>1. U32 - 1 \in Nat /\ U32 - 1 \in Int /\ q \in Nat \ {0} /\ MillisPerSecond \in Nat \ {0}
  BY TimeTypes
<1>2. U32 - 1 = MillisPerSecond * q + r
  BY <1>1, DivMod
<1>3. r < q /\ r \in Nat
  BY <1>1, ModType, TimeAssumption
<1> HIDE DEF q, r
<1>4. MillisPerSecond * q = q * MillisPerSecond /\ r \in 0 .. q - 1
  BY <1>1, <1>3
<1>5. (U32 - 1) \div q = MillisPerSecond
  BY <1>1, <1>2, <1>4, DivExact
<1> QED
  BY <1>5 DEF Millis, q

LEMMA NextSecond ==
  ASSUME NEW stamp \in Words, stamp # EndOfTime
  PROVE  UnixSeconds((stamp + 1) % U32) = UnixSeconds(stamp) + 1
<1> DEFINE s == UnixSeconds(stamp)
<1>1. /\ stamp \in 0 .. U32 - 1 /\ stamp \in Int
      /\ SeventyYears \in Int /\ U32 \in Int /\ SeventyYears \in 0 .. U32 - 1
  BY TimeTypes DEF Words
<1>2. CASE stamp >= SeventyYears
  <2>1. stamp - SeventyYears \in 0 .. U32 - 1
    BY <1>1, <1>2
  <2>2. s = stamp - SeventyYears
    BY <2>1, ModSmall, TimeTypes DEF UnixSeconds
  <2>3. CASE stamp + 1 < U32
    <3>1. stamp + 1 \in 0 .. U32 - 1
      BY <1>1, <2>3
    <3>2. (stamp + 1) % U32 = stamp + 1
      BY <3>1, ModSmall, TimeTypes
    <3>3. stamp + 1 - SeventyYears \in 0 .. U32 - 1
      BY <1>1, <1>2, <2>3
    <3>4. UnixSeconds(stamp + 1) = stamp + 1 - SeventyYears
      BY <1>1, <3>3, ModSmall, TimeTypes DEF UnixSeconds
    <3> QED
      BY <1>1, <2>2, <3>2, <3>4
  <2>4. CASE stamp + 1 = U32
    <3>1. SeventyYears # 0
      <4>1. CASE SeventyYears = 0
        <5>1. SeventyYears - 1 = (U32 - 1) - U32 /\ U32 - 1 \in 0 .. U32 - 1
          BY <1>1, <4>1
        <5>2. EndOfTime = U32 - 1
          BY <5>1, ModBelow, TimeTypes DEF EndOfTime
        <5> QED
          BY <1>1, <2>4, <5>2
      <4> QED
        BY <4>1
    <3>2. (stamp + 1) % U32 = 0
      <4>1. 0 \in 0 .. U32 - 1 /\ stamp + 1 = 0 + U32
        BY <1>1, <2>4
      <4> QED
        BY <4>1, ModAbove, TimeTypes
    <3>3. U32 - SeventyYears \in 0 .. U32 - 1 /\ 0 - SeventyYears = (U32 - SeventyYears) - U32
      BY <1>1, <3>1
    <3>4. UnixSeconds(0) = U32 - SeventyYears
      BY <3>3, ModBelow, TimeTypes DEF UnixSeconds
    <3> QED
      BY <1>1, <2>2, <2>4, <3>2, <3>4
  <2> QED
    BY <1>1, <2>3, <2>4
<1>3. CASE stamp < SeventyYears
  <2>1. /\ stamp - SeventyYears + U32 \in 0 .. U32 - 1
        /\ stamp - SeventyYears = (stamp - SeventyYears + U32) - U32
    BY <1>1, <1>3
  <2>2. s = stamp - SeventyYears + U32
    BY <2>1, ModBelow, TimeTypes DEF UnixSeconds
  <2>3. stamp + 1 \in 0 .. U32 - 1
    BY <1>1, <1>3
  <2>4. (stamp + 1) % U32 = stamp + 1
    BY <2>3, ModSmall, TimeTypes
  <2>5. stamp + 1 # SeventyYears
    <3>1. CASE stamp = SeventyYears - 1
      <4>1. SeventyYears - 1 \in 0 .. U32 - 1
        BY <1>1, <3>1
      <4>2. EndOfTime = SeventyYears - 1
        BY <4>1, ModSmall, TimeTypes DEF EndOfTime
      <4> QED
        BY <3>1, <4>2
    <3> QED
      BY <1>1, <3>1
  <2>6. /\ stamp + 1 - SeventyYears + U32 \in 0 .. U32 - 1
        /\ stamp + 1 - SeventyYears = (stamp + 1 - SeventyYears + U32) - U32
    BY <1>1, <1>3, <2>5
  <2>7. UnixSeconds(stamp + 1) = stamp + 1 - SeventyYears + U32
    BY <1>1, <2>6, ModBelow, TimeTypes DEF UnixSeconds
  <2> QED
    BY <1>1, <2>2, <2>4, <2>7
<1> QED
  BY <1>1, <1>2, <1>3

\* The reported time is monotonic, within a second and from one to the next.
THEOREM OrderKept == TimeKeepsOrder
<1> SUFFICES ASSUME NEW stamp \in Words
             PROVE  /\ \A fraction \in 0 .. U32 - 2 :
                         UnixMillis(stamp, fraction) <= UnixMillis(stamp, fraction + 1)
                    /\ stamp # EndOfTime =>
                         UnixMillis(stamp, U32 - 1) <= UnixMillis((stamp + 1) % U32, 0)
  BY DEF TimeKeepsOrder
<1> DEFINE q == (U32 - 1) \div MillisPerSecond
           s == UnixSeconds(stamp)
<1>1. q \in Nat \ {0} /\ MillisPerSecond \in Nat /\ U32 \in Nat
  BY TimeTypes
<1>2. s \in Nat
  <2>1. stamp - SeventyYears \in Int
    BY TimeTypes DEF Words
  <2> QED
    BY <2>1, ModType, TimeTypes DEF UnixSeconds
<1>3. s * MillisPerSecond \in Nat
  BY <1>1, <1>2
<1>4. ASSUME NEW fraction \in 0 .. U32 - 2
      PROVE  UnixMillis(stamp, fraction) <= UnixMillis(stamp, fraction + 1)
  <2>1. fraction \in Nat /\ fraction + 1 \in Nat
    BY <1>1
  <2>2. /\ Millis(fraction) \in Nat /\ Millis(fraction + 1) \in Nat
        /\ Millis(fraction) <= Millis(fraction + 1)
    <3> HIDE DEF q
    <3>1. /\ fraction \div q \in Nat /\ (fraction + 1) \div q \in Nat
          /\ fraction \div q <= (fraction + 1) \div q
      BY <1>1, <2>1, DivType, DivGrows
    <3> QED
      BY <3>1 DEF Millis, q
  <2> HIDE DEF s, q
  <2> QED
    BY <1>3, <2>2 DEF UnixMillis, s
<1>5. ASSUME stamp # EndOfTime
      PROVE  UnixMillis(stamp, U32 - 1) <= UnixMillis((stamp + 1) % U32, 0)
  <2>1. UnixMillis(stamp, U32 - 1) = s * MillisPerSecond + MillisPerSecond
    BY LastMillis DEF UnixMillis
  <2>2. Millis(0) = 0
    <3>1. q * 0 + 0 = 0 /\ 0 \in 0 .. q - 1
      BY <1>1
    <3>2. 0 \div q = 0
      <4> HIDE DEF q
      <4> QED
        BY <1>1, <3>1, DivExact
    <3> QED
      BY <3>2 DEF Millis
  <2>3. UnixMillis((stamp + 1) % U32, 0) = (s + 1) * MillisPerSecond + 0
    BY <1>5, <2>2, NextSecond DEF UnixMillis
  <2>4. (s + 1) * MillisPerSecond + 0 = s * MillisPerSecond + MillisPerSecond
    <3> HIDE DEF s
    <3> QED
      BY <1>1, <1>2
  <2>5. s * MillisPerSecond + MillisPerSecond \in Int
    BY <1>1, <1>3
  <2> HIDE DEF s
  <2> QED
    BY <2>1, <2>3, <2>4, <2>5
<1> QED
  BY <1>4, <1>5

-----------------------------------------------------------------------------
(* The RECV flag.  NoLostWakeup speaks of the states between two calls; in *)
(* the middle of a call the flag may be down while the packets it stood    *)
(* for are still being parsed.                                             *)

WakeupInv == rx # <<>> => recv \/ pc = "parse"

\* A client that goes to sleep has either drained its socket or left the flag
\* up for the packets that arrived behind its back.
THEOREM NoWakeupLost == Spec => []NoLostWakeup
<1>1. Init => WakeupInv
  BY DEF Init, WakeupInv
<1>2. WakeupInv /\ [Next]_vars => WakeupInv'
  <2> SUFFICES ASSUME WakeupInv, [Next]_vars PROVE WakeupInv'
    OBVIOUS
  <2> USE DEF WakeupInv
  <2>1. CASE UpdateFails
    BY <2>1 DEF UpdateFails, chipVars
  <2>2. CASE UpdateBegin
    BY <2>2 DEF UpdateBegin, TakeFlag
  <2>3. CASE ParsePacket
    BY <2>3 DEF ParsePacket
  <2>4. CASE UpdateEnd
    BY <2>4 DEF UpdateEnd, chipVars
  <2>5. CASE \E s \in Servers : SetServerIp(s)
    BY <2>5 DEF SetServerIp
  <2>6. CASE Close
    BY <2>6 DEF Close
  <2>7. CASE Arrival
    BY <2>7 DEF Arrival, Arrive
  <2>8. CASE Tick
    BY <2>8 DEF Tick, chipVars
  <2>9. CASE UNCHANGED vars
    BY <2>9 DEF vars, clientVars, chipVars
  <2> QED
    BY <2>1, <2>2, <2>3, <2>4, <2>5, <2>6, <2>7, <2>8, <2>9 DEF Next, Update
<1>3. WakeupInv => NoLostWakeup
  BY DEF WakeupInv, NoLostWakeup
<1> QED
  BY <1>1, <1>2, <1>3, PTL DEF Spec

-----------------------------------------------------------------------------
(* The destination.  It is set in two places: by update() for a socket it   *)
(* opens, and by set_server_ip() for one that is open already.             *)

DestinationInv ==
  /\ open => dest = server
  /\ pc # "idle" => open

\* Every request is sent while the socket's destination is the server that
\* set_server_ip() was last given.
THEOREM RequestsGoToTheServer == Spec => []AsksConfiguredServer
<1>1. Init => DestinationInv
  BY DEF Init, DestinationInv
<1>2. DestinationInv /\ [Next]_vars => DestinationInv'
  <2> SUFFICES ASSUME DestinationInv, [Next]_vars PROVE DestinationInv'
    OBVIOUS
  <2> USE DEF DestinationInv
  <2>1. CASE UpdateFails
    BY <2>1 DEF UpdateFails, chipVars
  <2>2. CASE UpdateBegin
    BY <2>2 DEF UpdateBegin
  <2>3. CASE ParsePacket
    BY <2>3 DEF ParsePacket
  <2>4. CASE UpdateEnd
    BY <2>4 DEF UpdateEnd, chipVars
  <2>5. ASSUME NEW s \in Servers, SetServerIp(s) PROVE DestinationInv'
    BY <2>5 DEF SetServerIp
  <2>6. CASE Close
    BY <2>6 DEF Close, clientVars
  <2>7. CASE Arrival
    BY <2>7 DEF Arrival, Arrive, clientVars
  <2>8. CASE Tick
    BY <2>8 DEF Tick, chipVars
  <2>9. CASE UNCHANGED vars
    BY <2>9 DEF vars, clientVars, chipVars
  <2> QED
    BY <2>1, <2>2, <2>3, <2>4, <2>5, <2>6, <2>7, <2>8, <2>9 DEF Next, Update
<1>3. DestinationInv => AsksConfiguredServer
  BY DEF DestinationInv, AsksConfiguredServer
<1> QED
  BY <1>1, <1>2, <1>3, PTL DEF Spec

-----------------------------------------------------------------------------
(* What update() reports.                                                  *)

ReportInv ==
  /\ timeSet /\ pc # "idle" => parsed
  /\ timeSet /\ pc = "idle" => result

\* However many packets a call parses, good ones or not, it reports that it has
\* set the time if one of them did.
THEOREM TimeReported == Spec => []TimeIsReported
<1>1. Init => ReportInv
  BY DEF Init, ReportInv
<1>2. ReportInv /\ [Next]_vars => ReportInv'
  <2> SUFFICES ASSUME ReportInv, [Next]_vars PROVE ReportInv'
    OBVIOUS
  <2> USE DEF ReportInv
  <2>1. CASE UpdateFails
    BY <2>1 DEF UpdateFails
  <2>2. CASE UpdateBegin
    BY <2>2 DEF UpdateBegin, TakeFlag
  <2>3. CASE ParsePacket
    <3>1. CASE rx = <<>>
      <4>1. parsed' = parsed /\ timeSet' = timeSet /\ pc = "parse" /\ pc' = "timers"
        BY <2>3, <3>1 DEF ParsePacket
      <4> QED
        BY <4>1
    <3>2. CASE rx # <<>>
      <4>1. parsed' = TRUE /\ pc = "parse" /\ pc' = pc
        BY <2>3, <3>2 DEF ParsePacket
      <4> QED
        BY <4>1
    <3> QED
      BY <3>1, <3>2
  <2>4. CASE UpdateEnd
    BY <2>4 DEF UpdateEnd
  <2>5. CASE \E s \in Servers : SetServerIp(s)
    BY <2>5 DEF SetServerIp
  <2>6. CASE Close \/ Arrival
    <3>1. UNCHANGED <<timeSet, pc, parsed, result>>
      BY <2>6 DEF Close, Arrival, Arrive, clientVars
    <3> QED
      BY <3>1
  <2>7. CASE Tick
    BY <2>7 DEF Tick
  <2>8. CASE UNCHANGED vars
    BY <2>8 DEF vars, clientVars
  <2> QED
    BY <2>1, <2>2, <2>3, <2>4, <2>5, <2>6, <2>7, <2>8 DEF Next, Update
<1>3. ReportInv => TimeIsReported
  BY DEF ReportInv, TimeIsReported
<1> QED
  BY <1>1, <1>2, <1>3, PTL DEF Spec

-----------------------------------------------------------------------------
(* Types.                                                                  *)

LEMMA AgeTypes ==
  /\ 0 \in 0 .. MaxAge
  /\ \A age \in 0 .. MaxAge : Older(age) \in 0 .. MaxAge
  BY IntervalAssumption DEF Older

LEMMA BufferTypes ==
  /\ <<>> \in Seq(Packets) /\ Len(<<>>) <= RxCap
  /\ TypeOK /\ rx # <<>> =>
       Head(rx) \in Packets /\ Tail(rx) \in Seq(Packets) /\ Len(Tail(rx)) <= RxCap
  BY IntervalAssumption DEF TypeOK

\* The ages keep their bound, the poll exponent is one that a server sent, and
\* the RX buffer holds no more than it has room for.
THEOREM TypeCorrect == Spec => []TypeOK
<1>1. Init => TypeOK
  BY BufferTypes DEF Init, TypeOK, AllPolls
<1>2. TypeOK /\ [Next]_vars => TypeOK'
  <2> SUFFICES ASSUME TypeOK, [Next]_vars PROVE TypeOK'
    OBVIOUS
  <2>1. CASE UpdateFails
    BY <2>1 DEF UpdateFails, chipVars, TypeOK
  <2>2. CASE UpdateBegin
    BY <2>2 DEF UpdateBegin, TakeFlag, TypeOK
  <2>3. CASE ParsePacket
    <3>1. CASE rx = <<>>
      BY <2>3, <3>1 DEF ParsePacket, TypeOK
    <3>2. CASE rx # <<>>
      <4>1. Head(rx) \in Packets /\ Tail(rx) \in Seq(Packets) /\ Len(Tail(rx)) <= RxCap
        BY <3>2, BufferTypes
      <4>2. Head(rx).poll \in AllPolls
        BY <4>1 DEF Packets, AllPolls
      <4>3. lastResponse' \in 0 .. MaxAge /\ poll' \in AllPolls /\ timeSet' \in BOOLEAN
        BY <2>3, <3>2, <4>2, AgeTypes DEF ParsePacket, TypeOK
      <4> QED
        BY <2>3, <3>2, <4>1, <4>3 DEF ParsePacket, TypeOK
    <3> QED
      BY <3>1, <3>2
  <2>4. CASE UpdateEnd
    BY <2>4, AgeTypes DEF UpdateEnd, chipVars, TypeOK
  <2>5. ASSUME NEW s \in Servers, SetServerIp(s) PROVE TypeOK'
    BY <2>5 DEF SetServerIp, TypeOK
  <2>6. CASE Close
    BY <2>6, BufferTypes DEF Close, clientVars, TypeOK
  <2>7. ASSUME NEW packet \in Packets, Arrive(packet) PROVE TypeOK'
    <3>1. rx' \in Seq(Packets) /\ Len(rx') <= RxCap
      BY <2>7, IntervalAssumption DEF Arrive, TypeOK
    <3> QED
      BY <2>7, <3>1 DEF Arrive, clientVars, TypeOK
  <2>8. CASE Tick
    BY <2>8, AgeTypes DEF Tick, chipVars, TypeOK
  <2>9. CASE UNCHANGED vars
    BY <2>9 DEF vars, clientVars, chipVars, TypeOK
  <2> QED
    BY <2>1, <2>2, <2>3, <2>4, <2>5, <2>6, <2>7, <2>8, <2>9 DEF Next, Update, Arrival
<1> QED
  BY <1>1, <1>2, PTL DEF Spec

-----------------------------------------------------------------------------

\* Whatever a server sends, the time made of it is exact in either era and
\* never runs backwards.
THEOREM TimesSound == Spec => []ReportedTimeIsSound
<1>1. ReportedTimeIsSound
  BY SecondsExact, OrderKept DEF ReportedTimeIsSound
<1> QED
  BY <1>1, PTL

=============================================================================
