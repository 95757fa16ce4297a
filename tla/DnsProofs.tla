------------------------------- MODULE DnsProofs -------------------------------
(***************************************************************************)
(* Proofs about DnsClient for every set of servers, names and replies,     *)
(* every size of the cache and of the RX buffer, and about the parser of   *)
(* DnsMessage for replies with any number of records, whatever they say,   *)
(* and about the ids of queries.                                           *)
(***************************************************************************)
EXTENDS MCDns, NumberProofs, SequenceTheorems

-----------------------------------------------------------------------------
(* The slots.                                                              *)

\* Min picks a place whenever there is one to pick.
LEMMA MinIsMember ==
  ASSUME NEW S \in SUBSET Places, S # {}
  PROVE  Min(S) \in S
<1>1. S \in SUBSET Nat
  BY DEF Places
<1> QED
  BY <1>1, HasLeast DEF Min

LEMMA SlotTypes ==
  ASSUME NEW slot \in Slots, Live(slot)
  PROVE  slot \in Answers
  BY CacheAssumption DEF Slots, Answers, Live

LEMMA NoAnswerIsNotLive == ~Live(NoAnswer)
  BY DEF Live

LEMMA AnswersAreLive ==
  ASSUME NEW answer \in Answers
  PROVE  answer \in Slots /\ Live(answer)
<1>1. answer \in [id : Ids, ip : Ips, left : -1 .. MaxLife] /\ answer.left >= 0
  BY CacheAssumption DEF Answers
<1> QED
  BY <1>1, CacheAssumption DEF Slots, Live

\* In a full cache some answer is the first to expire.
LEMMA SoonestExists ==
  ASSUME slots \in [Places -> Slots], Unfilled = {}
  PROVE  Soonest # {}
<1> DEFINE S == {slots[i].left : i \in Places}
<1>1. \A i \in Places : slots[i].left \in Nat
  <2> SUFFICES ASSUME NEW i \in Places PROVE slots[i].left \in Nat
    OBVIOUS
  <2>1. slots[i] \in Answers
    BY SlotTypes DEF Unfilled
  <2> QED
    BY <2>1, CacheAssumption DEF Answers
<1>2. 1 \in Places
  BY CacheAssumption DEF Places
<1>3. S \in SUBSET Nat /\ S # {}
  BY <1>1, <1>2
<1>4. PICK x \in S : \A y \in S : x <= y
  BY <1>3, HasLeast
<1>5. PICK i \in Places : x = slots[i].left
  OBVIOUS
<1>6. \A j \in Places : slots[i].left <= slots[j].left
  BY <1>4, <1>5
<1> QED
  BY <1>6 DEF Soonest

LEMMA PlaceIsPlace ==
  ASSUME slots \in [Places -> Slots]
  PROVE  /\ Place \in Places
         /\ Unfilled # {} => Place \in Unfilled
         /\ Unfilled = {} => Place \in Soonest
<1>1. Unfilled \in SUBSET Places /\ Soonest \in SUBSET Places
  BY DEF Unfilled, Soonest
<1>2. CASE Unfilled # {}
  BY <1>1, <1>2, MinIsMember DEF Place
<1>3. CASE Unfilled = {}
  BY <1>1, <1>3, MinIsMember, SoonestExists DEF Place
<1> QED
  BY <1>2, <1>3

\* Looking at slots takes away no answer that lives.
LEMMA SweptKeeps ==
  ASSUME slots \in [Places -> Slots], NEW reach
  PROVE  /\ Swept(reach) \in [Places -> Slots]
         /\ \A i \in Places : Live(Swept(reach)[i]) <=> Live(slots[i])
         /\ \A i \in Places : Live(slots[i]) => Swept(reach)[i] = slots[i]
<1>1. NoAnswer \in Slots
  BY DEF Slots
<1> QED
  BY <1>1, NoAnswerIsNotLive DEF Swept

LEMMA StoreTypes ==
  ASSUME slots \in [Places -> Slots], NEW answer \in Answers, CacheStore(answer)
  PROVE  /\ slots' \in [Places -> Slots]
         /\ slots'[Place] = answer
         /\ \A i \in Places \ {Place} :
              /\ Live(slots'[i]) <=> Live(slots[i])
              /\ Live(slots[i]) => slots'[i] = slots[i]
<1>1. answer \in Slots
  BY AnswersAreLive
<1> DEFINE swept == Swept(Reach(Unfilled))
<1>2. /\ swept \in [Places -> Slots]
      /\ \A i \in Places : Live(swept[i]) <=> Live(slots[i])
      /\ \A i \in Places : Live(slots[i]) => swept[i] = slots[i]
  BY SweptKeeps
<1>3. slots' = [swept EXCEPT ![Place] = answer]
  BY DEF CacheStore
<1>4. Place \in Places
  BY PlaceIsPlace
<1> HIDE DEF swept
<1> QED
  BY <1>1, <1>2, <1>3, <1>4

LEMMA AgedTypes ==
  ASSUME NEW slot \in Slots
  PROVE  /\ Aged(slot) \in Slots
         /\ Live(Aged(slot)) <=> Live(slot) /\ slot.left > 0
         /\ Live(slot) => Aged(slot) = [slot EXCEPT !.left = @ - 1]
<1>1. CASE Live(slot)
  <2>1. slot \in Answers /\ Aged(slot) = [slot EXCEPT !.left = @ - 1]
    BY <1>1, SlotTypes DEF Aged
  <2>2. slot.left \in 0 .. MaxLife
    BY <2>1 DEF Answers
  <2>3. slot.left - 1 \in -1 .. MaxLife /\ slot.left \in Int
    BY <2>2, CacheAssumption
  <2>4. /\ Aged(slot) \in [id : Ids, ip : Ips, left : -1 .. MaxLife]
        /\ Aged(slot).left = slot.left - 1
    BY <2>1, <2>3 DEF Answers
  <2>5. Aged(slot) # NoAnswer /\ Aged(slot) \in Slots
    BY <2>4, CacheAssumption DEF Slots
  <2>6. slot.left - 1 >= 0 <=> slot.left > 0
    BY <2>3
  <2> QED
    BY <1>1, <2>1, <2>4, <2>5, <2>6 DEF Live
<1>2. CASE ~Live(slot)
  BY <1>2 DEF Aged
<1> QED
  BY <1>1, <1>2

-----------------------------------------------------------------------------
(* Types.                                                                  *)

USE DEF CacheTypeOK

LEMMA LookForType ==
  ASSUME TypeOK, NEW id, LookFor(id)
  PROVE  slots' \in [Places -> Slots]
  BY SweptKeeps DEF TypeOK, LookFor

LEMMA GetType ==
  ASSUME TypeOK, NEW id \in Ids, Get(id)
  PROVE  TypeOK'
<1>1. slots' \in [Places -> Slots]
  BY LookForType DEF Get, CacheGet
<1>2. found' \in Ips \cup {NoAnswer}
  <2>1. CASE HasEntry(id)
    <3>1. Matches(id) \in SUBSET Places /\ Matches(id) # {}
      BY <2>1 DEF Matches, HasEntry
    <3>2. Min(Matches(id)) \in Matches(id)
      BY <3>1, MinIsMember
    <3>3. slots[Min(Matches(id))] \in Answers
      BY <3>2, SlotTypes DEF TypeOK, Matches
    <3> QED
      BY <2>1, <3>3 DEF Get, CacheGet, Answers
  <2>2. CASE ~HasEntry(id)
    BY <2>2 DEF Get, CacheGet
  <2> QED
    BY <2>1, <2>2
<1> QED
  BY <1>1, <1>2 DEF Get, TypeOK, chipVars

LEMMA ParseType ==
  ASSUME TypeOK, ParsePacket
  PROVE  TypeOK'
<1>1. CASE rx = <<>>
  BY <1>1 DEF ParsePacket, TypeOK
<1>2. CASE rx # <<>>
  <2>1. /\ Head(rx) \in AllReplies
        /\ Tail(rx) \in Seq(AllReplies)
        /\ Len(Tail(rx)) <= RxCap
    BY <1>2, ClientAssumption DEF TypeOK
  <2>2. slots' \in [Places -> Slots]
    <3>1. CASE Parsed(Head(rx)) = NoAnswer
      BY <1>2, <3>1 DEF ParsePacket, TypeOK
    <3>2. CASE Parsed(Head(rx)) # NoAnswer
      <4>1. Parsed(Head(rx)) \in Answers /\ CacheStore(Parsed(Head(rx)))
        BY <1>2, <2>1, <3>2, ClientAssumption DEF ParsePacket
      <4> QED
        BY <4>1, StoreTypes DEF TypeOK
    <3> QED
      BY <3>1, <3>2
  <2> QED
    BY <1>2, <2>1, <2>2 DEF ParsePacket, TypeOK
<1> QED
  BY <1>1, <1>2

LEMMA AnswerType ==
  ASSUME TypeOK, NEW reply \in AllReplies, Answer(reply)
  PROVE  TypeOK'
<1>1. rx' \in Seq(AllReplies) /\ Len(rx') <= RxCap
  BY ClientAssumption DEF TypeOK, Answer
<1> QED
  BY <1>1 DEF TypeOK, Answer, cacheVars

LEMMA TickType ==
  ASSUME TypeOK, Tick
  PROVE  TypeOK'
<1>1. slots' \in [Places -> Slots]
  BY AgedTypes DEF TypeOK, Tick, CacheTick
<1> QED
  BY <1>1 DEF TypeOK, Tick, chipVars

LEMMA EmptyBuffer == <<>> \in Seq(AllReplies) /\ Len(<<>>) <= RxCap
  BY ClientAssumption

\* The cache holds what its slots are made for, and the RX buffer no more than
\* it has room for.
THEOREM TypeCorrect == Spec => []TypeOK
<1>1. Init => TypeOK
  BY EmptyBuffer, CacheAssumption
  DEF Init, CacheInit, TypeOK, Slots
<1>2. TypeOK /\ [Next]_vars => TypeOK'
  <2> SUFFICES ASSUME TypeOK, [Next]_vars PROVE TypeOK'
    OBVIOUS
  <2>1. CASE UpdateFails
    BY <2>1 DEF UpdateFails, vars, cacheVars, chipVars, TypeOK
  <2>2. CASE UpdateBegin
    BY <2>2 DEF UpdateBegin, cacheVars, TypeOK
  <2>3. CASE ParsePacket
    BY <2>3, ParseType
  <2>4. ASSUME NEW name \in Names, Query(name) PROVE TypeOK'
    <3>1. slots' \in [Places -> Slots] /\ found' = found
      BY <2>4, LookForType DEF Query, QueryCached, QuerySent, QueryGivenUp
    <3>2. CASE QueryCached(name)
      BY <3>1, <3>2 DEF QueryCached, chipVars, TypeOK
    <3>3. CASE QuerySent(name)
      BY <3>1, <3>3 DEF QuerySent, chipVars, TypeOK
    <3>4. CASE QueryGivenUp(name)
      BY <3>1, <3>4, EmptyBuffer DEF QueryGivenUp, CloseSocket, TypeOK
    <3> QED
      BY <2>4, <3>2, <3>3, <3>4 DEF Query
  <2>5. ASSUME NEW id \in Ids, Get(id) PROVE TypeOK'
    BY <2>5, GetType
  <2>6. ASSUME NEW s \in Servers, SetServerIp(s) PROVE TypeOK'
    BY <2>6 DEF SetServerIp, cacheVars, TypeOK
  <2>7. CASE Close
    BY <2>7, EmptyBuffer DEF Close, CloseSocket, cacheVars, TypeOK
  <2>8. ASSUME NEW reply \in AllReplies, Answer(reply) PROVE TypeOK'
    BY <2>8, AnswerType
  <2>9. ASSUME NEW name \in Names, Forget(name) PROVE TypeOK'
    BY <2>9 DEF Forget, cacheVars, chipVars, TypeOK
  <2>10. CASE Tick
    BY <2>10, TickType
  <2>11. CASE UNCHANGED vars
    BY <2>11 DEF vars, cacheVars, chipVars, TypeOK
  <2> QED
    BY <2>1, <2>2, <2>3, <2>4, <2>5, <2>6, <2>7, <2>8, <2>9, <2>10, <2>11
    DEF Next, Update
<1> QED
  BY <1>1, <1>2, PTL DEF Spec

-----------------------------------------------------------------------------
(* The RECV flag.                                                          *)

\* update() drains the socket before it returns, so a reply it has not seen
\* came after the flag was cleared, and raised it again.
THEOREM NoWakeupLost == Spec => []NoLostWakeup
<1>1. Init => NoLostWakeup
  BY DEF Init, NoLostWakeup
<1>2. NoLostWakeup /\ [Next]_vars => NoLostWakeup'
  <2> SUFFICES ASSUME NoLostWakeup, [Next]_vars PROVE NoLostWakeup'
    OBVIOUS
  <2> USE DEF NoLostWakeup
  <2>1. CASE Update
    BY <2>1 DEF Update, UpdateFails, UpdateBegin, ParsePacket, vars, chipVars
  <2>2. ASSUME NEW name \in Names, Query(name) PROVE NoLostWakeup'
    BY <2>2 DEF Query, QueryCached, QuerySent, QueryGivenUp, CloseSocket, chipVars
  <2>3. ASSUME NEW id \in Ids, Get(id) PROVE NoLostWakeup'
    BY <2>3 DEF Get, chipVars
  <2>4. ASSUME NEW s \in Servers, SetServerIp(s) PROVE NoLostWakeup'
    BY <2>4 DEF SetServerIp
  <2>5. CASE Close
    BY <2>5 DEF Close, CloseSocket
  <2>6. ASSUME NEW reply \in AllReplies, Answer(reply) PROVE NoLostWakeup'
    BY <2>6 DEF Answer
  <2>7. ASSUME NEW name \in Names, Forget(name) PROVE NoLostWakeup'
    BY <2>7 DEF Forget, chipVars
  <2>8. CASE Tick
    BY <2>8 DEF Tick, chipVars
  <2>9. CASE UNCHANGED vars
    BY <2>9 DEF vars, chipVars
  <2> QED
    BY <2>1, <2>2, <2>3, <2>4, <2>5, <2>6, <2>7, <2>8, <2>9 DEF Next
<1> QED
  BY <1>1, <1>2, PTL DEF Spec

-----------------------------------------------------------------------------
(* The promise of a cache.                                                 *)

LEMMA HeldDomain ==
  /\ DOMAIN Held = {i \in Places : Live(slots[i])}
  /\ \A i \in DOMAIN Held : Held[i] = slots[i]
  BY DEF Held

LEMMA HeldUnderLook ==
  ASSUME TypeOK, NEW id, LookFor(id)
  PROVE  Held' = Held
<1>1. \A i \in Places : Live(slots'[i]) <=> Live(slots[i])
  BY SweptKeeps DEF LookFor, TypeOK, Live
<1>2. \A i \in Places : Live(slots[i]) => slots'[i] = slots[i]
  BY SweptKeeps DEF LookFor, TypeOK
<1>3. {i \in Places : Live(slots'[i])} = {i \in Places : Live(slots[i])}
  BY <1>1
<1>4. Held' = [i \in {j \in Places : Live(slots'[j])} |-> slots'[i]]
  BY DEF Held, Live
<1> QED
  BY <1>2, <1>3, <1>4 DEF Held

LEMMA GetKeepsPromise ==
  ASSUME TypeOK, NEW id \in Ids, Get(id)
  PROVE  Promise!Get(id)
<1>1. Held' = Held
  BY HeldUnderLook DEF Get, CacheGet
<1>2. Promise!Holding(id) = Matches(id)
  BY HeldDomain DEF Promise!Holding, Matches
<1>3. CASE HasEntry(id)
  <2>1. Matches(id) \in SUBSET Places /\ Matches(id) # {}
    BY <1>3 DEF HasEntry, Matches
  <2>2. Min(Matches(id)) \in Matches(id)
    BY <2>1, MinIsMember
  <2>3. found' = slots[Min(Matches(id))].ip
    BY <1>3 DEF Get, CacheGet
  <2>4. Held[Min(Matches(id))] = slots[Min(Matches(id))]
    BY <2>2, HeldDomain DEF Matches
  <2> QED
    BY <1>1, <1>2, <2>2, <2>3, <2>4 DEF Promise!Get
<1>4. CASE ~HasEntry(id)
  BY <1>1, <1>2, <1>4 DEF Promise!Get, Get, CacheGet, HasEntry
<1> QED
  BY <1>3, <1>4

LEMMA StoreKeepsPromise ==
  ASSUME TypeOK, NEW answer \in Answers, CacheStore(answer), found' = found
  PROVE  Promise!Store
<1>1. slots \in [Places -> Slots]
  BY DEF TypeOK
<1>2. /\ Place \in Places
      /\ Unfilled # {} => Place \in Unfilled
      /\ Unfilled = {} => Place \in Soonest
  BY <1>1, PlaceIsPlace
<1>3. Place \in Promise!Room
  <2>1. CASE Unfilled = {}
    <3>1. DOMAIN Held = Places
      BY <2>1, HeldDomain DEF Unfilled
    <3>2. \A i \in Places : Held[i] = slots[i]
      BY <3>1, HeldDomain
    <3> QED
      BY <1>2, <2>1, <3>1, <3>2 DEF Promise!Room, Promise!Places, Places, Soonest
  <2>2. CASE Unfilled # {}
    BY <1>2, <2>2, HeldDomain DEF Unfilled, Promise!Room, Promise!Places, Places
  <2> QED
    BY <2>1, <2>2
<1>4. /\ slots'[Place] = answer
      /\ \A i \in Places \ {Place} :
           /\ Live(slots'[i]) <=> Live(slots[i])
           /\ Live(slots[i]) => slots'[i] = slots[i]
  BY <1>1, StoreTypes
<1>5. Held' = [i \in {j \in Places : Live(slots'[j])} |-> slots'[i]]
  BY DEF Held, Live
<1>6. Live(slots'[Place]) /\ answer \in Promise!Answers
  BY <1>4, AnswersAreLive DEF Promise!Answers, Answers
<1>7. {i \in Places : Live(slots'[i])} = {i \in Places : Live(slots[i])} \cup {Place}
  BY <1>2, <1>4, <1>6
<1>8. DOMAIN Held' = DOMAIN Held \cup {Place} /\ Held'[Place] = answer
  BY <1>4, <1>5, <1>7, HeldDomain
<1>9. \A q \in DOMAIN Held \ {Place} : Held'[q] = Held[q]
  BY <1>4, <1>5, <1>7, HeldDomain
<1> QED
  BY <1>3, <1>6, <1>8, <1>9 DEF Promise!Store

LEMMA TickKeepsPromise ==
  ASSUME TypeOK, Tick
  PROVE  Promise!Tick
<1>1. slots \in [Places -> Slots] /\ slots' = [i \in Places |-> Aged(slots[i])]
  BY DEF TypeOK, Tick, CacheTick
<1>2. ASSUME NEW i \in Places
      PROVE  /\ Live(slots'[i]) <=> Live(slots[i]) /\ slots[i].left > 0
             /\ Live(slots[i]) => slots'[i] = [slots[i] EXCEPT !.left = @ - 1]
  BY <1>1, AgedTypes
<1>3. Held' = [i \in {j \in Places : Live(slots'[j])} |-> slots'[i]]
  BY DEF Held, Live
<1>4. {i \in Places : Live(slots'[i])} = {q \in DOMAIN Held : Held[q].left > 0}
  BY <1>2, HeldDomain
<1>5. ASSUME NEW i \in Places, Live(slots'[i])
      PROVE  slots'[i] = [Held[i] EXCEPT !.left = @ - 1]
  BY <1>2, <1>5, HeldDomain
<1>6. Held' = [p \in {q \in DOMAIN Held : Held[q].left > 0} |->
                 [Held[p] EXCEPT !.left = @ - 1]]
  BY <1>3, <1>4, <1>5
<1> QED
  BY <1>6 DEF Promise!Tick, Tick

\* The array of slots, which are emptied only in passing and searched from the
\* front, implements a cache: it never serves an answer whose life is over, and
\* evicts a living one only when it is full, and then the first to expire.
THEOREM PromiseKept == Spec => KeepsCachePromise
<1>1. Init => Promise!Init
  <2> SUFFICES ASSUME Init PROVE Promise!Init
    OBVIOUS
  <2>1. {i \in Places : Live(slots[i])} = {}
    BY NoAnswerIsNotLive DEF Init, CacheInit
  <2>2. Held = [p \in {} |-> NoAnswer]
    BY <2>1 DEF Held
  <2> QED
    BY <2>2 DEF Promise!Init, Init, CacheInit
<1>2. TypeOK /\ [Next]_vars => [Promise!Next]_<<Held, found>>
  <2> SUFFICES ASSUME TypeOK, [Next]_vars
               PROVE  Promise!Next \/ (Held' = Held /\ found' = found)
    OBVIOUS
  <2> DEFINE Same == Held' = Held /\ found' = found
  <2>1. ASSUME UNCHANGED cacheVars PROVE Same
    BY <2>1 DEF cacheVars, Held, Live
  <2>2. CASE UpdateFails \/ UpdateBegin \/ UNCHANGED vars
    BY <2>1, <2>2 DEF UpdateFails, UpdateBegin, vars
  <2>3. CASE ParsePacket
    <3>1. CASE rx = <<>> \/ Parsed(Head(rx)) = NoAnswer
      BY <2>1, <2>3, <3>1 DEF ParsePacket, cacheVars
    <3>2. CASE ~(rx = <<>> \/ Parsed(Head(rx)) = NoAnswer)
      <4>1. Head(rx) \in AllReplies
        BY <3>2 DEF TypeOK
      <4>2. Parsed(Head(rx)) \in Answers
        BY <3>2, <4>1, ClientAssumption
      <4>3. CacheStore(Parsed(Head(rx))) /\ found' = found
        BY <2>3, <3>2 DEF ParsePacket
      <4> QED
        BY <4>2, <4>3, StoreKeepsPromise DEF Promise!Next
    <3> QED
      BY <3>1, <3>2
  <2>4. ASSUME NEW name \in Names, Query(name) PROVE Same
    <3>1. LookFor(IdOf(name)) /\ found' = found
      BY <2>4 DEF Query, QueryCached, QuerySent, QueryGivenUp
    <3> QED
      BY <3>1, HeldUnderLook
  <2>5. ASSUME NEW id \in Ids, Get(id) PROVE Promise!Next
    BY <2>5, GetKeepsPromise DEF Promise!Next
  <2>6. ASSUME NEW s \in Servers, SetServerIp(s) PROVE Same
    BY <2>1, <2>6 DEF SetServerIp
  <2>7. CASE Close
    BY <2>1, <2>7 DEF Close
  <2>8. ASSUME NEW reply \in AllReplies, Answer(reply) PROVE Same
    BY <2>1, <2>8 DEF Answer
  <2>9. ASSUME NEW name \in Names, Forget(name) PROVE Same
    BY <2>1, <2>9 DEF Forget
  <2>10. CASE Tick
    BY <2>10, TickKeepsPromise DEF Promise!Next
  <2> QED
    BY <2>2, <2>3, <2>4, <2>5, <2>6, <2>7, <2>8, <2>9, <2>10 DEF Next, Update
<1> QED
  BY <1>1, <1>2, TypeCorrect, PTL DEF Spec, KeepsCachePromise, Promise!Spec

-----------------------------------------------------------------------------
(* Bytes in a buffer.                                                      *)

Bytes == Seq(Nat)

\* From p on, the buffer has the bytes of s.
Holds(buffer, p, s) == \A i \in 1 .. Len(s) : buffer[p + i - 1] = s[i]

LEMMA Joined ==
  ASSUME NEW s \in Bytes, NEW t \in Bytes
  PROVE  /\ s \o t \in Bytes /\ Len(s \o t) = Len(s) + Len(t)
         /\ \A i \in 1 .. Len(s) : (s \o t)[i] = s[i]
         /\ \A i \in 1 .. Len(t) : (s \o t)[Len(s) + i] = t[i]
<1>1. s \o t \in Seq(Nat) /\ Len(s \o t) = Len(s) + Len(t)
  BY ConcatProperties DEF Bytes
<1>2. \A i \in 1 .. Len(s) + Len(t) :
        (s \o t)[i] = IF i <= Len(s) THEN s[i] ELSE t[i - Len(s)]
  BY ConcatProperties DEF Bytes
<1>3. Len(s) \in Nat /\ Len(t) \in Nat
  BY DEF Bytes
<1>4. \A i \in 1 .. Len(s) : (s \o t)[i] = s[i]
  BY <1>2, <1>3
<1>5. ASSUME NEW i \in 1 .. Len(t) PROVE (s \o t)[Len(s) + i] = t[i]
  <2>1. /\ Len(s) + i \in 1 .. Len(s) + Len(t) /\ ~(Len(s) + i <= Len(s))
        /\ (Len(s) + i) - Len(s) = i
    BY <1>3
  <2> QED
    BY <1>2, <2>1
<1> QED
  BY <1>1, <1>4, <1>5 DEF Bytes

LEMMA LenType == \A s \in Bytes : Len(s) \in Nat
  BY DEF Bytes

LEMMA HoldsBoth ==
  ASSUME NEW buffer, NEW p \in Nat, NEW s \in Bytes, NEW t \in Bytes,
         Holds(buffer, p, s \o t)
  PROVE  Holds(buffer, p, s) /\ Holds(buffer, p + Len(s), t)
<1>1. Len(s) \in Nat /\ Len(t) \in Nat
  BY LenType
<1>2. \A i \in 1 .. Len(s) + Len(t) : buffer[p + i - 1] = (s \o t)[i]
  BY Joined DEF Holds
<1>3. \A i \in 1 .. Len(s) : buffer[p + i - 1] = s[i]
  BY <1>1, <1>2, Joined
<1>4. ASSUME NEW i \in 1 .. Len(t) PROVE buffer[(p + Len(s)) + i - 1] = t[i]
  <2>1. Len(s) + i \in 1 .. Len(s) + Len(t) /\ p + (Len(s) + i) - 1 = (p + Len(s)) + i - 1
    BY <1>1
  <2>2. (s \o t)[Len(s) + i] = t[i]
    BY Joined
  <2> QED
    BY <1>2, <2>1, <2>2
<1> QED
  BY <1>3, <1>4 DEF Holds

\* How the pieces of a list of bytes are put together one by one.
Grows(f, pieces) ==
  /\ f \in [0 .. Len(pieces) -> Bytes] /\ f[0] = <<>>
  /\ \A n \in 1 .. Len(pieces) : f[n] = f[n - 1] \o pieces[n]

LEMMA Flattened ==
  ASSUME NEW pieces \in Seq(Bytes)
  PROVE  \E f : Grows(f, pieces) /\ f[Len(pieces)] = FlattenSeq(pieces)
<1> DEFINE len == Len(pieces)
           step == [n \in 1 .. len |-> [s \in Bytes |-> s \o pieces[n]]]
<1>1. len \in Nat /\ pieces \in [1 .. len -> Bytes]
  OBVIOUS
<1> HIDE DEF len
<1>2. step \in [1 .. len -> [Bytes -> Bytes]]
  BY <1>1, Joined
<1>3. <<>> \in Bytes
  BY DEF Bytes
<1>4. PICK f \in [0 .. len -> Bytes] : f[0] = <<>> /\ \A n \in 1 .. len : f[n] = step[n][f[n - 1]]
  <2> HIDE DEF step
  <2>1. PICK f : Recursive(f, Bytes, <<>>, len, step)
    BY <1>1, <1>2, <1>3, Recursion, Zenon
  <2> QED
    BY <2>1, Zenon DEF Recursive
<1>5. \A n \in 1 .. len : f[n - 1] \in Bytes /\ f[n] = f[n - 1] \o pieces[n]
  <2> TAKE n \in 1 .. len
  <2>1. n - 1 \in 0 .. len
    BY <1>1
  <2> QED
    BY <1>4, <2>1
<1> HIDE DEF step
<1>6. Grows(f, pieces)
  BY <1>4, <1>5 DEF Grows, len
<1>7. CASE len = 0
  <2>1. pieces = <<>>
    BY <1>7 DEF len
  <2> QED
    BY <1>4, <1>6, <1>7, <2>1 DEF FlattenSeq, len
<1>8. CASE len # 0
  <2> DEFINE Good(g) == g = [i \in 1 .. len |-> IF i = 1 THEN pieces[i] ELSE g[i - 1] \o pieces[i]]
             g0 == [i \in 1 .. len |-> f[i]]
             flat == CHOOSE g : Good(g)
  <2>1. \A i \in 1 .. len : f[i] = IF i = 1 THEN pieces[i] ELSE g0[i - 1] \o pieces[i]
    <3> TAKE i \in 1 .. len
    <3>1. CASE i = 1
      <4>1. i - 1 = 0
        BY <3>1
      <4>2. f[i] = <<>> \o pieces[i] /\ pieces[i] \in Seq(Nat)
        BY <1>1, <1>4, <1>5, <4>1 DEF Bytes
      <4> QED
        BY <3>1, <4>2
    <3>2. CASE i # 1
      <4>1. i - 1 \in 1 .. len
        BY <1>1, <3>2
      <4> QED
        BY <1>5, <3>2, <4>1
    <3> QED
      BY <3>1, <3>2
  <2>2. Good(g0)
    <3> DEFINE h == [i \in 1 .. len |-> IF i = 1 THEN pieces[i] ELSE g0[i - 1] \o pieces[i]]
    <3>1. \A i \in 1 .. len : g0[i] = h[i]
      BY <2>1
    <3> QED
      BY <3>1
  <2>3. Good(flat)
    <3> HIDE DEF Good
    <3> QED
      BY <2>2
  <2>4. \A i \in 1 .. len : flat[i] = IF i = 1 THEN pieces[i] ELSE flat[i - 1] \o pieces[i]
    BY <2>3
  <2>5. FlattenSeq(pieces) = flat[len]
    BY <1>8 DEF FlattenSeq, len
  <2> HIDE DEF flat, Good
  <2> DEFINE S == {n \in Nat : n + 1 <= len => flat[n + 1] = f[n + 1]}
  <2>6. 0 \in S
    <3>1. 1 \in 1 .. len /\ f[1] = pieces[1]
      BY <1>1, <1>8, <2>1
    <3> QED
      BY <2>4, <3>1
  <2>7. ASSUME NEW n \in Nat, n \in S PROVE n + 1 \in S
    <3>1. SUFFICES ASSUME (n + 1) + 1 <= len PROVE flat[(n + 1) + 1] = f[(n + 1) + 1]
      OBVIOUS
    <3>2. (n + 1) + 1 \in 1 .. len /\ (n + 1) + 1 # 1 /\ ((n + 1) + 1) - 1 = n + 1 /\ n + 1 <= len
      BY <1>1, <3>1
    <3>3. flat[n + 1] = f[n + 1]
      BY <2>7, <3>2
    <3>4. \A i \in 1 .. len : i # 1 => flat[i] = flat[i - 1] \o pieces[i]
      BY <2>4
    <3>5. flat[(n + 1) + 1] = flat[n + 1] \o pieces[(n + 1) + 1]
      BY <3>2, <3>4
    <3>6. f[(n + 1) + 1] = f[n + 1] \o pieces[(n + 1) + 1]
      BY <1>5, <3>2
    <3> QED
      BY <3>3, <3>5, <3>6
  <2> HIDE DEF S
  <2>8. \A n \in Nat : n \in S
    BY <2>6, <2>7, Inductive
  <2>9. len - 1 \in Nat /\ (len - 1) + 1 = len
    BY <1>1, <1>8
  <2>10. flat[len] = f[len]
    BY <2>8, <2>9 DEF S
  <2> QED
    BY <1>6, <2>5, <2>10 DEF len
<1> QED
  BY <1>7, <1>8

\* A function whose values grow leaves room for the steps that follow.
LEMMA Climbs ==
  ASSUME NEW len \in Nat, NEW at \in [0 .. len -> Nat],
         \A n \in 1 .. len : at[n - 1] + 1 <= at[n]
  PROVE  \A n \in 0 .. len : at[n] + (len - n) <= at[len]
<1> DEFINE S == {k \in Nat : k <= len => at[len - k] + k <= at[len]}
<1>1. 0 \in S
  OBVIOUS
<1>2. ASSUME NEW k \in Nat, k \in S PROVE k + 1 \in S
  <2>1. SUFFICES ASSUME k + 1 <= len PROVE at[len - (k + 1)] + (k + 1) <= at[len]
    OBVIOUS
  <2> DEFINE n == len - k
  <2>2. n \in 1 .. len /\ n \in 0 .. len /\ n - 1 \in 0 .. len /\ len \in 0 .. len
        /\ n - 1 = len - (k + 1) /\ k <= len
    BY <2>1
  <2>3. at[n] + k <= at[len]
    BY <1>2, <2>2
  <2> HIDE DEF n
  <2>4. at[n - 1] + 1 <= at[n] /\ at[n - 1] \in Nat /\ at[n] \in Nat /\ at[len] \in Nat
    BY <2>2
  <2> QED
    <3> DEFINE x == at[n - 1]  y == at[n]  z == at[len]
    <3>1. x \in Nat /\ y \in Nat /\ z \in Nat /\ x + 1 <= y /\ y + k <= z
      BY <2>3, <2>4
    <3> HIDE DEF x, y, z
    <3>2. x + (k + 1) <= z
      BY <3>1
    <3> QED
      BY <2>2, <3>2 DEF x, z
<1> HIDE DEF S
<1>3. \A k \in Nat : k \in S
  BY <1>1, <1>2, Inductive
<1>4. ASSUME NEW n \in 0 .. len PROVE at[n] + (len - n) <= at[len]
  <2>1. len - n \in Nat /\ len - n <= len /\ len - (len - n) = n
    OBVIOUS
  <2> QED
    BY <1>3, <2>1 DEF S
<1> QED
  BY <1>4

LEMMA HoldsEach ==
  ASSUME NEW buffer, NEW p \in Nat, NEW pieces \in Seq(Bytes),
         Holds(buffer, p, FlattenSeq(pieces))
  PROVE  \E at \in [0 .. Len(pieces) -> Nat] :
           /\ at[0] = p /\ at[Len(pieces)] = p + Len(FlattenSeq(pieces))
           /\ \A n \in 1 .. Len(pieces) :
                at[n] = at[n - 1] + Len(pieces[n]) /\ Holds(buffer, at[n - 1], pieces[n])
<1> DEFINE len == Len(pieces)
<1>1. len \in Nat /\ \A n \in 1 .. len : pieces[n] \in Bytes
  OBVIOUS
<1>2. PICK f : Grows(f, pieces) /\ f[len] = FlattenSeq(pieces)
  BY Flattened
<1> HIDE DEF len
<1>3. /\ \A n \in 0 .. len : f[n] \in Bytes /\ Len(f[n]) \in Nat
      /\ f[0] = <<>>
      /\ \A n \in 1 .. len : f[n] = f[n - 1] \o pieces[n]
  BY <1>2, LenType DEF Grows, len
<1> DEFINE S == {k \in Nat : k <= len => Holds(buffer, p, f[len - k])}
<1>4. ASSUME NEW n \in 1 .. len, Holds(buffer, p, f[n])
      PROVE  Holds(buffer, p, f[n - 1]) /\ Holds(buffer, p + Len(f[n - 1]), pieces[n])
  <2>1. n - 1 \in 0 .. len
    BY <1>1
  <2>2. Holds(buffer, p, f[n - 1] \o pieces[n]) /\ f[n - 1] \in Bytes /\ pieces[n] \in Bytes
    BY <1>1, <1>3, <1>4, <2>1
  <2> QED
    BY <2>2, HoldsBoth
<1>5. 0 \in S
  <2>1. len - 0 = len
    BY <1>1
  <2> QED
    BY <1>2, <2>1
<1>6. ASSUME NEW k \in Nat, k \in S PROVE k + 1 \in S
  <2>1. SUFFICES ASSUME k + 1 <= len PROVE Holds(buffer, p, f[len - (k + 1)])
    OBVIOUS
  <2>2. len - k \in 1 .. len /\ (len - k) - 1 = len - (k + 1) /\ k <= len
    BY <1>1, <2>1
  <2> QED
    BY <1>4, <1>6, <2>2
<1> HIDE DEF S
<1>7. \A k \in Nat : k \in S
  BY <1>5, <1>6, Inductive
<1>8. ASSUME NEW n \in 1 .. len PROVE Holds(buffer, p, f[n])
  <2>1. len - n \in Nat /\ len - n <= len /\ len - (len - n) = n
    BY <1>1
  <2> QED
    BY <1>7, <2>1 DEF S
<1> DEFINE at == [n \in 0 .. len |-> p + Len(f[n])]
<1>9. at \in [0 .. len -> Nat]
  BY <1>3
<1>10. at[0] = p /\ at[len] = p + Len(FlattenSeq(pieces)) /\ f[len] \in Bytes
  <2>1. 0 \in 0 .. len /\ len \in 0 .. len /\ Len(<<>>) = 0
    BY <1>1
  <2> QED
    BY <1>2, <1>3, <2>1
<1>11. ASSUME NEW n \in 1 .. len
       PROVE  at[n] = at[n - 1] + Len(pieces[n]) /\ Holds(buffer, at[n - 1], pieces[n])
  <2>1. n - 1 \in 0 .. len /\ n \in 0 .. len
    BY <1>1
  <2>2. Len(f[n - 1] \o pieces[n]) = Len(f[n - 1]) + Len(pieces[n]) /\ Len(pieces[n]) \in Nat
    BY <1>1, <1>3, <2>1, Joined, LenType
  <2>3. Len(f[n]) = Len(f[n - 1]) + Len(pieces[n]) /\ Len(f[n - 1]) \in Nat
    BY <1>3, <2>1, <2>2
  <2>4. at[n] = p + Len(f[n]) /\ at[n - 1] = p + Len(f[n - 1])
    BY <2>1
  <2> HIDE DEF at
  <2>5. at[n] = at[n - 1] + Len(pieces[n])
    <3>1. \A a, b \in Nat : p + (a + b) = (p + a) + b
      OBVIOUS
    <3> QED
      BY <2>2, <2>3, <2>4, <3>1
  <2> QED
    BY <1>4, <1>8, <2>4, <2>5
<1> HIDE DEF at
<1> QED
  BY <1>9, <1>10, <1>11 DEF len

-----------------------------------------------------------------------------
(* Walks.                                                                  *)

LEMMA WalkIs ==
  ASSUME NEW next, NEW rounds \in Nat, NEW at,
         \A n \in 1 .. rounds : at[n] = next[at[n - 1]]
  PROVE  Walk(next, at[0], rounds) = at[rounds]
<1> DEFINE start == at[0]
           Good(f) == f = [n \in 0 .. rounds |-> IF n = 0 THEN start ELSE next[f[n - 1]]]
           g == [n \in 0 .. rounds |-> at[n]]
           walk == CHOOSE f : Good(f)
<1>1. Good(g)
  <2> DEFINE h == [n \in 0 .. rounds |-> IF n = 0 THEN start ELSE next[g[n - 1]]]
  <2>1. ASSUME NEW n \in 0 .. rounds PROVE g[n] = h[n]
    <3>1. CASE n = 0
      BY <3>1
    <3>2. CASE n # 0
      <4>1. n \in 1 .. rounds /\ n - 1 \in 0 .. rounds
        BY <3>2
      <4> QED
        BY <3>2, <4>1
    <3> QED
      BY <3>1, <3>2
  <2> QED
    BY <2>1
<1>2. Good(walk)
  <2> HIDE DEF Good
  <2> QED
    BY <1>1
<1>3. \A n \in 0 .. rounds : walk[n] = IF n = 0 THEN start ELSE next[walk[n - 1]]
  <2> TAKE n \in 0 .. rounds
  <2>1. walk = [m \in 0 .. rounds |-> IF m = 0 THEN start ELSE next[walk[m - 1]]]
    BY <1>2, Zenon
  <2> HIDE DEF walk, Good, start
  <2> QED
    BY <2>1
<1>4. Walk(next, at[0], rounds) = walk[rounds]
  BY DEF Walk
<1> HIDE DEF walk, Good
<1> DEFINE S == {n \in Nat : n <= rounds => walk[n] = at[n]}
<1>5. 0 \in S
  BY <1>3
<1>6. ASSUME NEW n \in Nat, n \in S PROVE n + 1 \in S
  <2>1. SUFFICES ASSUME n + 1 <= rounds PROVE walk[n + 1] = at[n + 1]
    OBVIOUS
  <2>2. /\ n + 1 \in 0 .. rounds /\ n + 1 \in 1 .. rounds /\ n + 1 # 0
        /\ (n + 1) - 1 = n /\ n <= rounds
    BY <2>1
  <2> QED
    BY <1>3, <1>6, <2>2
<1> HIDE DEF S
<1>7. \A n \in Nat : n \in S
  BY <1>5, <1>6, Inductive
<1>8. walk[rounds] = at[rounds]
  BY <1>7 DEF S
<1> QED
  BY <1>4, <1>8

\* A walk that comes to its end within a packet's bytes gets there.
LEMMA WalkNameIs ==
  ASSUME NEW next, NEW len \in 0 .. 256, NEW at,
         \A n \in 0 .. len : at[n] \in DOMAIN next,
         \A n \in 1 .. len : at[n] = next[at[n - 1]],
         next[at[len]] = at[len]
  PROVE  WalkName(next, at[0]) = at[len]
<1> DEFINE p == [n \in Nat |-> IF n <= len THEN at[n] ELSE at[len]]
           row == [o \in DOMAIN next |-> Walk(next, o, 16)]
<1>1. ASSUME NEW n \in Nat PROVE p[n] \in DOMAIN next /\ p[n + 1] = next[p[n]]
  <2>1. p[n] = (IF n <= len THEN at[n] ELSE at[len])
        /\ p[n + 1] = IF n + 1 <= len THEN at[n + 1] ELSE at[len]
    OBVIOUS
  <2> HIDE DEF p
  <2>2. len \in 0 .. len
    OBVIOUS
  <2>3. CASE n + 1 <= len
    <3>1. n <= len /\ n \in 0 .. len /\ n + 1 \in 1 .. len /\ (n + 1) - 1 = n
      BY <2>3
    <3> QED
      BY <2>1, <2>3, <3>1
  <2>4. CASE n = len
    <3>1. n <= len /\ ~(n + 1 <= len)
      BY <2>4
    <3> QED
      BY <2>1, <2>2, <2>4, <3>1
  <2>5. CASE n > len
    <3>1. ~(n <= len) /\ ~(n + 1 <= len)
      BY <2>5
    <3> QED
      BY <2>1, <2>2, <3>1
  <2> QED
    BY <2>3, <2>4, <2>5
<1>2. p[0] = at[0] /\ p[256] = at[len]
  OBVIOUS
<1> HIDE DEF p
<1>3. ASSUME NEW m \in Nat PROVE Walk(next, p[m], 16) = p[m + 16]
  <2> DEFINE a == [n \in 0 .. 16 |-> p[m + n]]
  <2>1. \A n \in 1 .. 16 : a[n] = next[a[n - 1]]
    <3> TAKE n \in 1 .. 16
    <3>1. n - 1 \in 0 .. 16 /\ n \in 0 .. 16 /\ m + (n - 1) \in Nat /\ (m + (n - 1)) + 1 = m + n
      OBVIOUS
    <3>2. a[n] = p[m + n] /\ a[n - 1] = p[m + (n - 1)]
      BY <3>1
    <3> HIDE DEF a
    <3> QED
      BY <1>1, <3>1, <3>2
  <2>2. a[0] = p[m] /\ a[16] = p[m + 16]
    OBVIOUS
  <2> HIDE DEF a
  <2>3. \A rounds \in Nat : (\A n \in 1 .. rounds : a[n] = next[a[n - 1]])
                             => Walk(next, a[0], rounds) = a[rounds]
    BY WalkIs
  <2> QED
    BY <2>1, <2>2, <2>3
<1> DEFINE b == [n \in 0 .. 16 |-> p[16 * n]]
<1>4. \A n \in 1 .. 16 : b[n] = row[b[n - 1]]
  <2> TAKE n \in 1 .. 16
  <2>1. n - 1 \in 0 .. 16 /\ n \in 0 .. 16 /\ 16 * (n - 1) \in Nat /\ 16 * (n - 1) + 16 = 16 * n
    OBVIOUS
  <2>2. b[n] = p[16 * n] /\ b[n - 1] = p[16 * (n - 1)]
    BY <2>1
  <2>3. Walk(next, p[16 * (n - 1)], 16) = p[16 * n] /\ p[16 * (n - 1)] \in DOMAIN next
    BY <1>1, <1>3, <2>1
  <2> HIDE DEF b
  <2> QED
    BY <2>2, <2>3
<1>5. b[0] = p[0] /\ b[16] = p[256]
  OBVIOUS
<1> HIDE DEF b, row
<1>6. \A rounds \in Nat : (\A n \in 1 .. rounds : b[n] = row[b[n - 1]])
                           => Walk(row, b[0], rounds) = b[rounds]
  BY WalkIs
<1>7. Walk(row, at[0], 16) = at[len]
  BY <1>2, <1>4, <1>5, <1>6
<1> QED
  BY <1>7 DEF WalkName, row

-----------------------------------------------------------------------------
(* Numbers and names in a buffer.                                          *)

LEMMA ShortIs ==
  ASSUME NEW n \in Nat
  PROVE  /\ Short(n) \in Bytes /\ Len(Short(n)) = 2
         /\ Short(n)[1] * 256 + Short(n)[2] = n
<1>1. n \div 256 \in Nat /\ n % 256 \in Nat /\ (n \div 256) * 256 + (n % 256) = n
  OBVIOUS
<1>2. /\ <<n \div 256, n % 256>> \in Seq(Nat) /\ Len(<<n \div 256, n % 256>>) = 2
      /\ <<n \div 256, n % 256>>[1] = n \div 256 /\ <<n \div 256, n % 256>>[2] = n % 256
  BY <1>1
<1> QED
  BY <1>1, <1>2 DEF Short, Bytes

LEMMA ShortHeld ==
  ASSUME NEW buffer, NEW p \in Nat, NEW n \in Nat, Holds(buffer, p, Short(n))
  PROVE  ShortAt(buffer, p) = n
<1>1. Len(Short(n)) = 2 /\ Short(n)[1] * 256 + Short(n)[2] = n
  BY ShortIs
<1>2. 1 \in 1 .. 2 /\ 2 \in 1 .. 2 /\ p + 1 - 1 = p /\ p + 2 - 1 = p + 1
  OBVIOUS
<1>3. buffer[p] = Short(n)[1] /\ buffer[p + 1] = Short(n)[2]
  BY <1>1, <1>2 DEF Holds
<1> QED
  BY <1>1, <1>3 DEF ShortAt

\* The packet buffer.
Packet(buffer) == DOMAIN buffer = 0 .. 255

Labelling(labels) == [k \in DOMAIN labels |-> <<Len(labels[k])>> \o labels[k]]

LEMMA LabellingIs ==
  ASSUME NEW labels \in Seq(Labelled)
  PROVE  /\ Labelling(labels) \in Seq(Bytes) /\ Len(Labelling(labels)) = Len(labels)
         /\ \A k \in 1 .. Len(labels) :
              /\ Len(labels[k]) \in 1 .. 63
              /\ Len(Labelling(labels)[k]) = 1 + Len(labels[k])
              /\ Labelling(labels)[k][1] = Len(labels[k])
<1> DEFINE len == Len(labels)
           L == Labelling(labels)
<1>1. len \in Nat /\ DOMAIN labels = 1 .. len /\ \A k \in 1 .. len : labels[k] \in Labelled
  OBVIOUS
<1> HIDE DEF len
<1>2. ASSUME NEW k \in 1 .. len
      PROVE  /\ Len(labels[k]) \in 1 .. 63
             /\ L[k] \in Bytes /\ Len(L[k]) = 1 + Len(labels[k]) /\ L[k][1] = Len(labels[k])
  <2> DEFINE s == labels[k]  t == <<Len(s)>>
  <2>1. s \in Bytes /\ Len(s) \in 1 .. 63
    BY <1>1 DEF Labelled, Bytes
  <2>2. L[k] = t \o s
    BY <1>1 DEF Labelling
  <2> HIDE DEF s
  <2>3. t \in Bytes /\ Len(t) = 1 /\ t[1] = Len(s)
    BY <2>1 DEF Bytes
  <2> HIDE DEF t
  <2>4. t \o s \in Bytes /\ Len(t \o s) = 1 + Len(s) /\ (t \o s)[1] = t[1]
    <3>1. /\ t \o s \in Bytes /\ Len(t \o s) = Len(t) + Len(s)
          /\ \A i \in 1 .. Len(t) : (t \o s)[i] = t[i]
      BY <2>1, <2>3, Joined
    <3>2. 1 \in 1 .. Len(t)
      BY <2>3
    <3> QED
      BY <2>3, <3>1, <3>2
  <2> QED
    BY <2>1, <2>2, <2>3, <2>4 DEF s
<1>3. L \in [1 .. len -> Bytes]
  <2>1. L = [k \in 1 .. len |-> L[k]]
    BY <1>1 DEF Labelling
  <2> HIDE DEF L
  <2> QED
    BY <1>2, <2>1
<1> HIDE DEF L
<1>4. L \in Seq(Bytes) /\ Len(L) = len
  BY <1>1, <1>3
<1> QED
  BY <1>2, <1>4 DEF len, L

LEMMA FlatType ==
  ASSUME NEW pieces \in Seq(Bytes)
  PROVE  FlattenSeq(pieces) \in Bytes
<1>1. PICK f : Grows(f, pieces) /\ f[Len(pieces)] = FlattenSeq(pieces)
  BY Flattened
<1>2. Len(pieces) \in 0 .. Len(pieces)
  OBVIOUS
<1> QED
  BY <1>1, <1>2 DEF Grows

LEMMA NameType ==
  ASSUME NEW labels \in Seq(Labelled)
  PROVE  WireName(labels) \in Bytes
<1> DEFINE flat == FlattenSeq(Labelling(labels))
<1>1. flat \in Bytes
  BY LabellingIs, FlatType
<1>2. <<0>> \in Bytes
  BY DEF Bytes
<1> HIDE DEF flat
<1>3. flat \o <<0>> \in Bytes
  BY <1>1, <1>2, Joined
<1> QED
  BY <1>3 DEF WireName, Labelling, flat

\* The loop over the name of a question ends on the 0 that ends the name.
LEMMA QuestionNameHeld ==
  ASSUME NEW buffer, Packet(buffer), NEW p \in Nat, NEW labels \in Seq(Labelled),
         Holds(buffer, p, WireName(labels)), p + Len(WireName(labels)) <= 256
  PROVE  QuestionNameEnd(buffer, p) = p + Len(WireName(labels)) - 1
<1> DEFINE len == Len(labels)
           L == Labelling(labels)
           flat == FlattenSeq(L)
           next == [o \in DOMAIN buffer |->
                      IF buffer[o] = 0 THEN o
                      ELSE IF IsPointer(buffer[o]) THEN o + 2 ELSE o + buffer[o] + 1]
<1>1. /\ len \in Nat /\ L \in Seq(Bytes) /\ Len(L) = len
      /\ \A k \in 1 .. len : /\ Len(labels[k]) \in 1 .. 63
                             /\ Len(L[k]) = 1 + Len(labels[k]) /\ L[k][1] = Len(labels[k])
  BY LabellingIs
<1>2. WireName(labels) = flat \o <<0>>
  BY DEF WireName, Labelling
<1>3. QuestionNameEnd(buffer, p) = WalkName(next, p)
  BY DEF QuestionNameEnd
<1>4. flat \in Bytes /\ <<0>> \in Bytes /\ Len(<<0>>) = 1 /\ <<0>>[1] = 0
  <2>1. flat \in Bytes
    BY <1>1, FlatType
  <2> HIDE DEF flat
  <2> QED
    BY <2>1 DEF Bytes
<1> HIDE DEF len, L, flat
<1>5. /\ Len(flat) \in Nat /\ flat \o <<0>> \in Bytes /\ Len(flat \o <<0>>) = Len(flat) + 1
      /\ Holds(buffer, p, flat) /\ Holds(buffer, p + Len(flat), <<0>>)
  BY <1>2, <1>4, HoldsBoth, Joined, LenType
<1>6. buffer[p + Len(flat)] = 0
  <2>1. 1 \in 1 .. 1 /\ (p + Len(flat)) + 1 - 1 = p + Len(flat)
    BY <1>5
  <2> QED
    BY <1>4, <1>5, <2>1 DEF Holds
<1>7. PICK at \in [0 .. len -> Nat] :
        /\ at[0] = p /\ at[len] = p + Len(flat)
        /\ \A n \in 1 .. len : at[n] = at[n - 1] + Len(L[n]) /\ Holds(buffer, at[n - 1], L[n])
  <2>1. Holds(buffer, p, FlattenSeq(L)) /\ L \in Seq(Bytes)
    BY <1>1, <1>5 DEF flat
  <2>2. \E at \in [0 .. Len(L) -> Nat] :
          /\ at[0] = p /\ at[Len(L)] = p + Len(FlattenSeq(L))
          /\ \A n \in 1 .. Len(L) :
               at[n] = at[n - 1] + Len(L[n]) /\ Holds(buffer, at[n - 1], L[n])
    BY <2>1, HoldsEach
  <2> QED
    BY <1>1, <2>2 DEF flat
<1>8. ASSUME NEW n \in 1 .. len
      PROVE  /\ n - 1 \in 0 .. len /\ at[n - 1] \in Nat
             /\ buffer[at[n - 1]] \in 1 .. 63
             /\ at[n] = at[n - 1] + buffer[at[n - 1]] + 1
  <2>1. n - 1 \in 0 .. len /\ at[n - 1] \in Nat
    BY <1>1, <1>7
  <2> DEFINE here == at[n - 1]  size == Len(labels[n])
  <2>2. size \in 1 .. 63 /\ at[n] = here + (1 + size) /\ Len(L[n]) = 1 + size /\ L[n][1] = size
    BY <1>1, <1>7
  <2>3. Holds(buffer, here, L[n]) /\ here \in Nat
    BY <1>7, <2>1
  <2> HIDE DEF here, size
  <2>4. 1 \in 1 .. 1 + size /\ here + 1 - 1 = here /\ here + (1 + size) = here + size + 1
    BY <2>2, <2>3
  <2>5. buffer[here] = size
    BY <2>2, <2>3, <2>4 DEF Holds
  <2> QED
    BY <2>1, <2>2, <2>4, <2>5 DEF here
<1>9. \A n \in 0 .. len : at[n] + (len - n) <= at[len]
  <2>1. \A n \in 1 .. len : at[n - 1] + 1 <= at[n]
    <3> TAKE n \in 1 .. len
    <3>1. \A a \in Nat, k \in 1 .. 63 : a + 1 <= a + k + 1
      OBVIOUS
    <3>2. /\ at[n - 1] \in Nat /\ buffer[at[n - 1]] \in 1 .. 63
          /\ at[n] = at[n - 1] + buffer[at[n - 1]] + 1
      BY <1>8
    <3> QED
      BY <3>1, <3>2
  <2> QED
    BY <1>1, <1>7, <2>1, Climbs
<1>10. at[len] \in 0 .. 255 /\ len \in 0 .. 256 /\ \A n \in 0 .. len : at[n] \in 0 .. 255
  <2>1. at[len] <= 255
    BY <1>2, <1>5, <1>7
  <2>2. 0 \in 0 .. len /\ len \in 0 .. len /\ \A n \in 0 .. len : at[n] \in Nat
    BY <1>1, <1>7
  <2>3. at[0] + (len - 0) <= at[len] /\ at[0] \in Nat /\ at[len] \in Nat
    BY <1>9, <2>2
  <2>4. len \in 0 .. 256
    BY <1>1, <2>1, <2>3
  <2>5. ASSUME NEW n \in 0 .. len PROVE at[n] \in 0 .. 255
    <3>1. at[n] + (len - n) <= at[len] /\ at[n] \in Nat /\ len - n \in Nat
      BY <1>1, <1>9, <2>2
    <3>2. \A a, b, c \in Nat : a + b <= c /\ c <= 255 => a \in 0 .. 255
      OBVIOUS
    <3> QED
      BY <2>1, <2>3, <3>1, <3>2
  <2> QED
    BY <2>2, <2>4, <2>5
<1>11. \A n \in 0 .. len : at[n] \in DOMAIN next
  BY <1>10 DEF Packet
<1>12. \A n \in 1 .. len : at[n] = next[at[n - 1]]
  <2> TAKE n \in 1 .. len
  <2>1. /\ at[n - 1] \in DOMAIN buffer
        /\ buffer[at[n - 1]] \in 1 .. 63 /\ at[n] = at[n - 1] + buffer[at[n - 1]] + 1
    <3>1. /\ n - 1 \in 0 .. len /\ buffer[at[n - 1]] \in 1 .. 63
          /\ at[n] = at[n - 1] + buffer[at[n - 1]] + 1
      BY <1>8, Zenon
    <3>2. at[n - 1] \in 0 .. 255
      BY <1>10, <3>1
    <3> QED
      BY <3>1, <3>2, Zenon DEF Packet
  <2>2. buffer[at[n - 1]] # 0 /\ ~IsPointer(buffer[at[n - 1]])
    <3>1. \A k \in 1 .. 63 : k # 0 /\ ~IsPointer(k)
      BY DEF IsPointer
    <3> QED
      BY <2>1, <3>1
  <2> QED
    BY <2>1, <2>2
<1>13. next[at[len]] = at[len]
  BY <1>6, <1>7, <1>10 DEF Packet
<1> HIDE DEF next
<1>14. WalkName(next, at[0]) = at[len]
  BY <1>10, <1>11, <1>12, <1>13, WalkNameIs
<1> QED
  BY <1>2, <1>3, <1>5, <1>7, <1>14

LEMMA ShortBehind ==
  ASSUME NEW s \in Bytes, NEW n \in Nat
  PROVE  s \o Short(n) \in Bytes /\ Len(s \o Short(n)) = Len(s) + 2
<1> DEFINE t == Short(n)
<1>1. t \in Bytes /\ Len(t) = 2
  BY ShortIs
<1> HIDE DEF t
<1>2. s \o t \in Bytes /\ Len(s \o t) = Len(s) + Len(t)
  BY <1>1, Joined
<1> QED
  BY <1>1, <1>2 DEF t

LEMMA ShortBehindHeld ==
  ASSUME NEW buffer, NEW p \in Nat, NEW s \in Bytes, NEW n \in Nat,
         Holds(buffer, p, s \o Short(n))
  PROVE  Holds(buffer, p, s) /\ ShortAt(buffer, p + Len(s)) = n
<1>1. Short(n) \in Bytes /\ p + Len(s) \in Nat
  BY ShortIs, LenType
<1>2. Holds(buffer, p, s) /\ Holds(buffer, p + Len(s), Short(n))
  BY <1>1, HoldsBoth
<1> QED
  BY <1>1, <1>2, ShortHeld

LEMMA RecordIs ==
  ASSUME NEW record \in Records
  PROVE  RecordBytes(record) \in Bytes /\ Len(RecordBytes(record)) = 12 + Len(record.data)
<1>1. /\ record.type \in Nat /\ record.class \in Nat /\ record.ttl \in Nat
      /\ record.data \in Bytes
  BY DEF Records, Bytes
<1> DEFINE d == record.data
           hi == record.ttl \div 65536
           lo == record.ttl % 65536
           s0 == <<192, 12>>
           s1 == s0 \o Short(record.type)
           s2 == s1 \o Short(record.class)
           s3 == s2 \o Short(hi)
           s4 == s3 \o Short(lo)
           s5 == s4 \o Short(Len(d))
<1>2. RecordBytes(record) = s5 \o d
  BY DEF RecordBytes
<1>3. hi \in Nat /\ lo \in Nat /\ Len(d) \in Nat
  BY <1>1, LenType
<1>4. s0 \in Bytes /\ Len(s0) = 2
  BY DEF Bytes
<1> HIDE DEF s0, d, hi, lo
<1>5. s1 \in Bytes /\ Len(s1) = 4
  <2>1. s1 \in Bytes /\ Len(s1) = Len(s0) + 2
    <3>1. record.type \in Nat
      BY <1>1
    <3>2. s0 \in Bytes
      BY <1>4
    <3> QED
      BY <3>1, <3>2, ShortBehind
  <2> QED
    BY <1>4, <2>1
<1> HIDE DEF s1
<1>6. s2 \in Bytes /\ Len(s2) = 6
  <2>1. s2 \in Bytes /\ Len(s2) = Len(s1) + 2
    BY <1>1, <1>5, ShortBehind
  <2> QED
    BY <1>5, <2>1
<1> HIDE DEF s2
<1>7. s3 \in Bytes /\ Len(s3) = 8
  <2>1. s3 \in Bytes /\ Len(s3) = Len(s2) + 2
    BY <1>3, <1>6, ShortBehind
  <2> QED
    BY <1>6, <2>1
<1> HIDE DEF s3
<1>8. s4 \in Bytes /\ Len(s4) = 10
  <2>1. s4 \in Bytes /\ Len(s4) = Len(s3) + 2
    BY <1>3, <1>7, ShortBehind
  <2> QED
    BY <1>7, <2>1
<1> HIDE DEF s4
<1>9. s5 \in Bytes /\ Len(s5) = 12
  <2>1. s5 \in Bytes /\ Len(s5) = Len(s4) + 2
    BY <1>3, <1>8, ShortBehind
  <2> QED
    BY <1>8, <2>1
<1> HIDE DEF s5
<1>10. d \in Bytes
  BY <1>1 DEF d
<1>11. s5 \o d \in Bytes /\ Len(s5 \o d) = 12 + Len(d)
  <2>1. s5 \o d \in Bytes /\ Len(s5 \o d) = Len(s5) + Len(d)
    BY <1>9, <1>10, Joined
  <2> QED
    BY <1>9, <2>1
<1> QED
  BY <1>2, <1>11 DEF d

\* What the parser finds of a record in the buffer.
RecordFound(buffer, p, record) ==
  /\ AnswerNameEnd(buffer, p) = p + 1
  /\ ShortAt(buffer, p + 2) = record.type
  /\ ShortAt(buffer, p + 4) = record.class
  /\ ShortAt(buffer, p + 6) * 65536 + ShortAt(buffer, p + 8) = record.ttl
  /\ \A k \in 1 .. Len(record.data) : buffer[p + 11 + k] = record.data[k]

LEMMA RecordHeld ==
  ASSUME NEW buffer, Packet(buffer), NEW p \in 0 .. 255, NEW record \in Records,
         Holds(buffer, p, RecordBytes(record))
  PROVE  RecordFound(buffer, p, record)
<1>1. /\ record.type \in Nat /\ record.class \in Nat /\ record.ttl \in Nat
      /\ record.data \in Bytes
  BY DEF Records, Bytes
<1> DEFINE d == record.data
           hi == record.ttl \div 65536
           lo == record.ttl % 65536
           s0 == <<192, 12>>
           s1 == s0 \o Short(record.type)
           s2 == s1 \o Short(record.class)
           s3 == s2 \o Short(hi)
           s4 == s3 \o Short(lo)
           s5 == s4 \o Short(Len(d))
<1>2. Holds(buffer, p, s5 \o d)
  BY DEF RecordBytes
<1>3. hi \in Nat /\ lo \in Nat /\ Len(d) \in Nat
  BY <1>1, LenType
<1>4. hi * 65536 + lo = record.ttl
  <2>1. \A n \in Nat : (n \div 65536) * 65536 + (n % 65536) = n
    OBVIOUS
  <2> QED
    BY <1>1, <2>1
<1>5. s0 \in Bytes /\ Len(s0) = 2 /\ s0[1] = 192
  BY DEF Bytes
<1> HIDE DEF s0, d, hi, lo
<1>6. s1 \in Bytes /\ Len(s1) = 4
  <2>1. s1 \in Bytes /\ Len(s1) = Len(s0) + 2
    <3>1. record.type \in Nat
      BY <1>1
    <3>2. s0 \in Bytes
      BY <1>5
    <3> QED
      BY <3>1, <3>2, ShortBehind
  <2> QED
    BY <1>5, <2>1
<1> HIDE DEF s1
<1>7. s2 \in Bytes /\ Len(s2) = 6
  <2>1. s2 \in Bytes /\ Len(s2) = Len(s1) + 2
    BY <1>1, <1>6, ShortBehind
  <2> QED
    BY <1>6, <2>1
<1> HIDE DEF s2
<1>8. s3 \in Bytes /\ Len(s3) = 8
  <2>1. s3 \in Bytes /\ Len(s3) = Len(s2) + 2
    BY <1>3, <1>7, ShortBehind
  <2> QED
    BY <1>7, <2>1
<1> HIDE DEF s3
<1>9. s4 \in Bytes /\ Len(s4) = 10
  <2>1. s4 \in Bytes /\ Len(s4) = Len(s3) + 2
    BY <1>3, <1>8, ShortBehind
  <2> QED
    BY <1>8, <2>1
<1> HIDE DEF s4
<1>10. s5 \in Bytes /\ Len(s5) = 12
  <2>1. s5 \in Bytes /\ Len(s5) = Len(s4) + 2
    BY <1>3, <1>9, ShortBehind
  <2> QED
    BY <1>9, <2>1
<1> HIDE DEF s5
<1>11. d \in Bytes /\ p \in Nat
  BY <1>1 DEF d
<1>12. Holds(buffer, p, s5) /\ Holds(buffer, p + 12, d)
  <2>1. Holds(buffer, p, s5) /\ Holds(buffer, p + Len(s5), d)
    BY <1>2, <1>10, <1>11, HoldsBoth
  <2> QED
    BY <1>10, <2>1
<1>13. Holds(buffer, p, s4)
  BY <1>3, <1>9, <1>11, <1>12, ShortBehindHeld DEF s5
<1>14. Holds(buffer, p, s3) /\ ShortAt(buffer, p + 8) = lo
  <2>1. Holds(buffer, p, s3) /\ ShortAt(buffer, p + Len(s3)) = lo
    BY <1>3, <1>8, <1>11, <1>13, ShortBehindHeld DEF s4
  <2> QED
    BY <1>8, <2>1
<1>15. Holds(buffer, p, s2) /\ ShortAt(buffer, p + 6) = hi
  <2>1. Holds(buffer, p, s2) /\ ShortAt(buffer, p + Len(s2)) = hi
    BY <1>3, <1>7, <1>11, <1>14, ShortBehindHeld DEF s3
  <2> QED
    BY <1>7, <2>1
<1>16. Holds(buffer, p, s1) /\ ShortAt(buffer, p + 4) = record.class
  <2>1. Holds(buffer, p, s1) /\ ShortAt(buffer, p + Len(s1)) = record.class
    BY <1>1, <1>6, <1>11, <1>15, ShortBehindHeld DEF s2
  <2> QED
    BY <1>6, <2>1
<1>17. Holds(buffer, p, s0) /\ ShortAt(buffer, p + 2) = record.type
  <2>1. Holds(buffer, p, s0 \o Short(record.type))
    BY <1>16 DEF s1
  <2>2. s0 \in Bytes /\ p \in Nat /\ record.type \in Nat
    BY <1>1, <1>5, <1>11
  <2>3. Holds(buffer, p, s0) /\ ShortAt(buffer, p + Len(s0)) = record.type
    BY <2>1, <2>2, ShortBehindHeld
  <2> QED
    BY <1>5, <2>3
<1>18. buffer[p] = 192
  <2>1. 1 \in 1 .. 2 /\ p + 1 - 1 = p
    BY <1>11
  <2> QED
    BY <1>5, <1>17, <2>1 DEF Holds
<1>19. \A k \in 1 .. Len(d) : buffer[p + 11 + k] = d[k]
  <2> TAKE k \in 1 .. Len(d)
  <2>1. (p + 12) + k - 1 = p + 11 + k
    BY <1>3, <1>11
  <2> QED
    BY <1>12, <2>1 DEF Holds
<1>20. AnswerNameEnd(buffer, p) = p + 1
  <2> DEFINE next == [o \in DOMAIN buffer |->
                        IF buffer[o] = 0 \/ IsPointer(buffer[o]) THEN o
                        ELSE o + buffer[o] + 1]
             at == [n \in 0 .. 0 |-> p]
  <2>1. p \in DOMAIN next /\ next[p] = p
    BY <1>18 DEF Packet, IsPointer
  <2>2. AnswerNameEnd(buffer, p) =
          IF buffer[WalkName(next, p)] = 0 THEN WalkName(next, p) ELSE WalkName(next, p) + 1
    BY DEF AnswerNameEnd
  <2>3. at[0] = p /\ 0 \in 0 .. 256 /\ \A n \in 0 .. 0 : at[n] = p
    OBVIOUS
  <2> HIDE DEF next, at
  <2>4. \A len \in 0 .. 256 :
          /\ \A n \in 0 .. len : at[n] \in DOMAIN next
          /\ \A n \in 1 .. len : at[n] = next[at[n - 1]]
          /\ next[at[len]] = at[len]
          => WalkName(next, at[0]) = at[len]
    BY WalkNameIs
  <2>5. WalkName(next, p) = p
    <3>1. /\ \A n \in 0 .. 0 : at[n] \in DOMAIN next
          /\ \A n \in 1 .. 0 : at[n] = next[at[n - 1]]
          /\ next[at[0]] = at[0]
      BY <2>1, <2>3
    <3>2. WalkName(next, at[0]) = at[0]
      BY <2>3, <2>4, <3>1
    <3> QED
      BY <2>3, <3>2
  <2> QED
    BY <1>18, <2>2, <2>5
<1>21. ShortAt(buffer, p + 6) * 65536 + ShortAt(buffer, p + 8) = record.ttl
  BY <1>14, <1>15, <1>4
<1> QED
  BY <1>16, <1>17, <1>19, <1>20, <1>21 DEF RecordFound, d


\* The first answer follows the question.
LEMMA QuestionHeld ==
  ASSUME NEW buffer, Packet(buffer), NEW labels \in Seq(Labelled),
         Holds(buffer, 12, Question(labels)), 12 + Len(Question(labels)) <= 256,
         Question(labels) \in Bytes
  PROVE  AnswersStart(buffer, 1) = 12 + Len(Question(labels))
<1> DEFINE name == WireName(labels)
           s1 == name \o Short(TypeA)
           s2 == s1 \o Short(ClassIN)
           next == [o \in DOMAIN buffer |-> QuestionNameEnd(buffer, o) + 5]
           at == [n \in 0 .. 1 |-> IF n = 0 THEN 12 ELSE next[12]]
<1>1. Question(labels) = s2
  BY DEF Question
<1>2. name \in Bytes
  BY NameType
<1>3. TypeA \in Nat /\ ClassIN \in Nat /\ 12 \in Nat
  BY DEF TypeA, ClassIN
<1> HIDE DEF name
<1>4. s1 \in Bytes /\ Len(s1) = Len(name) + 2
  BY <1>2, <1>3, ShortBehind
<1> HIDE DEF s1
<1>5. s2 \in Bytes /\ Len(s2) = Len(s1) + 2
  BY <1>3, <1>4, ShortBehind
<1>6. Holds(buffer, 12, s1)
  BY <1>1, <1>3, <1>4, ShortBehindHeld
<1>7. Holds(buffer, 12, name)
  BY <1>2, <1>3, <1>6, ShortBehindHeld DEF s1
<1> HIDE DEF s2
<1>8. Len(name) \in Nat /\ 12 + Len(name) <= 256 /\ Len(s2) = Len(name) + 4
  <2>1. Len(name) \in Nat
    BY <1>2, LenType
  <2> QED
    BY <1>1, <1>4, <1>5, <2>1
<1>9. QuestionNameEnd(buffer, 12) = 12 + Len(name) - 1
  BY <1>3, <1>7, <1>8, QuestionNameHeld DEF name
<1>10. next[12] = QuestionNameEnd(buffer, 12) + 5
  BY DEF Packet
<1>11. AnswersStart(buffer, 1) = Walk(next, 12, 1)
  BY DEF AnswersStart
<1>12. at[0] = 12 /\ at[1] = next[12]
  OBVIOUS
<1> HIDE DEF next, at
<1>13. \A rounds \in Nat : (\A n \in 1 .. rounds : at[n] = next[at[n - 1]])
                            => Walk(next, at[0], rounds) = at[rounds]
  BY WalkIs
<1>14. \A n \in 1 .. 1 : at[n] = next[at[n - 1]]
  BY <1>12
<1>15. Walk(next, 12, 1) = next[12]
  BY <1>12, <1>13, <1>14
<1>16. QuestionNameEnd(buffer, 12) + 5 = 12 + (Len(name) + 4)
  BY <1>8, <1>9
<1> QED
  BY <1>1, <1>8, <1>10, <1>11, <1>15, <1>16

Recording(records) == [k \in DOMAIN records |-> RecordBytes(records[k])]

LEMMA RecordingIs ==
  ASSUME NEW records \in Seq(Records)
  PROVE  /\ Recording(records) \in Seq(Bytes) /\ Len(Recording(records)) = Len(records)
         /\ \A k \in 1 .. Len(records) :
              /\ Recording(records)[k] = RecordBytes(records[k])
              /\ Len(Recording(records)[k]) = 12 + Len(records[k].data)
<1> DEFINE len == Len(records)
           R == Recording(records)
<1>1. len \in Nat /\ DOMAIN records = 1 .. len /\ \A k \in 1 .. len : records[k] \in Records
  OBVIOUS
<1> HIDE DEF len
<1>2. ASSUME NEW k \in 1 .. len
      PROVE  /\ R[k] = RecordBytes(records[k]) /\ R[k] \in Bytes
             /\ Len(R[k]) = 12 + Len(records[k].data)
  <2>1. R[k] = RecordBytes(records[k])
    BY <1>1 DEF Recording
  <2>2. records[k] \in Records
    BY <1>1
  <2> HIDE DEF R
  <2>3. /\ RecordBytes(records[k]) \in Bytes
        /\ Len(RecordBytes(records[k])) = 12 + Len(records[k].data)
    BY <2>2, RecordIs
  <2> QED
    BY <2>1, <2>3
<1>3. R \in [1 .. len -> Bytes]
  <2>1. R = [k \in 1 .. len |-> R[k]]
    BY <1>1 DEF Recording
  <2> HIDE DEF R
  <2> QED
    BY <1>2, <2>1
<1> HIDE DEF R
<1>4. R \in Seq(Bytes) /\ Len(R) = len
  BY <1>1, <1>3
<1> QED
  BY <1>2, <1>4 DEF len, R

\* The first of a set of places, or the last of all if it is empty.
LEMMA FirstPlace ==
  ASSUME NEW len \in Nat \ {0}, NEW A \in SUBSET (1 .. len)
  PROVE  \E last \in 1 .. len : /\ \A j \in A : last <= j
                                /\ A # {} => last = Min(A) /\ last \in A
                                /\ A = {} => last = len
<1>1. CASE A = {}
  BY <1>1
<1>2. CASE A # {}
  <2>1. A \in SUBSET Nat
    OBVIOUS
  <2>2. PICK x \in A : \A y \in A : x <= y
    BY <1>2, <2>1, HasLeast
  <2>3. Min(A) \in A /\ \A y \in A : Min(A) <= y
    BY <2>2 DEF Min
  <2> QED
    BY <1>2, <2>3
<1> QED
  BY <1>1, <1>2

\* What the parser finds of the first address among the records.
FindsAddress(buffer, at, record) ==
  /\ ShortAt(buffer, at + 5) * 65536 + ShortAt(buffer, at + 7) = record.ttl
  /\ Len(record.data) = 4
  /\ \A k \in 1 .. 4 : buffer[at + 10 + k] = record.data[k]

LEMMA AddressHeld ==
  ASSUME NEW buffer, Packet(buffer), NEW reply \in Wellformed, Aligned(reply), NEW start \in Nat,
         Holds(buffer, start, FlattenSeq(Recording(reply.records))),
         start + Len(FlattenSeq(Recording(reply.records))) <= 256
  PROVE  LET at == AddressRecord(buffer, start, Len(reply.records))
             A  == AddressesOf(reply)
         IN  /\ A = {} => at = 0
             /\ A # {} => at # 0 /\ FindsAddress(buffer, at, reply.records[Min(A)])
<1> DEFINE rs == reply.records
           len == Len(rs)
           R == Recording(rs)
           A == AddressesOf(reply)
           next == [o \in DOMAIN buffer |->
                      IF HoldsAddress(buffer, AnswerNameEnd(buffer, o)) THEN o
                      ELSE AnswerNameEnd(buffer, o) + RecordSize]
           end == AnswerNameEnd(buffer, Walk(next, start, len - 1))
<1>1. /\ rs \in Seq(Records) /\ len \in Nat /\ DOMAIN rs = 1 .. len
      /\ \A k \in 1 .. len : rs[k] \in Records
  <2>1. rs \in Seq(Records)
    BY DEF Wellformed
  <2> HIDE DEF rs
  <2> QED
    BY <2>1
<1>2. A = {k \in 1 .. len : rs[k].type = TypeA /\ rs[k].class = ClassIN}
  BY <1>1 DEF AddressesOf
<1>3. \A k \in 1 .. len : (\A j \in A : k <= j) => Len(rs[k].data) = 4
  BY <1>1 DEF Aligned
<1>4. AddressRecord(buffer, start, len) = IF len > 0 /\ HoldsAddress(buffer, end) THEN end ELSE 0
  BY DEF AddressRecord
<1>5. /\ R \in Seq(Bytes) /\ Len(R) = len
      /\ \A k \in 1 .. len : R[k] = RecordBytes(rs[k]) /\ Len(R[k]) = 12 + Len(rs[k].data)
  BY <1>1, RecordingIs
<1>6. PICK at \in [0 .. len -> Nat] :
        /\ at[0] = start /\ at[len] = start + Len(FlattenSeq(R))
        /\ \A n \in 1 .. len : at[n] = at[n - 1] + Len(R[n]) /\ Holds(buffer, at[n - 1], R[n])
  <2> HIDE DEF R, len
  <2>1. Holds(buffer, start, FlattenSeq(R)) /\ R \in Seq(Bytes)
    BY <1>5 DEF R
  <2>2. \E at \in [0 .. Len(R) -> Nat] :
          /\ at[0] = start /\ at[Len(R)] = start + Len(FlattenSeq(R))
          /\ \A n \in 1 .. Len(R) :
               at[n] = at[n - 1] + Len(R[n]) /\ Holds(buffer, at[n - 1], R[n])
    BY <2>1, HoldsEach
  <2> QED
    BY <1>5, <2>2
<1>7. at[len] <= 256
  BY <1>6
<1> HIDE DEF R, A, rs, len
<1>8. ASSUME NEW k \in 1 .. len
      PROVE  /\ k - 1 \in 0 .. len /\ at[k - 1] \in Nat /\ Len(rs[k].data) \in Nat
             /\ at[k] = at[k - 1] + 12 + Len(rs[k].data)
  <2>1. k - 1 \in 0 .. len /\ at[k - 1] \in Nat
    BY <1>1, <1>6
  <2>2. Len(rs[k].data) \in Nat
    BY <1>1 DEF Records
  <2>3. at[k] = at[k - 1] + (12 + Len(rs[k].data))
    BY <1>5, <1>6
  <2>4. \A a, b \in Nat : a + (12 + b) = a + 12 + b
    OBVIOUS
  <2> QED
    BY <2>1, <2>2, <2>3, <2>4
<1>9. \A k \in 1 .. len : at[k - 1] \in 0 .. 255
  <2>1. \A n \in 1 .. len : at[n - 1] + 1 <= at[n]
    <3> TAKE n \in 1 .. len
    <3>1. \A a, b \in Nat : a + 1 <= a + 12 + b
      OBVIOUS
    <3>2. /\ at[n - 1] \in Nat /\ Len(rs[n].data) \in Nat
          /\ at[n] = at[n - 1] + 12 + Len(rs[n].data)
      BY <1>8
    <3>3. at[n - 1] + 1 <= at[n - 1] + 12 + Len(rs[n].data)
      BY <3>1, <3>2
    <3> QED
      BY <3>2, <3>3
  <2>2. \A n \in 0 .. len : at[n] + (len - n) <= at[len]
    BY <1>1, <1>6, <2>1, Climbs
  <2> TAKE k \in 1 .. len
  <2>3. k - 1 \in 0 .. len /\ len - (k - 1) \in Nat \ {0} /\ at[k - 1] \in Nat
    BY <1>1, <1>8
  <2>4. at[k - 1] + (len - (k - 1)) <= at[len] /\ at[len] \in Nat
    <3>1. len \in 0 .. len
      BY <1>1
    <3>2. at[len] \in Nat
      BY <1>6, <3>1
    <3> QED
      BY <2>2, <2>3, <3>2
  <2>5. \A a, c \in Nat, b \in Nat \ {0} : a + b <= c /\ c <= 256 => a \in 0 .. 255
    OBVIOUS
  <2> QED
    BY <1>7, <2>3, <2>4, <2>5
<1>10. ASSUME NEW k \in 1 .. len
       PROVE  /\ AnswerNameEnd(buffer, at[k - 1]) = at[k - 1] + 1
              /\ HoldsAddress(buffer, at[k - 1] + 1) <=> k \in A
              /\ Len(rs[k].data) = 4 => FindsAddress(buffer, at[k - 1] + 1, rs[k])
  <2> DEFINE p == at[k - 1]  record == rs[k]
  <2>1. p \in 0 .. 255 /\ record \in Records /\ Holds(buffer, p, RecordBytes(record))
    BY <1>1, <1>5, <1>6, <1>9
  <2> HIDE DEF p, record
  <2>2. /\ AnswerNameEnd(buffer, p) = p + 1
        /\ ShortAt(buffer, p + 2) = record.type
        /\ ShortAt(buffer, p + 4) = record.class
        /\ ShortAt(buffer, p + 6) * 65536 + ShortAt(buffer, p + 8) = record.ttl
        /\ \A i \in 1 .. Len(record.data) : buffer[p + 11 + i] = record.data[i]
    <3>1. RecordFound(buffer, p, record)
      BY <2>1, RecordHeld
    <3> QED
      BY <3>1 DEF RecordFound
  <2>3. /\ (p + 1) + 1 = p + 2 /\ (p + 1) + 3 = p + 4 /\ (p + 1) + 5 = p + 6
        /\ (p + 1) + 7 = p + 8 /\ \A i \in 1 .. 4 : (p + 1) + 10 + i = p + 11 + i
    BY <2>1
  <2>4. HoldsAddress(buffer, p + 1) <=> k \in A
    <3>1. HoldsAddress(buffer, p + 1) <=>
            ShortAt(buffer, p + 2) = TypeA /\ ShortAt(buffer, p + 4) = ClassIN
      BY <2>3 DEF HoldsAddress
    <3>2. k \in A <=> record.type = TypeA /\ record.class = ClassIN
      BY <1>2 DEF record
    <3> QED
      BY <2>2, <3>1, <3>2
  <2>5. Len(record.data) = 4 => FindsAddress(buffer, p + 1, record)
    BY <2>2, <2>3 DEF FindsAddress
  <2> QED
    BY <2>2, <2>4, <2>5 DEF p, record
<1>11. CASE len = 0
  <2>1. A = {} /\ AddressRecord(buffer, start, len) = 0
    BY <1>2, <1>4, <1>11
  <2> QED
    BY <2>1 DEF A, rs, len
<1>12. CASE len # 0
  <2>1. PICK last \in 1 .. len : /\ \A j \in A : last <= j
                                 /\ A # {} => last = Min(A) /\ last \in A
                                 /\ A = {} => last = len
    <3>1. A \in SUBSET (1 .. len) /\ len \in Nat \ {0}
      BY <1>1, <1>2, <1>12
    <3> QED
      BY <3>1, FirstPlace
  <2> DEFINE w == [n \in 0 .. len - 1 |-> at[IF n < last THEN n ELSE last - 1]]
  <2>2. ASSUME NEW n \in 1 .. len - 1 PROVE w[n] = next[w[n - 1]]
    <3>1. /\ n - 1 \in 0 .. len - 1 /\ n \in 1 .. len /\ last \in 1 .. len
          /\ n \in 0 .. len - 1
      BY <1>1
    <3>2. CASE n < last
      <4>1. w[n] = at[n] /\ w[n - 1] = at[n - 1]
        BY <3>1, <3>2
      <4>2. n \notin A /\ \A j \in A : n <= j
        BY <1>1, <1>2, <2>1, <3>1, <3>2
      <4>3. at[n] = at[n - 1] + 12 + 4 /\ at[n - 1] \in 0 .. 255
        BY <1>3, <1>8, <1>9, <3>1, <4>2
      <4>4. ~HoldsAddress(buffer, AnswerNameEnd(buffer, at[n - 1]))
        BY <1>10, <3>1, <4>2
      <4>5. next[at[n - 1]] = (at[n - 1] + 1) + 15
        BY <1>10, <3>1, <4>3, <4>4 DEF Packet, RecordSize
      <4>6. \A a \in 0 .. 255 : (a + 1) + 15 = a + 12 + 4
        OBVIOUS
      <4> HIDE DEF w, next
      <4> QED
        BY <4>1, <4>3, <4>5, <4>6
    <3>3. CASE ~(n < last)
      <4>1. w[n] = at[last - 1] /\ w[n - 1] = at[last - 1]
        BY <1>1, <3>1, <3>3
      <4>2. last \in A
        BY <1>1, <2>1, <3>1, <3>3
      <4>3. next[at[last - 1]] = at[last - 1]
        BY <1>9, <1>10, <3>1, <4>2 DEF Packet
      <4> HIDE DEF w, next
      <4> QED
        BY <4>1, <4>3
    <3> QED
      BY <3>2, <3>3
  <2>3. w[0] = start /\ w[len - 1] = at[last - 1] /\ len - 1 \in Nat
    BY <1>1, <1>6, <1>12
  <2> HIDE DEF w, next
  <2>4. \A rounds \in Nat : (\A n \in 1 .. rounds : w[n] = next[w[n - 1]])
                              => Walk(next, w[0], rounds) = w[rounds]
    BY WalkIs
  <2>5. Walk(next, start, len - 1) = at[last - 1]
    BY <2>2, <2>3, <2>4
  <2>6. end = at[last - 1] + 1 /\ at[last - 1] \in 0 .. 255
    BY <1>9, <1>10, <2>5
  <2>7. len > 0
    BY <1>1, <1>12
  <2> DEFINE place == AddressRecord(buffer, start, len)
  <2>8. CASE A = {}
    <3>1. ~HoldsAddress(buffer, end)
      BY <1>10, <2>6, <2>8
    <3> QED
      BY <1>4, <2>8, <3>1 DEF A, rs, len
  <2>9. CASE A # {}
    <3>1. HoldsAddress(buffer, end) /\ FindsAddress(buffer, end, rs[last])
      BY <1>3, <1>10, <2>1, <2>6, <2>9
    <3>2. end # 0
      <4>1. \A a \in 0 .. 255 : a + 1 # 0
        OBVIOUS
      <4> HIDE DEF end
      <4> QED
        BY <2>6, <4>1
    <3>3. place = end /\ last = Min(A)
      BY <1>4, <2>1, <2>7, <2>9, <3>1
    <3> HIDE DEF place, end
    <3>4. place # 0 /\ FindsAddress(buffer, place, rs[Min(A)])
      BY <3>1, <3>2, <3>3
    <3> QED
      BY <2>9, <3>4 DEF A, rs, len, place
  <2> QED
    BY <2>8, <2>9
<1> QED
  BY <1>11, <1>12

LEMMA QuestionType ==
  ASSUME NEW labels \in Seq(Labelled)
  PROVE  Question(labels) \in Bytes
<1> DEFINE name == WireName(labels)
           s1 == name \o Short(TypeA)
<1>1. name \in Bytes
  BY NameType
<1>2. TypeA \in Nat /\ ClassIN \in Nat
  BY DEF TypeA, ClassIN
<1> HIDE DEF name
<1>3. s1 \in Bytes
  BY <1>1, <1>2, ShortBehind
<1> HIDE DEF s1
<1>4. s1 \o Short(ClassIN) \in Bytes
  BY <1>2, <1>3, ShortBehind
<1> QED
  BY <1>4 DEF Question, s1, name

LEMMA ReplyType ==
  ASSUME NEW reply \in Wellformed
  PROVE  ReplyBytes(reply) \in Bytes
<1> DEFINE flat == FlattenSeq(Recording(reply.records))
           question == Question(reply.name)
           len == Len(reply.records)
           flags == <<IF reply.answer THEN 128 ELSE 0, reply.rcode>>
           s0 == Short(reply.id)
           s1 == s0 \o flags
           s2 == s1 \o Short(1)
           s3 == s2 \o Short(len)
           s4 == s3 \o Short(0)
           s5 == s4 \o Short(0)
           s6 == s5 \o question
<1>1. ReplyBytes(reply) = s6 \o flat
  BY DEF ReplyBytes, Recording
<1>2. /\ reply.id \in Nat /\ reply.name \in Seq(Labelled) /\ reply.answer \in BOOLEAN
      /\ reply.rcode \in 0 .. 15 /\ reply.records \in Seq(Records)
  BY DEF Wellformed
<1>3. flat \in Bytes
  <2>1. Recording(reply.records) \in Seq(Bytes)
    BY <1>2, RecordingIs
  <2> QED
    BY <2>1, FlatType
<1>4. question \in Bytes
  BY <1>2, QuestionType
<1>5. len \in Nat /\ 0 \in Nat /\ 1 \in Nat
  BY <1>2
<1>6. flags \in Bytes
  BY <1>2 DEF Bytes
<1>7. s0 \in Bytes
  BY <1>2, ShortIs
<1> HIDE DEF flat, question, len, flags, s0
<1>8. s1 \in Bytes
  BY <1>6, <1>7, Joined
<1> HIDE DEF s1
<1>9. s2 \in Bytes
  BY <1>5, <1>8, ShortBehind
<1> HIDE DEF s2
<1>10. s3 \in Bytes
  BY <1>5, <1>9, ShortBehind
<1> HIDE DEF s3
<1>11. s4 \in Bytes
  BY <1>5, <1>10, ShortBehind
<1> HIDE DEF s4
<1>12. s5 \in Bytes
  BY <1>5, <1>11, ShortBehind
<1> HIDE DEF s5
<1>13. s6 \in Bytes
  BY <1>4, <1>12, Joined
<1> HIDE DEF s6
<1>14. s6 \o flat \in Bytes
  BY <1>3, <1>13, Joined
<1> QED
  BY <1>1, <1>14

\* What the parser finds of a whole reply in the buffer.
ReplyFound(buffer, reply) ==
  /\ ShortAt(buffer, 0) = reply.id
  /\ buffer[2] = IF reply.answer THEN 128 ELSE 0
  /\ buffer[3] = reply.rcode
  /\ ShortAt(buffer, 4) = 1
  /\ ShortAt(buffer, 6) = Len(reply.records)
  /\ AnswersStart(buffer, 1) \in Nat
  /\ Holds(buffer, AnswersStart(buffer, 1), FlattenSeq(Recording(reply.records)))
  /\ AnswersStart(buffer, 1) + Len(FlattenSeq(Recording(reply.records))) <= 256

LEMMA ReplyHeld ==
  ASSUME NEW buffer, Packet(buffer), NEW reply \in Wellformed,
         Holds(buffer, 0, ReplyBytes(reply)), Len(ReplyBytes(reply)) <= 256
  PROVE  ReplyFound(buffer, reply)
<1> DEFINE flat == FlattenSeq(Recording(reply.records))
           question == Question(reply.name)
           len == Len(reply.records)
           flags == <<IF reply.answer THEN 128 ELSE 0, reply.rcode>>
           s0 == Short(reply.id)
           s1 == s0 \o flags
           s2 == s1 \o Short(1)
           s3 == s2 \o Short(len)
           s4 == s3 \o Short(0)
           s5 == s4 \o Short(0)
           s6 == s5 \o question
<1>1. ReplyBytes(reply) = s6 \o flat
  BY DEF ReplyBytes, Recording
<1>2. /\ reply.id \in Nat /\ reply.name \in Seq(Labelled) /\ reply.answer \in BOOLEAN
      /\ reply.rcode \in 0 .. 15 /\ reply.records \in Seq(Records)
  BY DEF Wellformed
<1>3. flat \in Bytes
  <2>1. Recording(reply.records) \in Seq(Bytes)
    BY <1>2, RecordingIs
  <2> QED
    BY <2>1, FlatType
<1>4. question \in Bytes
  BY <1>2, QuestionType
<1>5. len \in Nat /\ 0 \in Nat /\ 1 \in Nat
  BY <1>2
<1>6. /\ flags \in Bytes /\ Len(flags) = 2 /\ flags[2] = reply.rcode
      /\ flags[1] = IF reply.answer THEN 128 ELSE 0
  <2> DEFINE bits == IF reply.answer THEN 128 ELSE 0  code == reply.rcode
  <2>1. bits \in Nat
    OBVIOUS
  <2>2. code \in Nat
    <3>1. code \in 0 .. 15
      BY <1>2, Zenon
    <3> HIDE DEF code
    <3> QED
      BY <3>1
  <2> HIDE DEF bits, code
  <2>3. <<bits, code>> \in Bytes /\ Len(<<bits, code>>) = 2
        /\ <<bits, code>>[1] = bits /\ <<bits, code>>[2] = code
    BY <2>1, <2>2 DEF Bytes
  <2> QED
    BY <2>3, Zenon DEF bits, code
<1>7. s0 \in Bytes /\ Len(s0) = 2
  BY <1>2, ShortIs
<1> HIDE DEF flat, question, len, flags, s0
<1>8. s1 \in Bytes /\ Len(s1) = 4
  <2>1. s1 \in Bytes /\ Len(s1) = Len(s0) + Len(flags)
    BY <1>6, <1>7, Joined
  <2> QED
    BY <1>6, <1>7, <2>1
<1> HIDE DEF s1
<1>9. s2 \in Bytes /\ Len(s2) = 6
  <2>1. s2 \in Bytes /\ Len(s2) = Len(s1) + 2
    BY <1>5, <1>8, ShortBehind
  <2> QED
    BY <1>8, <2>1
<1> HIDE DEF s2
<1>10. s3 \in Bytes /\ Len(s3) = 8
  <2>1. s3 \in Bytes /\ Len(s3) = Len(s2) + 2
    BY <1>5, <1>9, ShortBehind
  <2> QED
    BY <1>9, <2>1
<1> HIDE DEF s3
<1>11. s4 \in Bytes /\ Len(s4) = 10
  <2>1. s4 \in Bytes /\ Len(s4) = Len(s3) + 2
    BY <1>5, <1>10, ShortBehind
  <2> QED
    BY <1>10, <2>1
<1> HIDE DEF s4
<1>12. s5 \in Bytes /\ Len(s5) = 12
  <2>1. s5 \in Bytes /\ Len(s5) = Len(s4) + 2
    BY <1>5, <1>11, ShortBehind
  <2> QED
    BY <1>11, <2>1
<1> HIDE DEF s5
<1>13. s6 \in Bytes /\ Len(s6) = 12 + Len(question)
  <2>1. s6 \in Bytes /\ Len(s6) = Len(s5) + Len(question)
    BY <1>4, <1>12, Joined
  <2> QED
    BY <1>12, <2>1
<1> HIDE DEF s6
<1>14. Len(s6) + Len(flat) <= 256 /\ Len(flat) \in Nat /\ Len(question) \in Nat
  <2>1. Len(s6 \o flat) = Len(s6) + Len(flat)
    BY <1>3, <1>13, Joined
  <2> QED
    BY <1>1, <1>3, <1>4, <2>1, LenType
<1>15. Holds(buffer, 0, s6) /\ Holds(buffer, Len(s6), flat)
  <2>1. Holds(buffer, 0, s6) /\ Holds(buffer, 0 + Len(s6), flat)
    BY <1>1, <1>3, <1>5, <1>13, HoldsBoth
  <2>2. 0 + Len(s6) = Len(s6)
    BY <1>13, LenType
  <2> QED
    BY <2>1, <2>2
<1>16. Holds(buffer, 0, s5) /\ Holds(buffer, 12, question)
  <2>1. Holds(buffer, 0, s5) /\ Holds(buffer, 0 + Len(s5), question)
    BY <1>4, <1>5, <1>12, <1>15, HoldsBoth DEF s6
  <2> QED
    BY <1>12, <2>1
<1>17. Holds(buffer, 0, s4)
  BY <1>5, <1>11, <1>16, ShortBehindHeld DEF s5
<1>18. Holds(buffer, 0, s3)
  BY <1>5, <1>10, <1>17, ShortBehindHeld DEF s4
<1>19. Holds(buffer, 0, s2) /\ ShortAt(buffer, 6) = len
  <2>1. Holds(buffer, 0, s2) /\ ShortAt(buffer, 0 + Len(s2)) = len
    BY <1>5, <1>9, <1>18, ShortBehindHeld DEF s3
  <2> QED
    BY <1>9, <2>1
<1>20. Holds(buffer, 0, s1) /\ ShortAt(buffer, 4) = 1
  <2>1. Holds(buffer, 0, s1) /\ ShortAt(buffer, 0 + Len(s1)) = 1
    BY <1>5, <1>8, <1>19, ShortBehindHeld DEF s2
  <2> QED
    BY <1>8, <2>1
<1>21. Holds(buffer, 0, s0) /\ Holds(buffer, 2, flags)
  <2>1. Holds(buffer, 0, s0) /\ Holds(buffer, 0 + Len(s0), flags)
    BY <1>5, <1>6, <1>7, <1>20, HoldsBoth DEF s1
  <2> QED
    BY <1>7, <2>1
<1>22. ShortAt(buffer, 0) = reply.id
  BY <1>2, <1>5, <1>21, ShortHeld DEF s0
<1>23. buffer[2] = (IF reply.answer THEN 128 ELSE 0) /\ buffer[3] = reply.rcode
  <2>1. \A i \in 1 .. 2 : buffer[2 + i - 1] = flags[i]
    BY <1>6, <1>21 DEF Holds
  <2>2. buffer[2] = flags[1] /\ buffer[3] = flags[2]
    BY <2>1
  <2> QED
    BY <1>6, <2>2
<1>24. AnswersStart(buffer, 1) = Len(s6)
  <2>1. 12 + Len(question) <= 256
    BY <1>13, <1>14
  <2>2. AnswersStart(buffer, 1) = 12 + Len(question)
    BY <1>2, <1>4, <1>16, <2>1, QuestionHeld DEF question
  <2> QED
    BY <1>13, <2>2
<1>25. Len(s6) \in Nat
  BY <1>13, LenType
<1> QED
  BY <1>14, <1>15, <1>19, <1>20, <1>22, <1>23, <1>24, <1>25 DEF ReplyFound, len, flat

LEMMA BufferHolds ==
  ASSUME NEW bytes \in Bytes, Len(bytes) <= 256, NEW stale
  PROVE  Packet(Buffer(bytes, stale)) /\ Holds(Buffer(bytes, stale), 0, bytes)
<1>1. Len(bytes) \in Nat /\ MaxPacketSize - 1 = 255
  BY LenType DEF MaxPacketSize
<1>2. Packet(Buffer(bytes, stale))
  BY <1>1 DEF Packet, Buffer
<1>3. ASSUME NEW i \in 1 .. Len(bytes) PROVE Buffer(bytes, stale)[0 + i - 1] = bytes[i]
  <2>1. 0 + i - 1 \in 0 .. MaxPacketSize - 1 /\ 0 + i - 1 < Len(bytes) /\ (0 + i - 1) + 1 = i
    BY <1>1
  <2> QED
    BY <2>1 DEF Buffer
<1> QED
  BY <1>2, <1>3 DEF Holds

\* What the client takes from a reply whose records are of the size it expects is
\* what the reply says, whatever is in the buffer behind the packet.
THEOREM RepliesParsed ==
  \A stale, none : \A reply \in Wellformed :
    Aligned(reply) => ParsedReply(reply, stale, none) = SaidReply(reply, none)
<1> SUFFICES ASSUME NEW stale, NEW none, NEW reply \in Wellformed, Aligned(reply)
             PROVE  ParsedReply(reply, stale, none) = SaidReply(reply, none)
  OBVIOUS
<1> DEFINE bytes == ReplyBytes(reply)
           buffer == Buffer(bytes, stale)
           A == AddressesOf(reply)
           first == reply.records[Min(A)]
           at == AddressRecord(buffer, AnswersStart(buffer, ShortAt(buffer, 4)),
                               ShortAt(buffer, 6))
           seen == [id   |-> ShortAt(buffer, 0),
                    ip   |-> [k \in 1 .. 4 |-> buffer[at + 10 + k]],
                    left |-> Lifetime(ShortAt(buffer, at + 5) * 65536 + ShortAt(buffer, at + 7))]
           said == [id |-> reply.id, ip |-> first.data, left |-> Lifetime(first.ttl)]
<1>1. SaidReply(reply, none) =
        IF ~reply.answer \/ reply.rcode # 0 \/ A = {} \/ Len(bytes) > 256 THEN none ELSE said
  BY DEF SaidReply, MaxPacketSize
<1>2. ParsedReply(reply, stale, none) =
        IF Len(bytes) > 256 THEN none ELSE ParsedFrom(buffer, none)
  BY DEF ParsedReply, MaxPacketSize
<1>3. CASE Len(bytes) > 256
  BY <1>1, <1>2, <1>3
<1>4. CASE ~(Len(bytes) > 256)
  <2>1. bytes \in Bytes
    BY ReplyType
  <2>2. Len(bytes) <= 256
    BY <1>4, <2>1, LenType
  <2> HIDE DEF bytes
  <2>3. Packet(buffer) /\ Holds(buffer, 0, bytes)
    BY <2>1, <2>2, BufferHolds
  <2> HIDE DEF buffer
  <2>4. ReplyFound(buffer, reply)
    BY <2>2, <2>3, ReplyHeld DEF bytes
  <2> DEFINE start == AnswersStart(buffer, 1)
  <2>5. /\ A = {} => at = 0
        /\ A # {} => at # 0 /\ FindsAddress(buffer, at, first)
    <3>1. /\ start \in Nat
          /\ Holds(buffer, start, FlattenSeq(Recording(reply.records)))
          /\ start + Len(FlattenSeq(Recording(reply.records))) <= 256
      BY <2>4 DEF ReplyFound
    <3> HIDE DEF start
    <3>2. LET place == AddressRecord(buffer, start, Len(reply.records))
          IN  /\ A = {} => place = 0
              /\ A # {} => place # 0 /\ FindsAddress(buffer, place, first)
      BY <2>3, <3>1, AddressHeld
    <3>3. at = AddressRecord(buffer, start, Len(reply.records))
      BY <2>4 DEF ReplyFound, start
    <3> QED
      BY <3>2, <3>3
  <2>6. ParsedFrom(buffer, none) =
          IF buffer[2] < 128 \/ buffer[3] % 16 # 0 \/ at = 0 THEN none ELSE seen
    BY DEF ParsedFrom
  <2>7. (buffer[2] < 128 <=> ~reply.answer) /\ (buffer[3] % 16 # 0 <=> reply.rcode # 0)
    <3>1. /\ reply.rcode \in 0 .. 15
          /\ buffer[2] = (IF reply.answer THEN 128 ELSE 0) /\ buffer[3] = reply.rcode
      BY <2>4 DEF ReplyFound, Wellformed
    <3>2. \A n \in 0 .. 15 : n % 16 = n
      OBVIOUS
    <3>3. 0 < 128 /\ ~(128 < 128)
      OBVIOUS
    <3> QED
      BY <3>1, <3>2, <3>3
  <2>8. A # {} => seen = said
    <3> SUFFICES ASSUME A # {} PROVE seen = said
      OBVIOUS
    <3>1. Min(A) \in A
      <4>1. A \in SUBSET Nat
        BY DEF Wellformed, AddressesOf
      <4> QED
        BY <4>1, HasLeast DEF Min
    <3>2. first.data \in Seq(Nat)
      <4>1. Min(A) \in DOMAIN reply.records /\ reply.records \in Seq(Records)
        BY <3>1 DEF Wellformed, AddressesOf
      <4>2. first \in Records
        BY <4>1
      <4> QED
        BY <4>2 DEF Records
    <3>3. ShortAt(buffer, 0) = reply.id
      BY <2>4 DEF ReplyFound
    <3> HIDE DEF at, A, first
    <3>4. /\ ShortAt(buffer, at + 5) * 65536 + ShortAt(buffer, at + 7) = first.ttl
          /\ Len(first.data) = 4
          /\ \A k \in 1 .. 4 : buffer[at + 10 + k] = first.data[k]
      BY <2>5 DEF FindsAddress
    <3>5. first.data = [k \in 1 .. 4 |-> first.data[k]]
    <4>1. first.data \in [1 .. 4 -> Nat]
      BY <3>2, <3>4, LenProperties
    <4> QED
      BY <4>1
    <3>6. [k \in 1 .. 4 |-> buffer[at + 10 + k]] = first.data
      BY <3>4, <3>5
    <3> QED
      BY <3>3, <3>4, <3>6
  <2> HIDE DEF at, A, first, seen, said
  <2> QED
    BY <1>1, <1>2, <1>4, <2>5, <2>6, <2>7, <2>8
<1> QED
  BY <1>3, <1>4

-----------------------------------------------------------------------------

\* Whatever the socket holds, a reply that update() takes out of it leaves in the
\* cache what it says, or nothing at all if it says nothing, when every record of
\* the replies that can come is of the size the parser expects.
THEOREM AnswersReachTheCache ==
  ASSUME RepliesAreBytes
  PROVE  Spec => CachesWhatWasSaid
<1> DEFINE Stored(said) == IF said = NoAnswer THEN slots' = slots
                                              ELSE \E i \in Places : slots'[i] = said
<1>1. ASSUME NEW reply \in AllReplies PROVE Parsed(reply) = Said(reply)
  <2>1. /\ reply \in Wellformed /\ Aligned(reply)
        /\ Parsed(reply) = ParsedReply(reply, 0, NoAnswer)
        /\ Said(reply) = SaidReply(reply, NoAnswer)
    BY DEF RepliesAreBytes
  <2> QED
    BY <2>1, RepliesParsed
<1>2. ASSUME TypeOK, [Next]_vars, pc = "parse", rx # <<>>, rx' = Tail(rx)
      PROVE  Stored(Said(Head(rx)))
  <2>1. Tail(rx) # rx /\ \A reply \in AllReplies : Tail(rx) # Append(rx, reply)
    <3>1. rx \in Seq(AllReplies) /\ Len(rx) \in Nat \ {0}
      BY <1>2 DEF TypeOK
    <3>2. Len(Tail(rx)) = Len(rx) - 1
      BY <3>1, <1>2
    <3>3. \A reply \in AllReplies : Len(Append(rx, reply)) = Len(rx) + 1
      BY <3>1
    <3>4. Len(rx) - 1 # Len(rx) /\ Len(rx) - 1 # Len(rx) + 1
      BY <3>1
    <3> QED
      BY <3>2, <3>3, <3>4, Zenon
  <2>2. ParsePacket
    <3>1. ~\E name \in Names : Query(name)
      BY <1>2 DEF Query, QueryCached, QuerySent, QueryGivenUp
    <3>2. ~UpdateFails /\ ~UpdateBegin /\ ~Close
      BY <1>2 DEF UpdateFails, UpdateBegin, Close
    <3>3. ~(\E id \in Ids : Get(id)) /\ ~\E s \in Servers : SetServerIp(s)
      BY <1>2 DEF Get, SetServerIp
    <3>4. ~\E reply \in AllReplies : Answer(reply)
      BY <1>2, <2>1 DEF Answer
    <3>5. ~(\E name \in Names : Forget(name)) /\ ~Tick /\ ~UNCHANGED vars
      BY <1>2, <2>1 DEF Forget, Tick, vars, chipVars
    <3> QED
      BY <1>2, <3>1, <3>2, <3>3, <3>4, <3>5 DEF Next, Update
  <2>3. Head(rx) \in AllReplies /\ slots \in [Places -> Slots]
    BY <1>2 DEF TypeOK, CacheTypeOK
  <2>4. Parsed(Head(rx)) = Said(Head(rx))
    BY <1>1, <2>3
  <2>5. CASE Parsed(Head(rx)) = NoAnswer
    BY <1>2, <2>2, <2>4, <2>5 DEF ParsePacket
  <2>6. CASE Parsed(Head(rx)) # NoAnswer
    <3>1. CacheStore(Parsed(Head(rx)))
      BY <1>2, <2>2, <2>6 DEF ParsePacket
    <3>2. Parsed(Head(rx)) \in Answers
      BY <2>3, <2>6, ClientAssumption
    <3>3. slots'[Place] = Parsed(Head(rx)) /\ Place \in Places
      BY <2>3, <3>1, <3>2, StoreTypes, PlaceIsPlace
    <3> QED
      BY <2>4, <2>6, <3>3
  <2> QED
    BY <2>5, <2>6
<1>3. TypeOK /\ [Next]_vars =>
        [pc = "parse" /\ rx # <<>> /\ rx' = Tail(rx) =>
           LET said == Said(Head(rx))
           IN  IF said = NoAnswer THEN slots' = slots
                                  ELSE \E i \in Places : slots'[i] = said]_vars
  BY <1>2
<1> QED
  BY <1>3, TypeCorrect, PTL DEF Spec, CachesWhatWasSaid

-----------------------------------------------------------------------------
(* Exclusive or.                                                           *)

\* Numbers of 2, 4, 8 and 16 bits.
Pairs   == 0 .. 3
Nibbles == 0 .. 15
Octets  == 0 .. 255
Words   == {n \in Nat : n < 65536}

\* A number and its halves, of which the lower one is below b.
High(x, b)    == x \div b
Low(x, b)     == x % b
Pair(h, l, b) == b * h + l

\* Each member of W is one pair of members of S.
Halves(W, S, b) ==
  /\ \A x \in W : High(x, b) \in S /\ Low(x, b) \in S /\ Pair(High(x, b), Low(x, b), b) = x
  /\ \A h, l \in S : Pair(h, l, b) \in W /\ High(Pair(h, l, b), b) = h /\ Low(Pair(h, l, b), b) = l
  /\ 0 \in S /\ 0 \in W /\ Pair(0, 0, b) = 0

\* Numbers of each width are pairs of numbers of half that width.
LEMMA HalvesOfNibbles == Halves(Nibbles, Pairs, 4)
<1>1. ASSUME NEW x \in Nibbles
      PROVE  /\ High(x, 4) \in Pairs /\ Low(x, 4) \in Pairs
             /\ Pair(High(x, 4), Low(x, 4), 4) = x
  <2> DEFINE q == x \div 4
             r == x % 4
  <2>1. x \in Nat /\ x <= 15
    BY DEF Nibbles
  <2>2. q \in Nat /\ r \in 0 .. 4 - 1 /\ x = 4 * q + r
    BY <2>1, DivType, DivMod, ModType
  <2> HIDE DEF q, r
  <2>3. q \in Pairs /\ r \in Pairs /\ 4 * q + r = x
    BY <2>1, <2>2 DEF Pairs
  <2> QED
    BY <2>3 DEF q, r, High, Low, Pair
<1>2. ASSUME NEW h \in Pairs, NEW l \in Pairs
      PROVE  /\ Pair(h, l, 4) \in Nibbles
             /\ High(Pair(h, l, 4), 4) = h /\ Low(Pair(h, l, 4), 4) = l
  <2>1. h \in Nat /\ l \in 0 .. 4 - 1 /\ h <= 4 - 1
    BY DEF Pairs
  <2>2. 4 * h + l \in Nibbles
    BY <2>1 DEF Nibbles
  <2>3. (4 * h + l) \div 4 = h /\ (4 * h + l) % 4 = l
    BY <2>1, DivExact, ModExact
  <2> QED
    BY <2>2, <2>3 DEF High, Low, Pair
<1>3. 0 \in Pairs /\ 0 \in Nibbles /\ Pair(0, 0, 4) = 0
  BY DEF Pairs, Nibbles, Pair
<1> QED
  BY <1>1, <1>2, <1>3 DEF Halves

LEMMA HalvesOfOctets == Halves(Octets, Nibbles, 16)
<1>1. ASSUME NEW x \in Octets
      PROVE  /\ High(x, 16) \in Nibbles /\ Low(x, 16) \in Nibbles
             /\ Pair(High(x, 16), Low(x, 16), 16) = x
  <2> DEFINE q == x \div 16
             r == x % 16
  <2>1. x \in Nat /\ x <= 255
    BY DEF Octets
  <2>2. q \in Nat /\ r \in 0 .. 16 - 1 /\ x = 16 * q + r
    BY <2>1, DivType, DivMod, ModType
  <2> HIDE DEF q, r
  <2>3. q \in Nibbles /\ r \in Nibbles /\ 16 * q + r = x
    BY <2>1, <2>2 DEF Nibbles
  <2> QED
    BY <2>3 DEF q, r, High, Low, Pair
<1>2. ASSUME NEW h \in Nibbles, NEW l \in Nibbles
      PROVE  /\ Pair(h, l, 16) \in Octets
             /\ High(Pair(h, l, 16), 16) = h /\ Low(Pair(h, l, 16), 16) = l
  <2>1. h \in Nat /\ l \in 0 .. 16 - 1 /\ h <= 16 - 1
    BY DEF Nibbles
  <2>2. 16 * h + l \in Octets
    BY <2>1 DEF Octets
  <2>3. (16 * h + l) \div 16 = h /\ (16 * h + l) % 16 = l
    BY <2>1, DivExact, ModExact
  <2> QED
    BY <2>2, <2>3 DEF High, Low, Pair
<1>3. 0 \in Nibbles /\ 0 \in Octets /\ Pair(0, 0, 16) = 0
  BY DEF Nibbles, Octets, Pair
<1> QED
  BY <1>1, <1>2, <1>3 DEF Halves

LEMMA HalvesOfWords == Halves(Words, Octets, 256)
<1>1. ASSUME NEW x \in Words
      PROVE  /\ High(x, 256) \in Octets /\ Low(x, 256) \in Octets
             /\ Pair(High(x, 256), Low(x, 256), 256) = x
  <2> DEFINE q == x \div 256
             r == x % 256
  <2>1. x \in Nat /\ x <= 65535
    BY DEF Words
  <2>2. q \in Nat /\ r \in 0 .. 256 - 1 /\ x = 256 * q + r
    BY <2>1, DivType, DivMod, ModType
  <2> HIDE DEF q, r
  <2>3. q \in Octets /\ r \in Octets /\ 256 * q + r = x
    BY <2>1, <2>2 DEF Octets
  <2> QED
    BY <2>3 DEF q, r, High, Low, Pair
<1>2. ASSUME NEW h \in Octets, NEW l \in Octets
      PROVE  /\ Pair(h, l, 256) \in Words
             /\ High(Pair(h, l, 256), 256) = h /\ Low(Pair(h, l, 256), 256) = l
  <2>1. h \in Nat /\ l \in 0 .. 256 - 1 /\ h <= 256 - 1
    BY DEF Octets
  <2>2. 256 * h + l \in Words
    BY <2>1 DEF Words
  <2>3. (256 * h + l) \div 256 = h /\ (256 * h + l) % 256 = l
    BY <2>1, DivExact, ModExact
  <2> QED
    BY <2>2, <2>3 DEF High, Low, Pair
<1>3. 0 \in Octets /\ 0 \in Words /\ Pair(0, 0, 256) = 0
  BY DEF Octets, Words, Pair
<1> QED
  BY <1>1, <1>2, <1>3 DEF Halves

\* Sums without carries: commutative, associative, and every number undoes itself.
\* Four values can be tried; each width follows from its half.
LEMMA Xor2Laws ==
  \A x, y \in Pairs :
    /\ Xor2(x, y) \in Pairs
    /\ Xor2(x, y) = Xor2(y, x)
    /\ Xor2(x, 0) = x /\ Xor2(x, x) = 0
    /\ \A z \in Pairs : Xor2(Xor2(x, y), z) = Xor2(x, Xor2(y, z))
<1> USE DEF Pairs
<1>1. \A x \in Pairs : x = 0 \/ x = 1 \/ x = 2 \/ x = 3
  OBVIOUS
<1>2. \A x, y \in Pairs :
        /\ Xor2(x, y) \in Pairs
        /\ Xor2(x, y) \div 2 = (x \div 2 + y \div 2) % 2
        /\ Xor2(x, y) % 2 = (x + y) % 2
  BY DEF Xor2
<1>3. \A x, y \in Pairs : Xor2(x, y) = Xor2(y, x)
  BY DEF Xor2
<1>4. \A x \in Pairs : Xor2(x, 0) = x /\ Xor2(x, x) = 0
  BY DEF Xor2
<1>5. \A x, y, z \in Pairs : Xor2(Xor2(x, y), z) = Xor2(x, Xor2(y, z))
  BY <1>1, <1>2 DEF Xor2
<1> QED
  BY <1>2, <1>3, <1>4, <1>5

LEMMA Xor4Laws ==
  \A x, y \in Nibbles :
    /\ Xor4(x, y) \in Nibbles
    /\ Xor4(x, y) = Xor4(y, x)
    /\ Xor4(x, 0) = x /\ Xor4(x, x) = 0
    /\ \A z \in Nibbles : Xor4(Xor4(x, y), z) = Xor4(x, Xor4(y, z))
<1> DEFINE h(x) == High(x, 4)
           l(x) == Low(x, 4)
           p(x, y) == Pair(x, y, 4)
<1>1. /\ \A x \in Nibbles : h(x) \in Pairs /\ l(x) \in Pairs /\ p(h(x), l(x)) = x
      /\ \A x, y \in Pairs : p(x, y) \in Nibbles /\ h(p(x, y)) = x /\ l(p(x, y)) = y
      /\ 0 \in Pairs /\ 0 \in Nibbles /\ p(0, 0) = 0
  BY HalvesOfNibbles DEF Halves
<1>2. \A x, y : Xor4(x, y) = p(Xor2(h(x), h(y)), Xor2(l(x), l(y)))
  BY DEF Xor4, High, Low, Pair
<1> HIDE DEF h, l, p
<1>3. h(0) = 0 /\ l(0) = 0
  BY <1>1
<1>4. ASSUME NEW x \in Nibbles, NEW y \in Nibbles
      PROVE  /\ Xor4(x, y) \in Nibbles
             /\ h(Xor4(x, y)) = Xor2(h(x), h(y))
             /\ l(Xor4(x, y)) = Xor2(l(x), l(y))
  BY <1>1, <1>2, Xor2Laws
<1>5. ASSUME NEW x \in Nibbles, NEW y \in Nibbles
      PROVE  Xor4(x, y) = Xor4(y, x)
  BY <1>1, <1>2, Xor2Laws
<1>6. ASSUME NEW x \in Nibbles
      PROVE  Xor4(x, 0) = x /\ Xor4(x, x) = 0
  BY <1>1, <1>2, <1>3, Xor2Laws
<1>7. ASSUME NEW x \in Nibbles, NEW y \in Nibbles, NEW z \in Nibbles
      PROVE  Xor4(Xor4(x, y), z) = Xor4(x, Xor4(y, z))
  <2>1. /\ Xor4(Xor4(x, y), z) = p(Xor2(Xor2(h(x), h(y)), h(z)), Xor2(Xor2(l(x), l(y)), l(z)))
        /\ Xor4(x, Xor4(y, z)) = p(Xor2(h(x), Xor2(h(y), h(z))), Xor2(l(x), Xor2(l(y), l(z))))
    BY <1>2, <1>4
  <2> QED
    BY <1>1, <2>1, Xor2Laws
<1> QED
  BY <1>4, <1>5, <1>6, <1>7

LEMMA Xor8Laws ==
  \A x, y \in Octets :
    /\ Xor8(x, y) \in Octets
    /\ Xor8(x, y) = Xor8(y, x)
    /\ Xor8(x, 0) = x /\ Xor8(x, x) = 0
    /\ \A z \in Octets : Xor8(Xor8(x, y), z) = Xor8(x, Xor8(y, z))
<1> DEFINE h(x) == High(x, 16)
           l(x) == Low(x, 16)
           p(x, y) == Pair(x, y, 16)
<1>1. /\ \A x \in Octets : h(x) \in Nibbles /\ l(x) \in Nibbles /\ p(h(x), l(x)) = x
      /\ \A x, y \in Nibbles : p(x, y) \in Octets /\ h(p(x, y)) = x /\ l(p(x, y)) = y
      /\ 0 \in Nibbles /\ 0 \in Octets /\ p(0, 0) = 0
  BY HalvesOfOctets DEF Halves
<1>2. \A x, y : Xor8(x, y) = p(Xor4(h(x), h(y)), Xor4(l(x), l(y)))
  BY DEF Xor8, High, Low, Pair
<1> HIDE DEF h, l, p
<1>3. h(0) = 0 /\ l(0) = 0
  BY <1>1
<1>4. ASSUME NEW x \in Octets, NEW y \in Octets
      PROVE  /\ Xor8(x, y) \in Octets
             /\ h(Xor8(x, y)) = Xor4(h(x), h(y))
             /\ l(Xor8(x, y)) = Xor4(l(x), l(y))
  BY <1>1, <1>2, Xor4Laws
<1>5. ASSUME NEW x \in Octets, NEW y \in Octets
      PROVE  Xor8(x, y) = Xor8(y, x)
  BY <1>1, <1>2, Xor4Laws
<1>6. ASSUME NEW x \in Octets
      PROVE  Xor8(x, 0) = x /\ Xor8(x, x) = 0
  BY <1>1, <1>2, <1>3, Xor4Laws
<1>7. ASSUME NEW x \in Octets, NEW y \in Octets, NEW z \in Octets
      PROVE  Xor8(Xor8(x, y), z) = Xor8(x, Xor8(y, z))
  <2>1. /\ Xor8(Xor8(x, y), z) = p(Xor4(Xor4(h(x), h(y)), h(z)), Xor4(Xor4(l(x), l(y)), l(z)))
        /\ Xor8(x, Xor8(y, z)) = p(Xor4(h(x), Xor4(h(y), h(z))), Xor4(l(x), Xor4(l(y), l(z))))
    BY <1>2, <1>4
  <2> QED
    BY <1>1, <2>1, Xor4Laws
<1> QED
  BY <1>4, <1>5, <1>6, <1>7

LEMMA XorLaws ==
  \A x, y \in Words :
    /\ Xor(x, y) \in Words
    /\ Xor(x, y) = Xor(y, x)
    /\ Xor(x, 0) = x /\ Xor(x, x) = 0
    /\ \A z \in Words : Xor(Xor(x, y), z) = Xor(x, Xor(y, z))
<1> DEFINE h(x) == High(x, 256)
           l(x) == Low(x, 256)
           p(x, y) == Pair(x, y, 256)
<1>1. /\ \A x \in Words : h(x) \in Octets /\ l(x) \in Octets /\ p(h(x), l(x)) = x
      /\ \A x, y \in Octets : p(x, y) \in Words /\ h(p(x, y)) = x /\ l(p(x, y)) = y
      /\ 0 \in Octets /\ 0 \in Words /\ p(0, 0) = 0
  BY HalvesOfWords DEF Halves
<1>2. \A x, y : Xor(x, y) = p(Xor8(h(x), h(y)), Xor8(l(x), l(y)))
  BY DEF Xor, High, Low, Pair
<1> HIDE DEF h, l, p
<1>3. h(0) = 0 /\ l(0) = 0
  BY <1>1
<1>4. ASSUME NEW x \in Words, NEW y \in Words
      PROVE  /\ Xor(x, y) \in Words
             /\ h(Xor(x, y)) = Xor8(h(x), h(y))
             /\ l(Xor(x, y)) = Xor8(l(x), l(y))
  BY <1>1, <1>2, Xor8Laws
<1>5. ASSUME NEW x \in Words, NEW y \in Words
      PROVE  Xor(x, y) = Xor(y, x)
  BY <1>1, <1>2, Xor8Laws
<1>6. ASSUME NEW x \in Words
      PROVE  Xor(x, 0) = x /\ Xor(x, x) = 0
  BY <1>1, <1>2, <1>3, Xor8Laws
<1>7. ASSUME NEW x \in Words, NEW y \in Words, NEW z \in Words
      PROVE  Xor(Xor(x, y), z) = Xor(x, Xor(y, z))
  <2>1. /\ Xor(Xor(x, y), z) = p(Xor8(Xor8(h(x), h(y)), h(z)), Xor8(Xor8(l(x), l(y)), l(z)))
        /\ Xor(x, Xor(y, z)) = p(Xor8(h(x), Xor8(h(y), h(z))), Xor8(l(x), Xor8(l(y), l(z))))
    BY <1>2, <1>4
  <2> QED
    BY <1>1, <2>1, Xor8Laws
<1> QED
  BY <1>4, <1>5, <1>6, <1>7

Bit == {0, 1}

\* The sum of two bits.
Odd(c, d) == (c + d) % 2

\* The highest bit of a number below 2 * m, and the number shifted up, with c as
\* its lowest bit.
Top(x, m)   == IF x < m THEN 0 ELSE 1
Up(x, c, m) == 2 * x + c - 2 * m * Top(x, m)

\* A number is shifted by shifting its halves, the upper bit of the lower half
\* into the upper half.
LEMMA ShiftOfNibbles ==
  ASSUME NEW x \in Nibbles, NEW c \in Bit
  PROVE  /\ Top(x, 8) \in Bit /\ Up(x, c, 8) \in Nibbles
         /\ Top(x, 8) = Top(High(x, 4), 2)
         /\ High(Up(x, c, 8), 4) = Up(High(x, 4), Top(Low(x, 4), 2), 2)
         /\ Low(Up(x, c, 8), 4) = Up(Low(x, 4), c, 2)
<1> DEFINE h == High(x, 4)
           l == Low(x, 4)
           H == Up(h, Top(l, 2), 2)
           L == Up(l, c, 2)
<1>1. h \in Pairs /\ l \in Pairs /\ x = 4 * h + l
  BY HalvesOfNibbles DEF Halves, Pair
<1> HIDE DEF h, l
<1>2. h \in Nat /\ h <= 3 /\ l \in Nat /\ l <= 3 /\ (c = 0 \/ c = 1)
  BY <1>1 DEF Pairs, Bit
<1>3. x < 8 <=> h < 2
  BY <1>1, <1>2
<1>4. Top(x, 8) = Top(h, 2) /\ Top(x, 8) \in Bit
  BY <1>3 DEF Top, Bit
<1>5. H \in Pairs /\ L \in Pairs
  BY <1>2 DEF Pairs, Up, Top
<1>6. Up(x, c, 8) = 4 * H + L
  BY <1>1, <1>2, <1>3 DEF Up, Top
<1> HIDE DEF H, L
<1>7. Pair(H, L, 4) \in Nibbles /\ High(Pair(H, L, 4), 4) = H /\ Low(Pair(H, L, 4), 4) = L
  BY <1>5, HalvesOfNibbles DEF Halves
<1> QED
  BY <1>4, <1>6, <1>7 DEF Pair, H, L, h, l

LEMMA ShiftOfOctets ==
  ASSUME NEW x \in Octets, NEW c \in Bit
  PROVE  /\ Top(x, 128) \in Bit /\ Up(x, c, 128) \in Octets
         /\ Top(x, 128) = Top(High(x, 16), 8)
         /\ High(Up(x, c, 128), 16) = Up(High(x, 16), Top(Low(x, 16), 8), 8)
         /\ Low(Up(x, c, 128), 16) = Up(Low(x, 16), c, 8)
<1> DEFINE h == High(x, 16)
           l == Low(x, 16)
           H == Up(h, Top(l, 8), 8)
           L == Up(l, c, 8)
<1>1. h \in Nibbles /\ l \in Nibbles /\ x = 16 * h + l
  BY HalvesOfOctets DEF Halves, Pair
<1> HIDE DEF h, l
<1>2. h \in Nat /\ h <= 15 /\ l \in Nat /\ l <= 15 /\ (c = 0 \/ c = 1)
  BY <1>1 DEF Nibbles, Bit
<1>3. x < 128 <=> h < 8
  BY <1>1, <1>2
<1>4. Top(x, 128) = Top(h, 8) /\ Top(x, 128) \in Bit
  BY <1>3 DEF Top, Bit
<1>5. H \in Nibbles /\ L \in Nibbles
  BY <1>2 DEF Nibbles, Up, Top
<1>6. Up(x, c, 128) = 16 * H + L
  BY <1>1, <1>2, <1>3 DEF Up, Top
<1> HIDE DEF H, L
<1>7. Pair(H, L, 16) \in Octets /\ High(Pair(H, L, 16), 16) = H /\ Low(Pair(H, L, 16), 16) = L
  BY <1>5, HalvesOfOctets DEF Halves
<1> QED
  BY <1>4, <1>6, <1>7 DEF Pair, H, L, h, l

LEMMA ShiftOfWords ==
  ASSUME NEW x \in Words, NEW c \in Bit
  PROVE  /\ Top(x, 32768) \in Bit /\ Up(x, c, 32768) \in Words
         /\ Top(x, 32768) = Top(High(x, 256), 128)
         /\ High(Up(x, c, 32768), 256) = Up(High(x, 256), Top(Low(x, 256), 128), 128)
         /\ Low(Up(x, c, 32768), 256) = Up(Low(x, 256), c, 128)
<1> DEFINE h == High(x, 256)
           l == Low(x, 256)
           H == Up(h, Top(l, 128), 128)
           L == Up(l, c, 128)
<1>1. h \in Octets /\ l \in Octets /\ x = 256 * h + l
  BY HalvesOfWords DEF Halves, Pair
<1> HIDE DEF h, l
<1>2. h \in Nat /\ h <= 255 /\ l \in Nat /\ l <= 255 /\ (c = 0 \/ c = 1)
  BY <1>1 DEF Octets, Bit
<1>3. x < 32768 <=> h < 128
  BY <1>1, <1>2
<1>4. Top(x, 32768) = Top(h, 128) /\ Top(x, 32768) \in Bit
  BY <1>3 DEF Top, Bit
<1>5. H \in Octets /\ L \in Octets
  BY <1>2 DEF Octets, Up, Top
<1>6. Up(x, c, 32768) = 256 * H + L
  BY <1>1, <1>2, <1>3 DEF Up, Top
<1> HIDE DEF H, L
<1>7. Pair(H, L, 256) \in Words /\ High(Pair(H, L, 256), 256) = H /\ Low(Pair(H, L, 256), 256) = L
  BY <1>5, HalvesOfWords DEF Halves
<1> QED
  BY <1>4, <1>6, <1>7 DEF Pair, H, L, h, l

\* Shifting a sum shifts what it sums up, and the upper bits add up as well.
LEMMA Xor2Shifts ==
  ASSUME NEW x \in Pairs, NEW y \in Pairs, NEW c \in Bit, NEW d \in Bit
  PROVE  /\ Top(Xor2(x, y), 2) = Odd(Top(x, 2), Top(y, 2))
         /\ Up(Xor2(x, y), Odd(c, d), 2) = Xor2(Up(x, c, 2), Up(y, d, 2))
<1>1. \A n \in Pairs : n = 0 \/ n = 1 \/ n = 2 \/ n = 3
  BY DEF Pairs
<1>2. (c = 0 \/ c = 1) /\ (d = 0 \/ d = 1)
  BY DEF Bit
<1> QED
  BY <1>1, <1>2 DEF Xor2, Top, Up, Odd

LEMMA OddIsBit == \A c, d \in Bit : Odd(c, d) \in Bit
  BY DEF Odd, Bit

LEMMA TopOfPairs == \A x \in Pairs : Top(x, 2) \in Bit
  BY DEF Top, Bit

LEMMA Xor4Shifts ==
  ASSUME NEW x \in Nibbles, NEW y \in Nibbles, NEW c \in Bit, NEW d \in Bit
  PROVE  /\ Top(Xor4(x, y), 8) = Odd(Top(x, 8), Top(y, 8))
         /\ Up(Xor4(x, y), Odd(c, d), 8) = Xor4(Up(x, c, 8), Up(y, d, 8))
<1> DEFINE h(n) == High(n, 4)
           l(n) == Low(n, 4)
           p(i, j) == Pair(i, j, 4)
           t(n) == Top(n, 2)
           u(n, e) == Up(n, e, 2)
           z == Xor4(x, y)
           e == Odd(c, d)
<1>1. \A n \in Nibbles : h(n) \in Pairs /\ l(n) \in Pairs /\ p(h(n), l(n)) = n
  BY HalvesOfNibbles DEF Halves
<1>2. /\ h(z) = Xor2(h(x), h(y)) /\ l(z) = Xor2(l(x), l(y)) /\ z \in Nibbles
      /\ \A i, j : Xor4(i, j) = p(Xor2(h(i), h(j)), Xor2(l(i), l(j)))
  <2>1. \A i, j : Xor4(i, j) = p(Xor2(h(i), h(j)), Xor2(l(i), l(j)))
    BY DEF Xor4, High, Low, Pair
  <2>2. Xor2(h(x), h(y)) \in Pairs /\ Xor2(l(x), l(y)) \in Pairs
    BY <1>1, Xor2Laws
  <2> HIDE DEF h, l
  <2> QED
    BY <2>1, <2>2, HalvesOfNibbles DEF Halves, h, l
<1>3. e \in Bit
  BY OddIsBit
<1> HIDE DEF z, e
<1>4. \A n \in Nibbles, i \in Bit :
        /\ Up(n, i, 8) \in Nibbles /\ Top(n, 8) = t(h(n))
        /\ h(Up(n, i, 8)) = u(h(n), t(l(n))) /\ l(Up(n, i, 8)) = u(l(n), i)
  BY ShiftOfNibbles
<1>5. t(l(x)) \in Bit /\ t(l(y)) \in Bit /\ t(l(z)) = Odd(t(l(x)), t(l(y)))
  <2>1. l(x) \in Pairs /\ l(y) \in Pairs /\ 0 \in Bit
    BY <1>1 DEF Bit
  <2> QED
    BY <1>2, <2>1, TopOfPairs, Xor2Shifts
<1>6. /\ t(h(z)) = Odd(t(h(x)), t(h(y)))
      /\ u(h(z), t(l(z))) = Xor2(u(h(x), t(l(x))), u(h(y), t(l(y))))
  <2>1. h(x) \in Pairs /\ h(y) \in Pairs
    BY <1>1
  <2> QED
    BY <1>2, <1>5, <2>1, Xor2Shifts
<1>7. u(l(z), e) = Xor2(u(l(x), c), u(l(y), d))
  <2>1. l(x) \in Pairs /\ l(y) \in Pairs
    BY <1>1
  <2> QED
    BY <1>2, <2>1, Xor2Shifts DEF e
<1> HIDE DEF h, l, p, t, u
<1>8. Top(z, 8) = Odd(Top(x, 8), Top(y, 8))
  BY <1>2, <1>4, <1>6
<1>9. Up(z, e, 8) = Xor4(Up(x, c, 8), Up(y, d, 8))
  <2>1. Up(z, e, 8) = p(u(h(z), t(l(z))), u(l(z), e))
    BY <1>1, <1>2, <1>3, <1>4
  <2>2. Xor4(Up(x, c, 8), Up(y, d, 8))
          = p(Xor2(u(h(x), t(l(x))), u(h(y), t(l(y)))), Xor2(u(l(x), c), u(l(y), d)))
    BY <1>2, <1>4
  <2> QED
    BY <1>6, <1>7, <2>1, <2>2
<1> QED
  BY <1>8, <1>9 DEF z, e

LEMMA Xor8Shifts ==
  ASSUME NEW x \in Octets, NEW y \in Octets, NEW c \in Bit, NEW d \in Bit
  PROVE  /\ Top(Xor8(x, y), 128) = Odd(Top(x, 128), Top(y, 128))
         /\ Up(Xor8(x, y), Odd(c, d), 128) = Xor8(Up(x, c, 128), Up(y, d, 128))
<1> DEFINE h(n) == High(n, 16)
           l(n) == Low(n, 16)
           p(i, j) == Pair(i, j, 16)
           t(n) == Top(n, 8)
           u(n, e) == Up(n, e, 8)
           z == Xor8(x, y)
           e == Odd(c, d)
<1>1. \A n \in Octets : h(n) \in Nibbles /\ l(n) \in Nibbles /\ p(h(n), l(n)) = n
  BY HalvesOfOctets DEF Halves
<1>2. /\ h(z) = Xor4(h(x), h(y)) /\ l(z) = Xor4(l(x), l(y)) /\ z \in Octets
      /\ \A i, j : Xor8(i, j) = p(Xor4(h(i), h(j)), Xor4(l(i), l(j)))
  <2>1. \A i, j : Xor8(i, j) = p(Xor4(h(i), h(j)), Xor4(l(i), l(j)))
    BY DEF Xor8, High, Low, Pair
  <2>2. Xor4(h(x), h(y)) \in Nibbles /\ Xor4(l(x), l(y)) \in Nibbles
    BY <1>1, Xor4Laws
  <2> HIDE DEF h, l
  <2> QED
    BY <2>1, <2>2, HalvesOfOctets DEF Halves, h, l
<1>3. e \in Bit
  BY OddIsBit
<1> HIDE DEF z, e
<1>4. \A n \in Octets, i \in Bit :
        /\ Up(n, i, 128) \in Octets /\ Top(n, 128) = t(h(n))
        /\ h(Up(n, i, 128)) = u(h(n), t(l(n))) /\ l(Up(n, i, 128)) = u(l(n), i)
  BY ShiftOfOctets
<1>5. t(l(x)) \in Bit /\ t(l(y)) \in Bit /\ t(l(z)) = Odd(t(l(x)), t(l(y)))
  <2>1. l(x) \in Nibbles /\ l(y) \in Nibbles /\ 0 \in Bit
    BY <1>1 DEF Bit
  <2> QED
    BY <1>2, <2>1, ShiftOfNibbles, Xor4Shifts
<1>6. /\ t(h(z)) = Odd(t(h(x)), t(h(y)))
      /\ u(h(z), t(l(z))) = Xor4(u(h(x), t(l(x))), u(h(y), t(l(y))))
  <2>1. h(x) \in Nibbles /\ h(y) \in Nibbles
    BY <1>1
  <2> QED
    BY <1>2, <1>5, <2>1, Xor4Shifts
<1>7. u(l(z), e) = Xor4(u(l(x), c), u(l(y), d))
  <2>1. l(x) \in Nibbles /\ l(y) \in Nibbles
    BY <1>1
  <2> QED
    BY <1>2, <2>1, Xor4Shifts DEF e
<1> HIDE DEF h, l, p, t, u
<1>8. Top(z, 128) = Odd(Top(x, 128), Top(y, 128))
  BY <1>2, <1>4, <1>6
<1>9. Up(z, e, 128) = Xor8(Up(x, c, 128), Up(y, d, 128))
  <2>1. Up(z, e, 128) = p(u(h(z), t(l(z))), u(l(z), e))
    BY <1>1, <1>2, <1>3, <1>4
  <2>2. Xor8(Up(x, c, 128), Up(y, d, 128))
          = p(Xor4(u(h(x), t(l(x))), u(h(y), t(l(y)))), Xor4(u(l(x), c), u(l(y), d)))
    BY <1>2, <1>4
  <2> QED
    BY <1>6, <1>7, <2>1, <2>2
<1> QED
  BY <1>8, <1>9 DEF z, e

LEMMA XorShifts ==
  ASSUME NEW x \in Words, NEW y \in Words, NEW c \in Bit, NEW d \in Bit
  PROVE  /\ Top(Xor(x, y), 32768) = Odd(Top(x, 32768), Top(y, 32768))
         /\ Up(Xor(x, y), Odd(c, d), 32768) = Xor(Up(x, c, 32768), Up(y, d, 32768))
<1> DEFINE h(n) == High(n, 256)
           l(n) == Low(n, 256)
           p(i, j) == Pair(i, j, 256)
           t(n) == Top(n, 128)
           u(n, e) == Up(n, e, 128)
           z == Xor(x, y)
           e == Odd(c, d)
<1>1. \A n \in Words : h(n) \in Octets /\ l(n) \in Octets /\ p(h(n), l(n)) = n
  BY HalvesOfWords DEF Halves
<1>2. /\ h(z) = Xor8(h(x), h(y)) /\ l(z) = Xor8(l(x), l(y)) /\ z \in Words
      /\ \A i, j : Xor(i, j) = p(Xor8(h(i), h(j)), Xor8(l(i), l(j)))
  <2>1. \A i, j : Xor(i, j) = p(Xor8(h(i), h(j)), Xor8(l(i), l(j)))
    BY DEF Xor, High, Low, Pair
  <2>2. Xor8(h(x), h(y)) \in Octets /\ Xor8(l(x), l(y)) \in Octets
    BY <1>1, Xor8Laws
  <2> HIDE DEF h, l
  <2> QED
    BY <2>1, <2>2, HalvesOfWords DEF Halves, h, l
<1>3. e \in Bit
  BY OddIsBit
<1> HIDE DEF z, e
<1>4. \A n \in Words, i \in Bit :
        /\ Up(n, i, 32768) \in Words /\ Top(n, 32768) = t(h(n))
        /\ h(Up(n, i, 32768)) = u(h(n), t(l(n))) /\ l(Up(n, i, 32768)) = u(l(n), i)
  BY ShiftOfWords
<1>5. t(l(x)) \in Bit /\ t(l(y)) \in Bit /\ t(l(z)) = Odd(t(l(x)), t(l(y)))
  <2>1. l(x) \in Octets /\ l(y) \in Octets /\ 0 \in Bit
    BY <1>1 DEF Bit
  <2> QED
    BY <1>2, <2>1, ShiftOfOctets, Xor8Shifts
<1>6. /\ t(h(z)) = Odd(t(h(x)), t(h(y)))
      /\ u(h(z), t(l(z))) = Xor8(u(h(x), t(l(x))), u(h(y), t(l(y))))
  <2>1. h(x) \in Octets /\ h(y) \in Octets
    BY <1>1
  <2> QED
    BY <1>2, <1>5, <2>1, Xor8Shifts
<1>7. u(l(z), e) = Xor8(u(l(x), c), u(l(y), d))
  <2>1. l(x) \in Octets /\ l(y) \in Octets
    BY <1>1
  <2> QED
    BY <1>2, <2>1, Xor8Shifts DEF e
<1> HIDE DEF h, l, p, t, u
<1>8. Top(z, 32768) = Odd(Top(x, 32768), Top(y, 32768))
  BY <1>2, <1>4, <1>6
<1>9. Up(z, e, 32768) = Xor(Up(x, c, 32768), Up(y, d, 32768))
  <2>1. Up(z, e, 32768) = p(u(h(z), t(l(z))), u(l(z), e))
    BY <1>1, <1>2, <1>3, <1>4
  <2>2. Xor(Up(x, c, 32768), Up(y, d, 32768))
          = p(Xor8(u(h(x), t(l(x))), u(h(y), t(l(y)))), Xor8(u(l(x), c), u(l(y), d)))
    BY <1>2, <1>4
  <2> QED
    BY <1>6, <1>7, <2>1, <2>2
<1> QED
  BY <1>8, <1>9 DEF z, e

-----------------------------------------------------------------------------
(* Division by the polynomial, and the table.                              *)

LEMMA WordsAre == \A x \in Words : x \in Nat /\ x < 65536
  BY DEF Words

\* What is left when a number loses its upper bits.
LEMMA Wraps ==
  ASSUME NEW m \in Nat \ {0}, NEW q \in Nat, NEW r \in Nat, r < m, NEW n, n = m * q + r
  PROVE  n % m = r
<1>1. r \in 0 .. m - 1
  OBVIOUS
<1> QED
  BY <1>1, ModExact

\* A step of the division shifts, and adds the polynomial if a bit falls out.
LEMMA ShiftedIs ==
  ASSUME NEW x \in Words
  PROVE  /\ Shifted(x) \in Words
         /\ Shifted(x) = Xor(Up(x, 0, 32768), IF Top(x, 32768) = 1 THEN 4129 ELSE 0)
<1> DEFINE u == Up(x, 0, 32768)
<1>1. u \in Words /\ 0 \in Words /\ 4129 \in Words
  <2>1. 0 \in Bit
    BY DEF Bit
  <2>2. 0 \in Words /\ 4129 \in Words
    BY DEF Words
  <2> QED
    BY <2>1, <2>2, ShiftOfWords
<1>2. CASE x < 32768
  <2>1. Top(x, 32768) = 0 /\ u = x * 2
    BY <1>2, WordsAre DEF Top, Up
  <2>2. Shifted(x) = u
    BY <1>2, <2>1 DEF Shifted
  <2> HIDE DEF u
  <2> QED
    BY <1>1, <2>1, <2>2, XorLaws DEF u
<1>3. CASE ~(x < 32768)
  <2>1. Top(x, 32768) = 1 /\ u = 2 * x - 65536
    BY <1>3, WordsAre DEF Top, Up
  <2>2. (x * 2) % 65536 = u
    <3>1. u \in Nat /\ u < 65536 /\ x * 2 = 65536 * 1 + u
      BY <1>3, <2>1, WordsAre
    <3> HIDE DEF u
    <3> QED
      BY <3>1, Wraps
  <2>3. Shifted(x) = Xor(u, 4129)
    BY <1>3, <2>2 DEF Shifted
  <2> HIDE DEF u
  <2> QED
    BY <1>1, <2>1, <2>3, XorLaws DEF u
<1> QED
  BY <1>2, <1>3

\* The sum of two sums, two by two.
LEMMA Exchange ==
  ASSUME NEW a \in Words, NEW b \in Words, NEW c \in Words, NEW d \in Words
  PROVE  Xor(Xor(a, b), Xor(c, d)) = Xor(Xor(a, c), Xor(b, d))
<1>1. Xor(a, b) \in Words /\ Xor(c, d) \in Words /\ Xor(b, d) \in Words /\ Xor(b, c) \in Words
  BY XorLaws
<1>2. Xor(Xor(a, b), Xor(c, d)) = Xor(a, Xor(b, Xor(c, d)))
  BY <1>1, XorLaws
<1>3. Xor(b, Xor(c, d)) = Xor(Xor(b, c), d) /\ Xor(b, c) = Xor(c, b)
  BY XorLaws
<1>4. Xor(Xor(c, b), d) = Xor(c, Xor(b, d))
  BY XorLaws
<1>5. Xor(a, Xor(c, Xor(b, d))) = Xor(Xor(a, c), Xor(b, d))
  BY <1>1, XorLaws
<1> QED
  BY <1>2, <1>3, <1>4, <1>5

\* The step is linear, and so is any number of them.
LEMMA ShiftedAdds ==
  ASSUME NEW x \in Words, NEW y \in Words
  PROVE  Shifted(Xor(x, y)) = Xor(Shifted(x), Shifted(y))
<1> DEFINE u(n) == Up(n, 0, 32768)
           t(n) == Top(n, 32768)
           q(i) == IF i = 1 THEN 4129 ELSE 0
<1>1. Xor(x, y) \in Words
  BY XorLaws
<1>2. u(Xor(x, y)) = Xor(u(x), u(y)) /\ t(Xor(x, y)) = Odd(t(x), t(y))
  <2>1. 0 \in Bit /\ Odd(0, 0) = 0
    BY DEF Bit, Odd
  <2> QED
    BY <2>1, XorShifts
<1>3. /\ u(x) \in Words /\ u(y) \in Words /\ t(x) \in Bit /\ t(y) \in Bit
  <2>1. 0 \in Bit
    BY DEF Bit
  <2> QED
    BY <2>1, ShiftOfWords
<1>4. 4129 \in Words /\ 0 \in Words
  BY DEF Words
<1>5. \A n \in Words : Shifted(n) = Xor(u(n), q(t(n)))
  BY ShiftedIs
<1> HIDE DEF u, t
<1>6. q(Odd(t(x), t(y))) = Xor(q(t(x)), q(t(y)))
  <2>1. (t(x) = 0 \/ t(x) = 1) /\ (t(y) = 0 \/ t(y) = 1)
    BY <1>3 DEF Bit
  <2>2. Odd(0, 0) = 0 /\ Odd(0, 1) = 1 /\ Odd(1, 0) = 1 /\ Odd(1, 1) = 0
    BY DEF Odd
  <2>3. q(0) = 0 /\ q(1) = 4129
    OBVIOUS
  <2>4. Xor(0, 0) = 0 /\ Xor(0, 4129) = 4129 /\ Xor(4129, 0) = 4129 /\ Xor(4129, 4129) = 0
    BY <1>4, XorLaws
  <2> HIDE DEF q
  <2> QED
    BY <2>1, <2>2, <2>3, <2>4
<1>7. q(t(x)) \in Words /\ q(t(y)) \in Words
  BY <1>4
<1> HIDE DEF q
<1>8. Shifted(Xor(x, y)) = Xor(Xor(u(x), u(y)), Xor(q(t(x)), q(t(y))))
  BY <1>1, <1>2, <1>5, <1>6
<1> QED
  BY <1>3, <1>5, <1>7, <1>8, Exchange

\* The eight steps that divide an octet.
Eight(x) == Shifted(Shifted(Shifted(Shifted(Shifted(Shifted(Shifted(Shifted(x))))))))

LEMMA EightIs ==
  ASSUME NEW x \in Words
  PROVE  Eight(x) \in Words /\ Eight(Shifted(x)) = Shifted(Eight(x))
  BY ShiftedIs DEF Eight

LEMMA EightAdds ==
  ASSUME NEW x \in Words, NEW y \in Words
  PROVE  Eight(Xor(x, y)) = Xor(Eight(x), Eight(y))
<1>1. \A n \in Words : Shifted(n) \in Words
  BY ShiftedIs
<1> DEFINE s(n) == Shifted(n)
           t(n) == s(s(n))
           f(n) == t(t(n))
<1>2. ASSUME NEW i \in Words, NEW j \in Words
      PROVE  t(i) \in Words /\ t(j) \in Words /\ t(Xor(i, j)) = Xor(t(i), t(j))
  BY <1>1, ShiftedAdds
<1> HIDE DEF t
<1>3. ASSUME NEW i \in Words, NEW j \in Words
      PROVE  f(i) \in Words /\ f(j) \in Words /\ f(Xor(i, j)) = Xor(f(i), f(j))
  BY <1>2
<1>4. \A n : Eight(n) = f(f(n))
  BY DEF Eight, t
<1> HIDE DEF f
<1> QED
  BY <1>3, <1>4

\* No bit of the lower octet falls out in eight steps; the lowest of the upper
\* one does in the last.
LEMMA EightOfOctet ==
  ASSUME NEW l \in Octets
  PROVE  Eight(l) = 256 * l
<1>1. l \in Nat /\ l <= 255
  BY DEF Octets
<1>2. \A n \in Nat : n < 32768 => Shifted(n) = 2 * n
  BY DEF Shifted
<1>3. /\ Shifted(l) = 2 * l /\ Shifted(2 * l) = 4 * l
      /\ Shifted(4 * l) = 8 * l /\ Shifted(8 * l) = 16 * l
  BY <1>1, <1>2
<1>4. /\ Shifted(16 * l) = 32 * l /\ Shifted(32 * l) = 64 * l
      /\ Shifted(64 * l) = 128 * l /\ Shifted(128 * l) = 256 * l
  BY <1>1, <1>2
<1> QED
  BY <1>3, <1>4 DEF Eight

LEMMA EightOfOne == Eight(256) = 4129
<1>1. /\ Shifted(256) = 512 /\ Shifted(512) = 1024 /\ Shifted(1024) = 2048 /\ Shifted(2048) = 4096
      /\ Shifted(4096) = 8192 /\ Shifted(8192) = 16384 /\ Shifted(16384) = 32768
  BY DEF Shifted
<1>2. Shifted(32768) = Xor(0, 4129)
  BY DEF Shifted
<1>3. Xor(0, 4129) = 4129
  <2>1. 0 \in Words /\ 4129 \in Words
    BY DEF Words
  <2> QED
    BY <2>1, XorLaws
<1> QED
  BY <1>1, <1>2, <1>3 DEF Eight

\* The polynomial has the bits 1, 2 and 1 in three of its four digits of 4 bits.
Flip1(n) == n + 1 - 2 * (n % 2)
Flip2(n) == n + 2 - 4 * ((n \div 2) % 2)
Flip(n) ==
  Pair(Pair(Flip1(High(High(n, 256), 16)), Low(High(n, 256), 16), 16),
       Pair(Flip2(High(Low(n, 256), 16)), Flip1(Low(Low(n, 256), 16)), 16), 256)

LEMMA FlipsNibble == \A n \in Nibbles : Xor4(n, 1) = Flip1(n) /\ Xor4(n, 2) = Flip2(n)
<1>1. ASSUME NEW a \in 0 .. 3, NEW b \in 0 .. 3
      PROVE  /\ Xor4(4 * a + b, 1) = 4 * a + Xor2(b, 1)
             /\ Xor4(4 * a + b, 2) = 4 * a + Xor2(b, 2)
  <2>1. /\ (4 * a + b) \div 4 = a /\ (4 * a + b) % 4 = b
        /\ 1 \div 4 = 0 /\ 1 % 4 = 1 /\ 2 \div 4 = 0 /\ 2 % 4 = 2
    OBVIOUS
  <2>2. Xor2(a, 0) = a
    BY Xor2Laws DEF Pairs
  <2> QED
    BY <2>1, <2>2, Zenon DEF Xor4
<1>2. \A b \in 0 .. 3 : b = 0 \/ b = 1 \/ b = 2 \/ b = 3
  OBVIOUS
<1>3. ASSUME NEW a \in 0 .. 3, NEW b \in 0 .. 3
      PROVE  4 * a + Xor2(b, 1) = Flip1(4 * a + b) /\ 4 * a + Xor2(b, 2) = Flip2(4 * a + b)
  BY <1>2 DEF Xor2, Flip1, Flip2
<1>4. ASSUME NEW n \in Nibbles
      PROVE  \E a, b \in 0 .. 3 : n = 4 * a + b
  <2>1. High(n, 4) \in 0 .. 3 /\ Low(n, 4) \in 0 .. 3 /\ n = 4 * High(n, 4) + Low(n, 4)
    BY HalvesOfNibbles DEF Halves, Pair, Pairs
  <2> QED
    BY <2>1
<1> QED
  BY <1>1, <1>3, <1>4

LEMMA FlipIs ==
  ASSUME NEW n \in Words
  PROVE  Xor(n, 4129) = Flip(n)
<1>1. /\ High(n, 256) \in Octets /\ Low(n, 256) \in Octets
  BY HalvesOfWords DEF Halves
<1>2. /\ High(High(n, 256), 16) \in Nibbles /\ Low(High(n, 256), 16) \in Nibbles
      /\ High(Low(n, 256), 16) \in Nibbles /\ Low(Low(n, 256), 16) \in Nibbles
  BY <1>1, HalvesOfOctets DEF Halves
<1>3. /\ High(4129, 256) = 16 /\ Low(4129, 256) = 33
      /\ High(16, 16) = 1 /\ Low(16, 16) = 0 /\ High(33, 16) = 2 /\ Low(33, 16) = 1
  BY DEF High, Low
<1>4. \A x, y : Xor(x, y) = Pair(Xor8(High(x, 256), High(y, 256)),
                                 Xor8(Low(x, 256), Low(y, 256)), 256)
  BY DEF Xor, High, Low, Pair
<1>5. \A x, y : Xor8(x, y) = Pair(Xor4(High(x, 16), High(y, 16)), Xor4(Low(x, 16), Low(y, 16)), 16)
  BY DEF Xor8, High, Low, Pair
<1>6. Xor4(Low(High(n, 256), 16), 0) = Low(High(n, 256), 16)
  BY <1>2, Xor4Laws
<1>7. /\ Xor4(High(High(n, 256), 16), 1) = Flip1(High(High(n, 256), 16))
      /\ Xor4(High(Low(n, 256), 16), 2) = Flip2(High(Low(n, 256), 16))
      /\ Xor4(Low(Low(n, 256), 16), 1) = Flip1(Low(Low(n, 256), 16))
  BY <1>2, FlipsNibble
<1>8. Xor8(High(n, 256), 16)
        = Pair(Flip1(High(High(n, 256), 16)), Low(High(n, 256), 16), 16)
  BY <1>3, <1>5, <1>6, <1>7
<1>9. Xor8(Low(n, 256), 33)
        = Pair(Flip2(High(Low(n, 256), 16)), Flip1(Low(Low(n, 256), 16)), 16)
  BY <1>3, <1>5, <1>7
<1> QED
  BY <1>3, <1>4, <1>8, <1>9 DEF Flip

\* Exclusive or of words whose halves are known.
LEMMA XorByHalves ==
  ASSUME NEW x, NEW y, NEW a, NEW b, NEW c, NEW d,
         x \div 256 = a, x % 256 = c, y \div 256 = b, y % 256 = d
  PROVE  Xor(x, y) = 256 * Xor8(a, b) + Xor8(c, d)
  BY Zenon DEF Xor

LEMMA TableStarts == Table[1] = 0
  BY DEF Table

\* Each entry of the table but the first two follows from one before it.
LEMMA TableGrows ==
  ASSUME NEW i \in 0 .. 127
  PROVE  /\ Table[i + 1] \in Words /\ Table[2 * i + 1] \in Words
         /\ Table[2 * i + 1] = Shifted(Table[i + 1])
         /\ Table[2 * i + 2] = Xor(Table[2 * i + 1], 4129)
<1>2. \A k \in 0 .. 255 : Table[k + 1] \in Nat /\ Table[k + 1] <= 65535
  BY DEF Table
<1>3. \A k \in 0 .. 127 : Table[2 * k + 2] = Flip(Table[2 * k + 1])
  BY DEF Table, Flip, Flip1, Flip2, High, Low, Pair
<1>4. \A k \in 0 .. 127 :
        Table[2 * k + 1] = IF Table[k + 1] < 32768 THEN Table[k + 1] * 2
                                                   ELSE Flip(Table[k + 1] * 2 - 65536)
  BY DEF Table, Flip, Flip1, Flip2, High, Low, Pair
<1>5. /\ Table[i + 1] \in Nat /\ Table[i + 1] <= 65535
      /\ Table[2 * i + 1] \in Nat /\ Table[2 * i + 1] <= 65535
  <2>1. i \in 0 .. 255 /\ 2 * i \in 0 .. 255
    OBVIOUS
  <2> QED
    BY <1>2, <2>1
<1>6. Table[i + 1] \in Words /\ Table[2 * i + 1] \in Words
  BY <1>5 DEF Words
<1>7. Table[2 * i + 2] = Xor(Table[2 * i + 1], 4129)
  BY <1>3, <1>6, FlipIs
<1>8. Table[2 * i + 1] = Shifted(Table[i + 1])
  <2> DEFINE t == Table[i + 1]
  <2>1. /\ t \in Nat /\ t <= 65535
        /\ Table[2 * i + 1] = IF t < 32768 THEN t * 2 ELSE Flip(t * 2 - 65536)
    BY <1>4, <1>5
  <2> HIDE DEF t
  <2>2. CASE t < 32768
    BY <2>1, <2>2 DEF Shifted, t
  <2>3. CASE ~(t < 32768)
    <3>1. t * 2 - 65536 \in Nat /\ t * 2 - 65536 < 65536 /\ t * 2 = 65536 * 1 + (t * 2 - 65536)
      BY <2>1, <2>3
    <3>2. (t * 2) % 65536 = t * 2 - 65536
      BY <3>1, Wraps
    <3>3. t * 2 - 65536 \in Words
      BY <2>1, <2>3 DEF Words
    <3>4. Shifted(t) = Flip(t * 2 - 65536)
      BY <2>3, <3>2, <3>3, FlipIs DEF Shifted
    <3> QED
      BY <2>1, <2>3, <3>4 DEF t
  <2> QED
    BY <2>2, <2>3
<1> QED
  BY <1>6, <1>7, <1>8

\* So each is what eight steps make of its index.
LEMMA TableIs == \A j \in Octets : Table[j + 1] = Eight(256 * j)
<1> DEFINE Right(j) == Table[j + 1] = Eight(256 * j)
           S == {n \in Nat : \A j \in Octets : j <= n => Right(j)}
<1>1. Right(0)
  <2>1. 0 \in Octets /\ 256 * 0 = 0 /\ 0 + 1 = 1
    BY DEF Octets
  <2> QED
    BY <2>1, TableStarts, EightOfOctet
<1>2. ASSUME NEW i \in 0 .. 127, Right(i) PROVE Right(2 * i) /\ Right(2 * i + 1)
  <2>1. /\ 256 * i \in Words /\ 256 * i < 32768 /\ 256 * (2 * i) \in Words /\ 256 \in Words
        /\ (256 * i) * 2 = 256 * (2 * i)
    BY DEF Words
  <2>2. Shifted(256 * i) = 256 * (2 * i)
    BY <2>1 DEF Shifted
  <2>3. Eight(256 * (2 * i)) = Table[2 * i + 1]
    BY <1>2, <2>1, <2>2, EightIs, TableGrows
  <2>4. Xor(256 * (2 * i), 256) = 256 * (2 * i + 1)
    <3>1. i \in Octets /\ 0 \in Octets /\ 0 \in Bit /\ 1 \in Bit
      BY DEF Octets, Bit
    <3>2. Up(i, 0, 128) = 2 * i /\ Up(i, 1, 128) = 2 * i + 1 /\ Up(0, 1, 128) = 1 /\ Odd(0, 1) = 1
      BY DEF Up, Top, Odd
    <3>3. Xor8(2 * i, 1) = 2 * i + 1
      BY <3>1, <3>2, Xor8Laws, Xor8Shifts
    <3>4. /\ (256 * (2 * i)) \div 256 = 2 * i /\ (256 * (2 * i)) % 256 = 0
          /\ 256 \div 256 = 1 /\ 256 % 256 = 0
      OBVIOUS
    <3>5. Xor8(0, 0) = 0
      BY <3>1, Xor8Laws
    <3>6. Xor(256 * (2 * i), 256) = 256 * Xor8(2 * i, 1) + Xor8(0, 0)
      BY <3>4, XorByHalves
    <3> QED
      BY <3>3, <3>5, <3>6
  <2>5. Eight(256 * (2 * i + 1)) = Xor(Table[2 * i + 1], 4129)
    BY <2>1, <2>3, <2>4, EightAdds, EightOfOne
  <2>6. Eight(256 * (2 * i + 1)) = Table[2 * i + 2] /\ (2 * i + 1) + 1 = 2 * i + 2
    BY <2>5, TableGrows
  <2> QED
    BY <2>3, <2>6
<1>3. ASSUME NEW n \in Nat, n \in S PROVE n + 1 \in S
  <2> SUFFICES ASSUME NEW j \in Octets, j <= n + 1 PROVE Right(j)
    OBVIOUS
  <2>1. CASE j <= n
    BY <1>3, <2>1
  <2>2. CASE j = n + 1
    <3>1. PICK i \in 0 .. 127 : j = 2 * i \/ j = 2 * i + 1
      <4>1. j \div 2 \in 0 .. 127 /\ (j = 2 * (j \div 2) \/ j = 2 * (j \div 2) + 1)
        BY DEF Octets
      <4> QED
        BY <4>1
    <3>2. i \in Octets /\ i <= n
      BY <2>2, <3>1 DEF Octets
    <3>3. Right(i)
      BY <1>3, <3>2
    <3> HIDE DEF Right
    <3> QED
      BY <1>2, <3>1, <3>3
  <2> QED
    BY <2>1, <2>2 DEF Octets
<1>4. 0 \in S
  <2>1. \A j \in Octets : j <= 0 => j = 0
    BY DEF Octets
  <2> HIDE DEF Right
  <2> QED
    BY <1>1, <2>1
<1> HIDE DEF S
<1>5. \A n \in Nat : n \in S
  BY <1>3, <1>4, Inductive
<1>6. 255 \in S /\ \A j \in Octets : j <= 255
  BY <1>5 DEF Octets
<1> QED
  BY <1>6 DEF S

\* Dividing by the recursive definition is the eight steps.
LEMMA DividedIs ==
  ASSUME NEW crc, NEW octet
  PROVE  Divided(crc, octet) = Eight(Xor(crc, octet * 256))
<1> DEFINE x == Xor(crc, octet * 256)
           Good(f) == f = [n \in 0 .. 8 |-> IF n = 0 THEN x ELSE Shifted(f[n - 1])]
           after == CHOOSE f : Good(f)
           x1 == Shifted(x)  x2 == Shifted(x1)  x3 == Shifted(x2)  x4 == Shifted(x3)
           x5 == Shifted(x4)  x6 == Shifted(x5)  x7 == Shifted(x6)  x8 == Shifted(x7)
           g == [n \in 0 .. 8 |->
                   IF n = 0 THEN x ELSE IF n = 1 THEN x1 ELSE IF n = 2 THEN x2
                   ELSE IF n = 3 THEN x3 ELSE IF n = 4 THEN x4 ELSE IF n = 5 THEN x5
                   ELSE IF n = 6 THEN x6 ELSE IF n = 7 THEN x7 ELSE x8]
<1>1. Divided(crc, octet) = after[8]
  BY DEF Divided
<1>2. /\ x1 = Shifted(x) /\ x2 = Shifted(x1) /\ x3 = Shifted(x2) /\ x4 = Shifted(x3)
      /\ x5 = Shifted(x4) /\ x6 = Shifted(x5) /\ x7 = Shifted(x6) /\ x8 = Shifted(x7)
  OBVIOUS
<1>3. x8 = Eight(x)
  BY DEF Eight
<1> HIDE DEF x, x1, x2, x3, x4, x5, x6, x7, x8
<1>4. Good(g)
  <2> DEFINE h == [n \in 0 .. 8 |-> IF n = 0 THEN x ELSE Shifted(g[n - 1])]
  <2>1. ASSUME NEW n \in 0 .. 8 PROVE g[n] = h[n]
    <3>1. \/ n = 0 \/ n = 1 \/ n = 2 \/ n = 3 \/ n = 4 \/ n = 5 \/ n = 6 \/ n = 7 \/ n = 8
      OBVIOUS
    <3> QED
      BY <1>2, <3>1
  <2> QED
    BY <2>1
<1>5. Good(after)
  <2> HIDE DEF Good
  <2> QED
    BY <1>4
<1>6. \A n \in 0 .. 8 : after[n] = IF n = 0 THEN x ELSE Shifted(after[n - 1])
  BY <1>5
<1> HIDE DEF after, Good
<1>7. /\ after[0] = x /\ after[1] = Shifted(after[0]) /\ after[2] = Shifted(after[1])
      /\ after[3] = Shifted(after[2]) /\ after[4] = Shifted(after[3])
      /\ after[5] = Shifted(after[4]) /\ after[6] = Shifted(after[5])
      /\ after[7] = Shifted(after[6]) /\ after[8] = Shifted(after[7])
  BY <1>6
<1>8. after[8] = x8
  BY <1>2, <1>7, Zenon
<1> QED
  BY <1>1, <1>3, <1>8 DEF x

\* The table driven sum is the remainder of the polynomial division, for every sum
\* and octet.
THEOREM SumsAreRemainders ==
  \A crc \in Words, octet \in Octets : Crc(crc, octet) = Divided(crc, octet)
<1> SUFFICES ASSUME NEW crc \in Words, NEW octet \in Octets
             PROVE  Crc(crc, octet) = Divided(crc, octet)
  OBVIOUS
<1> DEFINE h == High(crc, 256)
           l == Low(crc, 256)
           j == Xor8(h, octet)
<1>1. h \in Octets /\ l \in Octets /\ crc = 256 * h + l /\ 0 \in Octets
  BY HalvesOfWords DEF Halves, Pair
<1>2. j \in Octets
  BY <1>1, Xor8Laws
<1>3. \A n \in Octets : /\ n \div 256 = 0 /\ n % 256 = n /\ 256 * n \in Words /\ n \in Words
                        /\ (256 * n) \div 256 = n /\ (256 * n) % 256 = 0
  BY DEF Octets, Words
<1>4. \A n \in Octets : Xor8(n, 0) = n /\ Xor8(0, n) = n
  BY <1>1, Xor8Laws
<1>5. Xor(h, octet) = j
  <2>1. Xor(h, octet) = 256 * Xor8(0, 0) + Xor8(h, octet)
    <3> HIDE DEF h
    <3>1. h \div 256 = 0 /\ h % 256 = h /\ octet \div 256 = 0 /\ octet % 256 = octet
      BY <1>1, <1>3
    <3> QED
      BY <3>1, Zenon DEF Xor
  <2>2. Xor8(0, 0) = 0
    BY <1>1, <1>4
  <2>3. j \in Nat
    BY <1>2 DEF Octets
  <2> HIDE DEF j
  <2> QED
    BY <2>1, <2>2, <2>3 DEF j
<1>6. (crc * 256) % 65536 = 256 * l
  <2> HIDE DEF h, l
  <2>1. h \in Nat /\ 256 * l \in Nat /\ 256 * l < 65536 /\ crc * 256 = 65536 * h + 256 * l
    BY <1>1 DEF Octets
  <2> QED
    BY <2>1, Wraps
<1>7. Crc(crc, octet) = Xor(256 * l, Table[j + 1])
  <2>1. Crc(crc, octet) = Xor((crc * 256) % 65536, Table[Xor(h, octet) + 1])
    BY DEF Crc, High
  <2> HIDE DEF h, l, j
  <2> QED
    BY <1>5, <1>6, <2>1
<1>8. Xor(crc, octet * 256) = 256 * j + l
  <2>1. octet * 256 = 256 * octet
    BY DEF Octets
  <2>2. (256 * octet) \div 256 = octet /\ (256 * octet) % 256 = 0
    BY <1>3
  <2>3. Xor(crc, 256 * octet) = 256 * Xor8(h, octet) + Xor8(l, 0)
    BY <2>2, Zenon DEF Xor, High, Low
  <2>4. Xor8(l, 0) = l
    BY <1>1, <1>4
  <2> QED
    BY <2>1, <2>3, <2>4, Zenon
<1> HIDE DEF h, l, j
<1>9. Xor(256 * j, l) = 256 * j + l
  <2>1. Xor(256 * j, l) = 256 * Xor8(j, 0) + Xor8(0, l)
    <3>1. (256 * j) \div 256 = j /\ (256 * j) % 256 = 0 /\ l \div 256 = 0 /\ l % 256 = l
      BY <1>1, <1>2, <1>3
    <3> QED
      BY <3>1, Zenon DEF Xor
  <2> QED
    BY <1>1, <1>2, <1>4, <2>1, Zenon
<1>10. Divided(crc, octet) = Xor(Eight(256 * j), Eight(l))
  <2>1. 256 * j \in Words /\ l \in Words
    BY <1>1, <1>2, <1>3
  <2> QED
    BY <1>8, <1>9, <2>1, DividedIs, EightAdds
<1>11. Eight(256 * j) = Table[j + 1] /\ Eight(l) = 256 * l
  BY <1>1, <1>2, TableIs, EightOfOctet
<1>12. Eight(256 * j) \in Words /\ 256 * l \in Words
  <2>1. 256 * j \in Words /\ 256 * l \in Words
    BY <1>1, <1>2, <1>3
  <2> QED
    BY <2>1, EightIs, Zenon
<1> QED
  BY <1>7, <1>10, <1>11, <1>12, XorLaws

\* The sums and octets that the run looks at are among them.
LEMMA PolynomialRemainder == IsPolynomialRemainder
<1>1. {0, 255, 4660, 33043, 65280, 65535} \subseteq Words
  BY DEF Words
<1> QED
  BY <1>1, SumsAreRemainders DEF IsPolynomialRemainder, Octets

\* In every reachable state the sums under which answers are stored are remainders
\* of the polynomial division.
THEOREM IdsDivided == Spec => []IdsAreRemainders
<1>1. IdsAreRemainders
  BY PolynomialRemainder DEF IdsAreRemainders
<1> QED
  BY <1>1, PTL

-----------------------------------------------------------------------------
(* Sums that differ.                                                       *)

\* What is added twice is gone.
LEMMA XorCancels ==
  ASSUME NEW x \in Words, NEW y \in Words, NEW z \in Words, Xor(x, z) = Xor(y, z)
  PROVE  x = y
<1>1. Xor(Xor(x, z), z) = x /\ Xor(Xor(y, z), z) = y
  <2>1. \A n \in Words : Xor(Xor(n, z), z) = Xor(n, Xor(z, z)) /\ Xor(z, z) = 0 /\ Xor(n, 0) = n
    BY XorLaws
  <2> QED
    BY <2>1
<1> QED
  BY <1>1

LEMMA XorIsNothing ==
  ASSUME NEW x \in Words, NEW y \in Words, Xor(x, y) = 0
  PROVE  x = y
<1>1. Xor(y, y) = 0
  BY XorLaws
<1> QED
  BY <1>1, XorCancels

LEMMA Xor8Cancels ==
  ASSUME NEW x \in Octets, NEW y \in Octets, NEW z \in Octets, Xor8(z, x) = Xor8(z, y)
  PROVE  x = y
<1>1. ASSUME NEW n \in Octets PROVE Xor8(Xor8(z, n), z) = n
  <2>1. Xor8(z, n) = Xor8(n, z) /\ Xor8(Xor8(n, z), z) = Xor8(n, Xor8(z, z))
    BY Xor8Laws
  <2>2. Xor8(z, z) = 0 /\ Xor8(n, 0) = n
    BY Xor8Laws
  <2> QED
    BY <2>1, <2>2
<1> QED
  BY <1>1

\* Only nothing is shifted to nothing: the polynomial is odd, and a number that is
\* shifted is even.
LEMMA ShiftedToNothing ==
  ASSUME NEW x \in Words, Shifted(x) = 0
  PROVE  x = 0
<1>1. x \in Nat /\ x < 65536
  BY WordsAre
<1>2. CASE x < 32768
  BY <1>1, <1>2 DEF Shifted
<1>3. CASE ~(x < 32768)
  <2> DEFINE u == x * 2 - 65536
  <2>1. u \in Nat /\ u < 65536 /\ x * 2 = 65536 * 1 + u /\ u = 2 * (x - 32768)
    BY <1>1, <1>3
  <2> HIDE DEF u
  <2>2. (x * 2) % 65536 = u
    BY <2>1, Wraps
  <2>3. u \in Words /\ 4129 \in Words
    BY <2>1 DEF Words
  <2>4. u = 4129
    BY <1>3, <2>2, <2>3, XorIsNothing DEF Shifted
  <2> QED
    BY <1>1, <2>1, <2>4
<1> QED
  BY <1>2, <1>3

\* So different numbers leave different remainders.
LEMMA EightTellsApart ==
  ASSUME NEW x \in Words, NEW y \in Words, Eight(x) = Eight(y)
  PROVE  x = y
<1> DEFINE z == Xor(x, y)
<1>1. z \in Words
  BY XorLaws
<1>2. Eight(z) = 0
  BY EightAdds, EightIs, XorLaws
<1> HIDE DEF z
<1>3. \A n \in Words : Shifted(n) \in Words /\ (Shifted(n) = 0 => n = 0)
  BY ShiftedIs, ShiftedToNothing
<1> DEFINE s(n) == Shifted(n)
           t(n) == s(s(n))
           f(n) == t(t(n))
<1>4. \A n \in Words : t(n) \in Words /\ (t(n) = 0 => n = 0)
  BY <1>3
<1> HIDE DEF t
<1>5. \A n \in Words : f(n) \in Words /\ (f(n) = 0 => n = 0)
  BY <1>4
<1>6. \A n : Eight(n) = f(f(n))
  BY DEF Eight, t
<1> HIDE DEF f
<1>7. z = 0
  BY <1>1, <1>2, <1>5, <1>6
<1> QED
  BY <1>7, XorIsNothing DEF z

LEMMA CrcIs ==
  ASSUME NEW crc \in Words, NEW octet \in Octets
  PROVE  /\ octet * 256 \in Words
         /\ Crc(crc, octet) = Eight(Xor(crc, octet * 256))
         /\ Crc(crc, octet) \in Words
<1>1. octet * 256 \in Words
  BY DEF Octets, Words
<1>2. Crc(crc, octet) = Eight(Xor(crc, octet * 256))
  BY SumsAreRemainders, DividedIs
<1>3. Xor(crc, octet * 256) \in Words
  BY <1>1, XorLaws
<1> QED
  BY <1>1, <1>2, <1>3, EightIs

\* A difference between two sums stays, whatever octet follows.
LEMMA SumsStayApart ==
  ASSUME NEW c \in Words, NEW d \in Words, NEW octet \in Octets, Crc(c, octet) = Crc(d, octet)
  PROVE  c = d
<1>1. /\ octet * 256 \in Words
      /\ Xor(c, octet * 256) \in Words /\ Xor(d, octet * 256) \in Words
  BY CrcIs, XorLaws
<1>2. Xor(c, octet * 256) = Xor(d, octet * 256)
  BY <1>1, CrcIs, EightTellsApart
<1> QED
  BY <1>1, <1>2, XorCancels

\* Two octets after the same sum make a difference.
LEMMA OctetsTellApart ==
  ASSUME NEW crc \in Words, NEW a \in Octets, NEW b \in Octets, Crc(crc, a) = Crc(crc, b)
  PROVE  a = b
<1>1. /\ a * 256 \in Words /\ b * 256 \in Words
      /\ Xor(crc, a * 256) \in Words /\ Xor(crc, b * 256) \in Words
  BY CrcIs, XorLaws
<1>2. Xor(crc, a * 256) = Xor(crc, b * 256)
  BY <1>1, CrcIs, EightTellsApart
<1>3. Xor(a * 256, crc) = Xor(b * 256, crc)
  BY <1>1, <1>2, XorLaws
<1>4. a * 256 = b * 256
  BY <1>1, <1>3, XorCancels
<1> QED
  BY <1>4 DEF Octets

\* No entry of the table but the first has a lower octet without bits.
LEMMA TableHasLowBits ==
  ASSUME NEW k \in Octets, Table[k + 1] % 256 = 0
  PROVE  k = 0
<1>1. \A n \in 0 .. 255 : Table[n + 1] % 256 = 0 => n = 0
  BY DEF Table
<1>2. k \in 0 .. 255
  BY DEF Octets
<1> QED
  BY <1>1, <1>2

\* The lower octet of a sum is that of its terms.
LEMMA LowOfXor ==
  ASSUME NEW x \in Words, NEW y \in Words
  PROVE  Xor(x, y) % 256 = Xor8(x % 256, y % 256)
<1> DEFINE a == x \div 256  b == y \div 256  c == x % 256  d == y % 256
<1>1. a \in Octets /\ b \in Octets /\ c \in Octets /\ d \in Octets
  BY HalvesOfWords DEF Halves, High, Low
<1>2. Xor(x, y) = 256 * Xor8(a, b) + Xor8(c, d)
  BY XorByHalves
<1> HIDE DEF a, b, c, d
<1>3. Xor8(a, b) \in Octets /\ Xor8(c, d) \in Octets
  BY <1>1, Xor8Laws
<1>4. Xor8(a, b) \in Nat /\ Xor8(c, d) \in Nat /\ Xor8(c, d) < 256 /\ 256 \in Nat \ {0}
  BY <1>3 DEF Octets
<1>5. Xor(x, y) % 256 = Xor8(c, d)
  BY <1>2, <1>4, Wraps
<1> QED
  BY <1>5 DEF c, d

LEMMA XorOfUppers ==
  ASSUME NEW a \in Octets, NEW b \in Octets
  PROVE  Xor(a * 256, b * 256) = 256 * Xor8(a, b)
<1>1. \A n \in Octets : (n * 256) \div 256 = n /\ (n * 256) % 256 = 0
  BY DEF Octets
<1>2. Xor(a * 256, b * 256) = 256 * Xor8(a, b) + Xor8(0, 0)
  BY <1>1, XorByHalves
<1>3. Xor8(0, 0) = 0 /\ Xor8(a, b) \in Octets
  <2>1. 0 \in Octets
    BY DEF Octets
  <2> QED
    BY <2>1, Xor8Laws
<1> QED
  BY <1>2, <1>3 DEF Octets

\* Nor can the second of two octets make up for the difference of the first: it
\* changes the upper half of a sum, and the first has changed the lower.
LEMMA PairsTellApart ==
  ASSUME NEW crc \in Words, NEW a \in Octets, NEW b \in Octets, NEW p \in Octets, NEW q \in Octets,
         Crc(Crc(crc, a), b) = Crc(Crc(crc, p), q)
  PROVE  a = p /\ b = q
<1> DEFINE x == Crc(crc, a)
           y == Crc(crc, p)
           k == Xor8(a, p)
<1>1. x \in Words /\ y \in Words /\ k \in Octets
  BY CrcIs, Xor8Laws
<1>2. \A n \in Octets : n * 256 \in Words /\ (n * 256) % 256 = 0
  BY DEF Octets, Words
<1>3. x % 256 = y % 256
  <2>0. Crc(x, b) = Crc(y, q)
    OBVIOUS
  <2> HIDE DEF x, y
  <2>1. Crc(x, b) = Eight(Xor(x, b * 256)) /\ Crc(y, q) = Eight(Xor(y, q * 256))
    BY <1>1, CrcIs
  <2>2. Xor(x, b * 256) \in Words /\ Xor(y, q * 256) \in Words
    BY <1>1, <1>2, XorLaws
  <2>3. Xor(x, b * 256) = Xor(y, q * 256)
    <3>1. Eight(Xor(x, b * 256)) = Eight(Xor(y, q * 256))
      BY <2>0, <2>1
    <3> QED
      BY <2>2, <3>1, EightTellsApart
  <2>4. /\ Xor(x, b * 256) % 256 = Xor8(x % 256, 0)
        /\ Xor(y, q * 256) % 256 = Xor8(y % 256, 0)
    BY <1>1, <1>2, LowOfXor
  <2>5. \A n \in Words : Xor8(n % 256, 0) = n % 256
    BY HalvesOfWords, Xor8Laws DEF Halves, Low
  <2> QED
    BY <1>1, <2>3, <2>4, <2>5
<1>4. Xor(x, y) = Table[k + 1]
  <2> DEFINE A == a * 256
             P == p * 256
  <2>1. A \in Words /\ P \in Words /\ 0 \in Words /\ Xor(crc, crc) = 0
    BY <1>2, XorLaws DEF Words
  <2>2. x = Eight(Xor(crc, A)) /\ y = Eight(Xor(crc, P))
    BY CrcIs
  <2>3. Xor(A, P) = 256 * k
    BY XorOfUppers
  <2> HIDE DEF A, P, x, y, k
  <2>4. Xor(crc, A) \in Words /\ Xor(crc, P) \in Words /\ Xor(A, P) \in Words
    BY <2>1, XorLaws
  <2>5. Xor(Xor(crc, A), Xor(crc, P)) = Xor(Xor(crc, crc), Xor(A, P))
    BY <2>1, Exchange
  <2>6. Xor(0, Xor(A, P)) = Xor(A, P)
    BY <2>1, <2>4, XorLaws
  <2>7. Xor(x, y) = Eight(Xor(A, P))
    BY <2>1, <2>2, <2>4, <2>5, <2>6, EightAdds
  <2> QED
    BY <1>1, <2>3, <2>7, TableIs
<1>5. Xor(x, y) % 256 = 0
  <2> HIDE DEF x, y
  <2>1. Xor(x, y) % 256 = Xor8(x % 256, x % 256)
    BY <1>1, <1>3, LowOfXor
  <2>2. x % 256 \in Octets
    BY <1>1, HalvesOfWords DEF Halves, Low
  <2> QED
    BY <2>1, <2>2, Xor8Laws
<1> HIDE DEF x, y, k
<1>6. k = 0
  BY <1>1, <1>4, <1>5, TableHasLowBits
<1>7. a = p
  <2>1. Xor8(p, a) = 0 /\ Xor8(p, p) = 0
    BY <1>6, Xor8Laws DEF k
  <2> QED
    BY <2>1, Xor8Cancels
<1> QED
  BY <1>1, <1>7, OctetsTellApart DEF x, y

\* The sum over a name, octet by octet.
Sums(f, octets) ==
  /\ f \in [0 .. Len(octets) -> Words] /\ f[0] = 0
  /\ \A n \in 1 .. Len(octets) : f[n] = Crc(f[n - 1], octets[n])

Texts == Seq(Octets)

LEMMA NamesAre ==
  ASSUME NEW octets \in Texts
  PROVE  Len(octets) \in Nat /\ \A n \in 1 .. Len(octets) : octets[n] \in Octets
  BY DEF Texts

LEMMA OfSums ==
  ASSUME NEW octets \in Texts
  PROVE  \E f : Sums(f, octets) /\ Of(octets) = f[Len(octets)]
<1> DEFINE len == Len(octets)
           step == [n \in 1 .. len |-> [c \in Words |-> Crc(c, octets[n])]]
           Good(f) == f = [n \in 0 .. len |-> IF n = 0 THEN 0 ELSE Crc(f[n - 1], octets[n])]
           sum == CHOOSE f : Good(f)
<1>1. len \in Nat /\ \A n \in 1 .. len : octets[n] \in Octets
  BY NamesAre
<1>2. Of(octets) = sum[len]
  BY DEF Of
<1> HIDE DEF len
<1>3. step \in [1 .. len -> [Words -> Words]]
  BY <1>1, CrcIs
<1>4. 0 \in Words
  BY DEF Words
<1>5. PICK g : Recursive(g, Words, 0, len, step)
  <2> HIDE DEF step
  <2> QED
    BY <1>1, <1>3, <1>4, Recursion, Zenon
<1>6. /\ g \in [0 .. len -> Words] /\ g[0] = 0
      /\ \A n \in 1 .. len : g[n] = step[n][g[n - 1]]
  BY <1>5, Zenon DEF Recursive
<1>7. \A n \in 1 .. len : g[n - 1] \in Words /\ g[n] = Crc(g[n - 1], octets[n])
  <2> TAKE n \in 1 .. len
  <2>1. n - 1 \in 0 .. len
    BY <1>1
  <2> QED
    BY <1>6, <2>1
<1> HIDE DEF step
<1>8. Good(g)
  <2> DEFINE h == [n \in 0 .. len |-> IF n = 0 THEN 0 ELSE Crc(g[n - 1], octets[n])]
  <2>1. ASSUME NEW n \in 0 .. len PROVE g[n] = h[n]
    <3>1. n = 0 \/ n \in 1 .. len
      BY <1>1
    <3> QED
      BY <1>6, <1>7, <3>1
  <2> QED
    BY <1>6, <2>1
<1>9. Good(sum)
  <2> HIDE DEF Good
  <2> QED
    BY <1>8
<1>10. sum[0] = 0 /\ \A n \in 1 .. len : sum[n] = Crc(sum[n - 1], octets[n])
  <2> HIDE DEF sum
  <2>1. \A n \in 0 .. len : sum[n] = IF n = 0 THEN 0 ELSE Crc(sum[n - 1], octets[n])
    BY <1>9
  <2> QED
    BY <1>1, <2>1
<1>11. DOMAIN sum = 0 .. len
  <2> HIDE DEF sum
  <2> QED
    BY <1>9
<1> HIDE DEF sum, Good
<1> DEFINE S == {n \in Nat : n <= len => sum[n] \in Words}
<1>12. 0 \in S
  BY <1>4, <1>10
<1>13. ASSUME NEW n \in Nat, n \in S PROVE n + 1 \in S
  <2> SUFFICES ASSUME n + 1 <= len PROVE sum[n + 1] \in Words
    OBVIOUS
  <2>1. n + 1 \in 1 .. len /\ (n + 1) - 1 = n /\ n <= len
    BY <1>1
  <2> QED
    BY <1>1, <1>10, <1>13, <2>1, CrcIs
<1> HIDE DEF S
<1>14. \A n \in Nat : n \in S
  BY <1>12, <1>13, Inductive
<1>15. \A n \in 0 .. len : sum[n] \in Words
  BY <1>1, <1>14 DEF S
<1>16. sum = [n \in 0 .. len |-> sum[n]]
  <2>1. Good(sum)
    BY <1>9
  <2> HIDE DEF sum
  <2> QED
    BY <2>1 DEF Good
<1>17. Sums(sum, octets)
  <2>1. sum \in [0 .. len -> Words]
    BY <1>15, <1>16
  <2> QED
    BY <1>10, <2>1 DEF Sums, len
<1> QED
  BY <1>2, <1>17 DEF len

LEMMA SumsType ==
  ASSUME NEW octets \in Texts, NEW f, Sums(f, octets), NEW n \in 1 .. Len(octets)
  PROVE  /\ n - 1 \in 0 .. Len(octets) /\ f[n - 1] \in Words /\ octets[n] \in Octets
         /\ f[n] = Crc(f[n - 1], octets[n])
<1>1. Len(octets) \in Nat /\ octets[n] \in Octets
  BY NamesAre
<1>2. n - 1 \in 0 .. Len(octets)
  BY <1>1
<1> QED
  BY <1>1, <1>2 DEF Sums

\* The id of a name is what is left when its octets, one after the other, are
\* divided by the polynomial, for every name.
THEOREM IdsAreDivided ==
  \A octets \in Texts : \E f :
    /\ f[0] = 0 /\ Of(octets) = f[Len(octets)]
    /\ \A n \in 1 .. Len(octets) : f[n] = Divided(f[n - 1], octets[n])
<1> TAKE octets \in Texts
<1>1. PICK f : Sums(f, octets) /\ Of(octets) = f[Len(octets)]
  BY OfSums
<1>2. \A n \in 1 .. Len(octets) : f[n] = Divided(f[n - 1], octets[n])
  BY <1>1, SumsType, SumsAreRemainders
<1>3. f[0] = 0
  BY <1>1 DEF Sums
<1> QED
  BY <1>1, <1>2, <1>3

\* Names alike but for two octets side by side have the same sums before them; and
\* after them, if they have the same id.
LEMMA SameBefore ==
  ASSUME NEW s \in Texts, NEW t \in Texts, Len(s) = Len(t), NEW f, Sums(f, s), NEW g, Sums(g, t),
         NEW k \in 1 .. Len(s), \A n \in 1 .. Len(s) : n < k => s[n] = t[n]
  PROVE  f[k - 1] = g[k - 1]
<1> DEFINE S == {n \in Nat : n < k => f[n] = g[n]}
<1>0. Len(s) \in Nat /\ k \in Nat /\ 1 <= k /\ k <= Len(s)
  BY NamesAre
<1>1. 0 \in S
  BY DEF Sums
<1>2. ASSUME NEW n \in Nat, n \in S PROVE n + 1 \in S
  <2> SUFFICES ASSUME n + 1 < k PROVE f[n + 1] = g[n + 1]
    OBVIOUS
  <2>1. n + 1 \in 1 .. Len(s) /\ (n + 1) - 1 = n /\ n < k
    BY <1>0
  <2>2. f[n + 1] = Crc(f[n], s[n + 1]) /\ g[n + 1] = Crc(g[n], t[n + 1])
    BY <2>1, SumsType
  <2> QED
    BY <1>2, <2>1, <2>2
<1> HIDE DEF S
<1>3. \A n \in Nat : n \in S
  BY <1>1, <1>2, Inductive
<1>4. k - 1 \in Nat /\ k - 1 < k
  BY <1>0
<1> QED
  BY <1>3, <1>4 DEF S

LEMMA SameAfter ==
  ASSUME NEW s \in Texts, NEW t \in Texts, Len(s) = Len(t), NEW f, Sums(f, s), NEW g, Sums(g, t),
         f[Len(s)] = g[Len(s)],
         NEW k \in 1 .. Len(s), \A n \in 1 .. Len(s) : k < n => s[n] = t[n]
  PROVE  f[k] = g[k]
<1> DEFINE len == Len(s)
           S == {m \in Nat : k <= len - m => f[len - m] = g[len - m]}
<1>0. len \in Nat /\ k \in Nat /\ 1 <= k /\ k <= len
  BY NamesAre
<1>1. 0 \in S
  BY <1>0
<1>2. ASSUME NEW m \in Nat, m \in S PROVE m + 1 \in S
  <2> DEFINE n == len - m
  <2> SUFFICES ASSUME k <= len - (m + 1) PROVE f[len - (m + 1)] = g[len - (m + 1)]
    OBVIOUS
  <2>1. n \in 1 .. len /\ n - 1 = len - (m + 1) /\ k < n /\ k <= n
    BY <1>0
  <2>2. f[n] = g[n] /\ s[n] = t[n]
    BY <1>2, <2>1
  <2> HIDE DEF n
  <2>3. /\ f[n - 1] \in Words /\ s[n] \in Octets /\ f[n] = Crc(f[n - 1], s[n])
        /\ g[n - 1] \in Words /\ g[n] = Crc(g[n - 1], t[n])
    BY <2>1, SumsType
  <2>4. f[n - 1] = g[n - 1]
    <3>1. Crc(f[n - 1], s[n]) = Crc(g[n - 1], s[n])
      BY <2>2, <2>3
    <3> QED
      BY <2>3, <3>1, SumsStayApart
  <2> QED
    BY <2>1, <2>4
<1> HIDE DEF S
<1>3. \A m \in Nat : m \in S
  BY <1>1, <1>2, Inductive
<1>4. len - k \in Nat /\ k <= len - (len - k) /\ len - (len - k) = k
  BY <1>0
<1> QED
  BY <1>3, <1>4 DEF S

\* Host names of one length that differ in one octet, or in two side by side, never
\* have the same query id, for names of every length.
THEOREM NeighboursDiffer ==
  \A s, t \in Texts : Neighbours(s, t) => Of(s) # Of(t)
<1> SUFFICES ASSUME NEW s \in Texts, NEW t \in Texts, Neighbours(s, t), Of(s) = Of(t)
             PROVE  FALSE
  OBVIOUS
<1> DEFINE len == Len(s)
<1>1. /\ len \in Nat /\ Len(t) = len /\ s # t
      /\ s \in [1 .. len -> Octets] /\ t \in [1 .. len -> Octets]
  BY DEF Neighbours, Texts
<1>2. PICK k \in 1 .. len : \A n \in (1 .. len) \ {k, k + 1} : s[n] = t[n]
  BY DEF Neighbours
<1> HIDE DEF len
<1>3. PICK f : Sums(f, s) /\ Of(s) = f[len]
  BY OfSums DEF len
<1>4. PICK g : Sums(g, t) /\ Of(t) = g[Len(t)]
  BY OfSums
<1>5. PICK n \in 1 .. len : s[n] # t[n]
  BY <1>1
<1>6. /\ k \in Nat /\ 1 <= k /\ k <= len /\ n \in Nat /\ n <= len
      /\ n = k \/ n = k + 1
  <2>1. n \notin (1 .. len) \ {k, k + 1}
    BY <1>2, <1>5
  <2>2. len \in Nat
    BY <1>1
  <2> QED
    BY <2>1, <2>2
<1>7. f[k - 1] = g[k - 1]
  <2>1. \A i \in 1 .. len : i < k => s[i] = t[i]
    BY <1>2
  <2> QED
    BY <1>1, <1>3, <1>4, <2>1, SameBefore DEF len
<1>8. /\ k - 1 \in 0 .. len /\ f[k - 1] \in Words /\ s[k] \in Octets /\ t[k] \in Octets
      /\ f[k] = Crc(f[k - 1], s[k]) /\ g[k] = Crc(f[k - 1], t[k])
  BY <1>1, <1>3, <1>4, <1>7, SumsType DEF len
<1>9. f[len] = g[len]
  BY <1>1, <1>3, <1>4
<1>10. CASE k = len
  <2>1. s[k] = t[k]
    BY <1>8, <1>9, <1>10, OctetsTellApart
  <2>2. n = k
    BY <1>10, <1>6
  <2> QED
    BY <1>5, <2>1, <2>2
<1>11. CASE k # len
  <2> DEFINE e == k + 1
  <2>1. e \in 1 .. len /\ e - 1 = k
    <3>1. len \in Nat
      BY <1>1
    <3> QED
      BY <1>11, <1>6, <3>1
  <2>2. \A i \in 1 .. len : e < i => s[i] = t[i]
    BY <1>2
  <2> HIDE DEF e
  <2>3. f[e] = g[e]
    BY <1>1, <1>3, <1>4, <1>9, <2>1, <2>2, SameAfter DEF len
  <2>4. /\ s[e] \in Octets /\ t[e] \in Octets
        /\ f[e] = Crc(f[k], s[e]) /\ g[e] = Crc(g[k], t[e])
    BY <1>1, <1>3, <1>4, <2>1, SumsType DEF len
  <2>5. Crc(Crc(f[k - 1], s[k]), s[e]) = Crc(Crc(f[k - 1], t[k]), t[e])
    BY <1>8, <2>3, <2>4
  <2>6. s[k] = t[k] /\ s[e] = t[e]
    BY <1>8, <2>4, <2>5, PairsTellApart
  <2>7. n = k \/ n = e
    BY <1>6 DEF e
  <2> QED
    BY <1>5, <2>6, <2>7
<1> QED
  BY <1>10, <1>11

\* So in every reachable state of a client with any names, an answer in the cache is
\* taken for one of the neighbours only.
THEOREM NeighboursApart == Spec => []NeighboursKeptApart
<1>1. TypeOK => NeighboursKeptApart
  <2> SUFFICES ASSUME TypeOK, NEW i \in Places, Live(slots[i]),
                      NEW s \in TakersOf[slots[i].id], NEW t \in TakersOf[slots[i].id],
                      Neighbours(s, t)
               PROVE  FALSE
    BY DEF NeighboursKeptApart
  <2>1. slots[i].id \in Ids
    BY SlotTypes DEF TypeOK, Answers
  <2>2. /\ s \in Lookalikes /\ t \in Lookalikes
        /\ LookalikeIds[s] = slots[i].id /\ LookalikeIds[t] = slots[i].id
    BY <2>1 DEF TakersOf
  <2>3. Of(s) = Of(t)
    BY <2>2 DEF LookalikeIds
  <2>4. \A x \in Lookalikes : x \in Texts
    <3>1. \A l \in Letters : l \in Octets
      BY DEF Letters, Octets
    <3>2. 97 \in Octets /\ 98 \in Octets
      BY DEF Octets
    <3>3. \A a, b, c \in Octets : <<a, b, c>> \in Texts /\ <<a>> \in Texts
      BY DEF Texts
    <3>4. \A a, b \in Letters : /\ <<97, a, b>> \in Texts /\ <<a, b, 98>> \in Texts
                              /\ <<a>> \in Texts
      BY <3>1, <3>2, <3>3
    <3> TAKE x \in Lookalikes
    <3>5. \/ \E a, b \in Letters : x = <<97, a, b>> \/ x = <<a, b, 98>>
          \/ \E a \in Letters : x = <<a>>
      BY DEF Lookalikes
    <3> QED
      BY <3>4, <3>5, Zenon
  <2> QED
    BY <2>2, <2>3, <2>4, NeighboursDiffer
<1> QED
  BY <1>1, TypeCorrect, PTL

=============================================================================
