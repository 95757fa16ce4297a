------------------------------- MODULE TcpProofs -------------------------------
(***************************************************************************)
(* Proofs about TcpConnection for every backoff and every width of the     *)
(* port counter.                                                           *)
(***************************************************************************)
EXTENDS TcpConnection, TLAPS

\* The steps of check_connection() that leave flags and history alone.
Looking ==
  \/ CheckLink \/ CheckStillConnected \/ SkipConnect
  \/ CheckConnected \/ CheckReady \/ OpensNot \/ CheckOpened \/ CheckConnecting

Closing == CloseOnLinkDown \/ CloseOnDisconnect \/ CloseOnTimeout \/ GiveUp

LEMMA NextSplit ==
  ASSUME Next
  PROVE  \/ Looking \/ Closing \/ ReadFlags \/ HandleConnect
         \/ ClearDisconnect \/ ClearTimeout \/ Opens \/ Dial
         \/ Establish \/ LinkUp \/ LinkDown \/ HalfClose
         \/ Drop("DISCONNECT") \/ Drop("TIMEOUT") \/ ChipReset \/ Tick
  BY DEF Next, CheckConnection, Disturbance, Looking, Closing, OpenFails, OpenIgnored

LEMMA LookingChanges ==
  ASSUME Looking
  PROVE  /\ UNCHANGED <<link, status, flags, age, port, unannounced>>
         /\ pc' \in Steps
         /\ seen' \in {seen, {}}
         /\ pc = "connect" => "CONNECT" \notin seen
         /\ pc' # "connect"
  BY DEF Looking, CheckLink, CheckStillConnected, SkipConnect, CheckConnected,
     CheckReady, OpensNot, CheckOpened, CheckConnecting, Decide, GoTo, Steps

LEMMA ClosingChanges ==
  ASSUME Closing
  PROVE  /\ UNCHANGED <<link, flags, age, port, unannounced>>
         /\ status' \in {status, "CLOSED"}
         /\ pc' \in Steps
         /\ seen' \in {seen, {}}
         /\ pc # "connect" /\ pc' # "connect"
  BY DEF Closing, CloseOnLinkDown, CloseOnDisconnect, CloseOnTimeout, GiveUp,
     CloseOnFlag, CloseAt, Decide, GoTo, Steps

LEMMA ClearChanges ==
  ASSUME ClearDisconnect \/ ClearTimeout
  PROVE  /\ UNCHANGED <<link, status, age, port, unannounced>>
         /\ flags' \subseteq flags
         /\ "CONNECT" \in flags' <=> "CONNECT" \in flags
         /\ pc' \in Steps
         /\ seen' \in {seen, {}}
         /\ pc # "connect" /\ pc' # "connect"
  BY DEF ClearDisconnect, ClearTimeout, ClearFlag, GoTo, Steps

-----------------------------------------------------------------------------

\* The port stays within its 16 bits, whatever happens.
THEOREM TypeCorrect == Spec => []TypeOK
<1>1. Init => TypeOK
  <2> SUFFICES ASSUME Init PROVE TypeOK
    OBVIOUS
  <2>1. port \in 0 .. PortMod - 1
    BY BackoffAssumption DEF Init
  <2>2. link \in BOOLEAN /\ unannounced \in BOOLEAN /\ age \in 0 .. MaxAge
    BY DEF Init
  <2>3. status \in Statuses /\ pc \in Steps
    BY DEF Init, Statuses, Steps
  <2>4. flags \subseteq Flags /\ seen \subseteq Flags
    BY DEF Init
  <2> QED
    BY <2>1, <2>2, <2>3, <2>4 DEF TypeOK
<1>2. TypeOK /\ [Next]_vars => TypeOK'
  <2> SUFFICES ASSUME TypeOK, [Next]_vars PROVE TypeOK'
    OBVIOUS
  <2> USE DEF TypeOK, Statuses, Flags
  <2>1. CASE Looking
    BY <2>1, LookingChanges
  <2>2. CASE Closing
    BY <2>2, ClosingChanges
  <2>3. CASE ReadFlags
    BY <2>3 DEF ReadFlags, chipVars, Steps
  <2>4. CASE HandleConnect
    BY <2>4 DEF HandleConnect, GoTo, Steps
  <2>5. CASE ClearDisconnect \/ ClearTimeout
    BY <2>5, ClearChanges
  <2>6. CASE Opens
    BY <2>6 DEF Opens, GoTo, Steps
  <2>7. CASE Dial
    <3>1. (port + 1) % PortMod \in 0 .. PortMod - 1
      BY BackoffAssumption
    <3>2. 0 \in 0 .. MaxAge
      BY BackoffAssumption
    <3> QED
      BY <2>7, <3>1, <3>2 DEF Dial, Steps
  <2>8. CASE Establish \/ HalfClose \/ Drop("DISCONNECT") \/ Drop("TIMEOUT")
    BY <2>8 DEF Establish, HalfClose, Drop, loopVars
  <2>9. CASE LinkUp \/ LinkDown \/ ChipReset
    BY <2>9 DEF LinkUp, LinkDown, ChipReset, loopVars
  <2>10. CASE Tick
    <3>1. age' \in 0 .. MaxAge
      BY <2>10, BackoffAssumption DEF Tick
    <3> QED
      BY <2>10, <3>1 DEF Tick, chipVars
  <2>11. CASE UNCHANGED vars
    BY <2>11 DEF vars, chipVars, loopVars
  <2> QED
    BY <2>1, <2>2, <2>3, <2>4, <2>5, <2>6, <2>7, <2>8, <2>9, <2>10, <2>11, NextSplit
<1> QED
  BY <1>1, <1>2, PTL DEF Spec

-----------------------------------------------------------------------------
(* Both directions between the CONNECT flag, or the loop's copy of it, and *)
(* a connection that has not been announced.                               *)

Pending == "CONNECT" \in flags \/ (pc = "connect" /\ "CONNECT" \in seen)

OnlyOnce == Pending => unannounced

AnnouncementInv == ConnectionIsAnnounced /\ OnlyOnce

LEMMA AnnouncementInductive ==
  ASSUME AnnouncementInv, [Next]_vars
  PROVE  AnnouncementInv'
<1> USE DEF AnnouncementInv, ConnectionIsAnnounced, OnlyOnce, Pending
<1>1. CASE Looking
  BY <1>1, LookingChanges
<1>2. CASE Closing
  BY <1>2, ClosingChanges
<1>3. CASE ReadFlags
  BY <1>3 DEF ReadFlags, chipVars
<1>4. CASE HandleConnect
  BY <1>4 DEF HandleConnect, GoTo
<1>5. CASE ClearDisconnect \/ ClearTimeout
  BY <1>5, ClearChanges
<1>6. CASE Opens
  BY <1>6 DEF Opens, GoTo
<1>7. CASE Dial
  BY <1>7 DEF Dial
<1>8. CASE Establish
  BY <1>8 DEF Establish, loopVars
<1>9. CASE HalfClose \/ Drop("DISCONNECT") \/ Drop("TIMEOUT")
  BY <1>9 DEF HalfClose, Drop, loopVars
<1>10. CASE LinkUp \/ LinkDown \/ ChipReset
  BY <1>10 DEF LinkUp, LinkDown, ChipReset, loopVars
<1>11. CASE Tick
  BY <1>11 DEF Tick, chipVars
<1>12. CASE UNCHANGED vars
  BY <1>12 DEF vars, chipVars, loopVars
<1> QED
  BY <1>1, <1>2, <1>3, <1>4, <1>5, <1>6, <1>7, <1>8, <1>9, <1>10, <1>11, <1>12,
     NextSplit

LEMMA AnnouncementInvariant == Spec => []AnnouncementInv
<1>1. Init => AnnouncementInv
  BY DEF Init, AnnouncementInv, ConnectionIsAnnounced, OnlyOnce, Pending
<1> QED
  BY <1>1, AnnouncementInductive, PTL DEF Spec

\* No connection escapes handle_connect(), although its flag is read, kept and
\* cleared in separate transactions while the chip raises flags.
THEOREM NoConnectionMissed == Spec => []ConnectionIsAnnounced
  BY AnnouncementInvariant, PTL DEF AnnouncementInv

\* No connection is announced twice.
THEOREM NoConnectionTwice == Spec => AnnouncedOnce
<1>1. AnnouncementInv /\ [Next]_vars => [HandleConnect => unannounced]_vars
  BY DEF AnnouncementInv, OnlyOnce, Pending, HandleConnect
<1> QED
  BY <1>1, AnnouncementInvariant, PTL DEF Spec, AnnouncedOnce

=============================================================================
