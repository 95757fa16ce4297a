----------------------------- MODULE NtpClient -----------------------------
(***************************************************************************)
(* The NTP client of W5500::Protocols::NTP (Protocols/NTP.cpp) on the      *)
(* datagram queue that UdpReceive provides.  NtpTime is what it makes of a *)
(* packet's time stamp, of which the state keeps only whether one was      *)
(* reported.  update() is split where the network can get in: between      *)
(* taking the RECV flag, parsing each packet, and looking at the timers.   *)
(*                                                                         *)
(* The stamps of the code are kept as ages, saturated just above the       *)
(* longest interval they are compared with.                                *)
(***************************************************************************)
EXTENDS NtpTime, Sequences

CONSTANTS
  Servers,         \* addresses set_server_ip() may be given
  Polls,           \* poll exponents (buffer[2]) that servers send
  UnlockedPoll,    \* the initial _poll_interval: 1
  Interval(_),     \* (1 << poll) * 1000, in units of the clock
  RequestInterval, \* request_interval_ms: 30000
  MaxAge,          \* bound of the model: ages are not told apart beyond it
  RxCap            \* datagrams that fit into the socket's RX buffer

AllPolls == Polls \cup {UnlockedPoll}

ASSUME IntervalAssumption ==
  /\ RequestInterval \in Nat /\ MaxAge \in Nat /\ RequestInterval < MaxAge
  /\ \A p \in AllPolls : Interval(p) \in Nat /\ Interval(p) < MaxAge
  /\ RxCap \in Nat

VARIABLES
  server,   \* _ip
  lastRequest, lastResponse, \* ages of _last_ntp_request, _last_ntp_response
  poll,     \* _poll_interval
  pc,       \* where in update() the client is
  parsed,   \* parsed_valid_packet
  result,   \* what the last call of update() returned
  timeSet,  \* history: did the call in progress, or else the last one, write
            \* *current_time_ms?
  open,     \* is the chip's socket in UDP mode?
  dest,     \* Sn_DIPR
  recv,     \* Sn_IR(RECV)
  rx        \* packets in the RX buffer, oldest first

clientVars == <<server, lastRequest, lastResponse, poll, pc, parsed, result, timeSet>>
chipVars   == <<open, dest, recv, rx>>
vars       == <<clientVars, chipVars>>

\* A packet of more than ntp_packet_size bytes carries no time for the client.
Packets == [oversize : BOOLEAN, poll : Polls]

-----------------------------------------------------------------------------
(* Client::update.                                                         *)

\* The socket is not ready and init() does not open it.
UpdateFails ==
  /\ pc = "idle" /\ ~open
  /\ result' = FALSE /\ timeSet' = FALSE
  /\ UNCHANGED <<server, lastRequest, lastResponse, poll, pc, parsed, chipVars>>

TakeFlag ==
  /\ recv' = FALSE
  /\ pc' = IF recv THEN "parse" ELSE "timers"

UpdateReopensBlindly ==
  /\ pc = "idle"
  /\ open' = TRUE
  /\ TakeFlag
  /\ parsed' = FALSE /\ timeSet' = FALSE
  /\ UNCHANGED <<server, lastRequest, lastResponse, poll, result, dest, rx>>

\* A socket that was not open is opened and configured first.
UpdateBegin ==
  /\ pc = "idle"
  /\ open' = TRUE
  /\ dest' = IF open THEN dest ELSE server
  /\ TakeFlag
  /\ parsed' = FALSE /\ timeSet' = FALSE
  /\ UNCHANGED <<server, lastRequest, lastResponse, poll, result, rx>>

ParseOnePacket ==
  /\ pc = "parse"
  /\ pc' = "timers"
  /\ rx' = IF rx = <<>> THEN rx ELSE Tail(rx)
  /\ parsed' = (rx # <<>>)
  /\ UNCHANGED <<server, lastRequest, lastResponse, poll, result, timeSet, open, dest, recv>>

ParseIntervalForExponent ==
  /\ pc = "parse" /\ rx # <<>> /\ ~Head(rx).oversize
  /\ rx' = Tail(rx)
  /\ parsed' = TRUE /\ timeSet' = TRUE
  /\ lastResponse' = 0 /\ poll' = Interval(Head(rx).poll)
  /\ UNCHANGED <<server, lastRequest, pc, result, open, dest, recv>>

ParsePacketLastDecides ==
  /\ pc = "parse"
  /\ IF rx = <<>>
     THEN pc' = "timers" /\ UNCHANGED <<lastResponse, poll, parsed, timeSet, rx>>
     ELSE /\ pc' = pc
          /\ rx' = Tail(rx)
          /\ parsed' = ~Head(rx).oversize
          /\ IF Head(rx).oversize
             THEN UNCHANGED <<lastResponse, poll, timeSet>>
             ELSE lastResponse' = 0 /\ poll' = Head(rx).poll /\ timeSet' = TRUE
  /\ UNCHANGED <<server, lastRequest, result, open, dest, recv>>

\* One round of while (parse_packet(...)).
ParsePacket ==
  /\ pc = "parse"
  /\ IF rx = <<>>
     THEN pc' = "timers" /\ UNCHANGED <<lastResponse, poll, parsed, timeSet, rx>>
     ELSE /\ pc' = pc
          /\ rx' = Tail(rx)
          /\ parsed' = TRUE
          /\ IF Head(rx).oversize
             THEN UNCHANGED <<lastResponse, poll, timeSet>>
             ELSE lastResponse' = 0 /\ poll' = Head(rx).poll /\ timeSet' = TRUE
  /\ UNCHANGED <<server, lastRequest, result, open, dest, recv>>

PollDueSwapped == lastResponse > Interval(poll) /\ lastRequest < RequestInterval

\* Neither locked recently nor asked recently.
PollDue == lastResponse > Interval(poll) /\ lastRequest > RequestInterval

UpdateEnd ==
  /\ pc = "timers"
  /\ lastRequest' = IF PollDue THEN 0 ELSE lastRequest
  /\ result' = parsed
  /\ pc' = "idle"
  /\ UNCHANGED <<server, lastResponse, poll, parsed, timeSet, chipVars>>

-----------------------------------------------------------------------------
(* The application, the network and the clock.                             *)

SetServerIp(s) ==
  /\ pc = "idle"
  /\ server' = s
  /\ dest' = IF open THEN s ELSE dest
  /\ UNCHANGED <<lastRequest, lastResponse, poll, pc, parsed, result, timeSet,
                 open, recv, rx>>

\* Socket::close, or a reset of the chip.
Close ==
  /\ pc = "idle" /\ open
  /\ open' = FALSE /\ rx' = <<>>
  /\ recv' \in {recv, FALSE}
  /\ UNCHANGED <<clientVars, dest>>

Arrive(packet) ==
  /\ open /\ Len(rx) < RxCap
  /\ rx' = Append(rx, packet)
  /\ recv' = TRUE
  /\ UNCHANGED <<clientVars, open, dest>>

Older(age) == IF age < MaxAge THEN age + 1 ELSE age

Tick ==
  /\ lastRequest' = Older(lastRequest)
  /\ lastResponse' = Older(lastResponse)
  /\ UNCHANGED <<server, poll, pc, parsed, result, timeSet, chipVars>>

-----------------------------------------------------------------------------

\* Both stamps are 0, so their age is the time since the clock started.
Init ==
  /\ server \in Servers
  /\ lastRequest \in 0 .. MaxAge /\ lastResponse = lastRequest
  /\ poll = UnlockedPoll
  /\ pc = "idle" /\ parsed = FALSE /\ result = FALSE /\ timeSet = FALSE
  /\ open = FALSE /\ dest = server /\ recv = FALSE /\ rx = <<>>

Update == UpdateFails \/ UpdateBegin \/ ParsePacket \/ UpdateEnd

Arrival == \E packet \in Packets : Arrive(packet)

Next ==
  \/ Update
  \/ \E s \in Servers : SetServerIp(s)
  \/ Close
  \/ Arrival
  \/ Tick

Spec == Init /\ [][Next]_vars

\* The application calls update() again and again (README.md:97), a call
\* comes to its end unless packets keep coming, a socket that is opened again
\* and again opens, and time passes.
LiveSpec ==
  /\ Spec
  /\ WF_vars(UpdateBegin) /\ WF_vars(ParsePacket) /\ WF_vars(UpdateEnd)
  /\ WF_vars(Tick)

-----------------------------------------------------------------------------
(* Correctness.                                                            *)

\* Every variable keeps its type.
TypeOK ==
  /\ server \in Servers /\ dest \in Servers
  /\ lastRequest \in 0 .. MaxAge /\ lastResponse \in 0 .. MaxAge
  /\ poll \in AllPolls
  /\ pc \in {"idle", "parse", "timers"}
  /\ parsed \in BOOLEAN /\ result \in BOOLEAN /\ timeSet \in BOOLEAN
  /\ open \in BOOLEAN /\ recv \in BOOLEAN
  /\ rx \in Seq(Packets) /\ Len(rx) <= RxCap

\* No packet is left behind unseen: outside update() a packet in the buffer
\* always has its RECV flag up, even if it arrived between two steps of the
\* call that cleared the flag.
NoLostWakeup == pc = "idle" /\ rx # <<>> => recv

\* Whatever the order of set_server_ip(), close() and update(), requests go to
\* the server that was set last.
AsksConfiguredServer == pc # "idle" => dest = server

\* A client that hears nothing keeps asking.
AsksAgain == <>[][~Arrival]_vars => []<>(lastRequest = 0)

\* A call of update() that sets the time says so, whatever was parsed after the
\* packet that set it.  (The converse does not hold: a packet that is thrown
\* away counts as parsed.)
TimeIsReported == pc = "idle" /\ timeSet => result

\* The time that update() reports is the one the server's stamp stands for, in
\* either era of NTP, and never runs backwards from one stamp to the next.
ReportedTimeIsSound == timeSet => SecondsAreExact /\ TimeKeepsOrder

=============================================================================
