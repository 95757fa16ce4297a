----------------------------- MODULE DhcpClient -----------------------------
(***************************************************************************)
(* The DHCP client of W5500::Protocols::DHCP (Protocols/DHCP.cpp): one     *)
(* action per path through Client::update(), over the UDP socket it owns   *)
(* on the chip.  DhcpSystem adds the servers, the network and the clock.   *)
(*                                                                         *)
(* Time is kept as ages and remainders.  The code stores absolute          *)
(* millisecond stamps and only ever compares "now - stamp > interval" or   *)
(* "now > deadline", so a stamp is represented by its age, saturated just  *)
(* above the interval it is compared with, and a deadline by the time left *)
(* to it, saturated at -1.  Both comparisons keep their exact value and    *)
(* time can run forever in a finite state space.                           *)
(***************************************************************************)
EXTENDS Integers, Sequences, FiniteSets

CONSTANTS
  Servers,          \* DHCP servers; each leases this client one address,
                    \* which is named by the server that owns it
  None,             \* the address 0.0.0.0
  Broadcast,        \* the address 255.255.255.255
  InitialXids,      \* values bus().random() may return for a transaction id
  XidMod,           \* the width of uint32_t _xid: 2^32
  U32,              \* the width of uint32_t _timer_t1 * 1000: 2^32
  MsPerSec,         \* clock units per second: 1000
  DiscoverInterval, \* discover_broadcast_interval_ms
  RequestRetry,     \* dhcprequest_retry_ms
  RequestTimeout,   \* dhcprequest_timeout_ms
  DefaultLease,     \* default_lease_duration_s
  RecvReasserts,    \* does the chip raise RECV again for data left unread?
                    \* the possible answers, a set of Booleans
  NetCap            \* bound of the model: messages in flight to the servers

ASSUME ServersAssumption ==
  /\ IsFiniteSet(Servers)
  /\ None \notin Servers
  /\ Broadcast \notin Servers
  /\ None # Broadcast

ASSUME XidAssumption ==
  /\ XidMod \in Nat \ {0}
  /\ InitialXids \subseteq 0 .. XidMod - 1

ASSUME TimingAssumption ==
  /\ U32 \in Nat \ {0}
  /\ MsPerSec \in Nat \ {0}
  /\ DiscoverInterval \in Nat
  /\ RequestRetry \in Nat
  /\ RequestTimeout \in Nat
  /\ DefaultLease \in Nat \ {0}

ASSUME ModelAssumption ==
  /\ RecvReasserts \in SUBSET BOOLEAN \ {{}}
  /\ NetCap \in Nat

VARIABLES
  state,   \* _state
  pc,      \* "idle" between calls of update(); "parse" once RECV was cleared
  xids,    \* [first |-> _initial_xid, last |-> _xid]
  lease,   \* [ip |-> _local_ip, server |-> _dhcp_server_ip,
           \*  duration |-> _lease_duration, t1 |-> _timer_t1, t2 |-> _timer_t2]
  timers,  \* ages of the stamps, time left to the deadlines
  open,    \* is the chip's socket in UDP mode (Sn_SR = SOCK_UDP)?
  dest,    \* Sn_DIPR, where the socket sends
  recv,    \* Sn_IR(RECV)
  rx,      \* datagrams in the socket's RX buffer, oldest first
  config,  \* SIPR, the address the chip itself uses
  uplink,   \* messages on their way to a server
  downlink, \* messages on their way to the client
  asked,    \* history: REQUEST sent since the last reset or lease?
  fresh     \* history: was the last random id above every id in transit?

clientVars == <<state, pc, xids, lease, timers>>
chipVars   == <<open, dest, recv, rx, config>>
netVars    == <<uplink, downlink>>
histVars   == <<asked, fresh>>

States == {"START", "DISCOVER", "REQUEST", "LEASED", "RENEW"}

Addresses == Servers \cup {None}

-----------------------------------------------------------------------------
(* Messages.  "cur" is a history field: was the message sent, or does it   *)
(* answer one sent, since the client last left START?                      *)

Destinations == Servers \cup {None, Broadcast}

ClientMessages ==
  [type : {"DISCOVER", "REQUEST"}, xid : 0 .. XidMod - 1, to : Destinations,
   ip : Addresses, server : Addresses, cur : BOOLEAN]

\* "ours" is FALSE for a BOOTP message that is no reply or that carries
\* another host's hardware address.  "lease" 0: no lease time option.
Replies ==
  [type : {"OFFER", "ACK", "NAK"}, xid : 0 .. XidMod - 1, ours : BOOLEAN,
   yiaddr : Addresses, server : Servers, lease : Nat, cur : BOOLEAN]

DiscoverMessage(x, d) ==
  [type |-> "DISCOVER", xid |-> x, to |-> d, ip |-> None, server |-> None,
   cur |-> TRUE]

RequestMessage(x, d, l) ==
  [type |-> "REQUEST", xid |-> x, to |-> d, ip |-> l.ip, server |-> l.server,
   cur |-> TRUE]

\* A message joins those in flight; one of them is lost when the model's bound
\* is reached.
SentWith(before, m) ==
  IF Cardinality(before \cup {m}) <= NetCap
  THEN {before \cup {m}}
  ELSE {(before \ {lost}) \cup {m} : lost \in before}

Outdated(m) == [m EXCEPT !.cur = FALSE]

-----------------------------------------------------------------------------
(* Client::parse_dhcp_response.                                            *)

AcceptedOfAnyHost(m) ==
  /\ xids.first <= m.xid
  /\ m.xid <= xids.last

AcceptedUpToLast(m) ==
  /\ m.ours
  /\ m.xid <= xids.last

\* BOOTREPLY for our MAC with a transaction id of the current attempt.
Accepted(m) ==
  /\ m.ours
  /\ xids.first <= m.xid
  /\ m.xid <= xids.last

ParsedFirstServer(l, m) ==
  [l EXCEPT !.ip       = m.yiaddr,
            !.server   = IF @ = None THEN m.server ELSE @,
            !.duration = IF m.lease = 0 THEN @ ELSE m.lease]

\* The fields are copied before the message type is looked at.
Parsed(l, m) ==
  [l EXCEPT !.ip       = m.yiaddr,
            !.server   = m.server,
            !.duration = IF m.lease = 0 THEN @ ELSE m.lease]

HasReply == rx # <<>> /\ Accepted(Head(rx))

ReplyType  == IF HasReply THEN Head(rx).type ELSE "ERROR"
ReplyLease == IF HasReply THEN Parsed(lease, Head(rx)) ELSE lease

ConsumeOnlyReply ==
  /\ rx' = IF HasReply THEN Tail(rx) ELSE rx
  /\ \E raised \in RecvReasserts : recv' = (recv \/ (raised /\ rx # <<>>))

\* One datagram is read per call.  One that is not accepted takes the whole
\* RX buffer with it: flush() moves the read pointer up to the write pointer.
ConsumeReply ==
  /\ rx' = IF HasReply THEN Tail(rx) ELSE <<>>
  /\ \E raised \in RecvReasserts : recv' = (recv \/ (raised /\ rx # <<>>))

-----------------------------------------------------------------------------
(* State::START.                                                           *)

ResetLeaseKeepsIp == [lease EXCEPT !.server = None, !.duration = 0]

\* reset_current_lease() leaves _timer_t1 and _timer_t2 as they are.
ResetLease ==
  [lease EXCEPT !.ip = None, !.server = None, !.duration = 0]

\* The socket is not ready and init() does not get it into UDP mode.
FsmStartFails ==
  /\ state = "START"
  /\ ~open
  /\ lease' = ResetLease
  /\ config' = ResetLease.ip
  /\ UNCHANGED <<state, pc, xids, timers, open, dest, recv, rx, uplink,
                 downlink, asked, fresh>>

StartDestUnset == dest

\* The destination is only configured together with a newly opened socket.
StartDest == IF open THEN dest ELSE Broadcast

InTransit == uplink \cup downlink \cup {rx[i] : i \in DOMAIN rx}

FsmStart ==
  /\ state = "START"
  /\ lease' = ResetLease
  /\ config' = ResetLease.ip
  /\ open' = TRUE
  /\ dest' = StartDest
  /\ \E x \in InitialXids :
       /\ xids' = [first |-> x, last |-> x]
       /\ fresh' = \A m \in InTransit : m.xid < x
       /\ uplink' \in SentWith({Outdated(m) : m \in uplink},
                               DiscoverMessage(x, StartDest))
  /\ timers' = [timers EXCEPT !.discover = 0]
  /\ state' = "DISCOVER"
  /\ downlink' = {Outdated(m) : m \in downlink}
  /\ rx' = [i \in DOMAIN rx |-> Outdated(rx[i])]
  /\ asked' = FALSE
  /\ UNCHANGED <<pc, recv>>

-----------------------------------------------------------------------------
(* Receiving, common to DISCOVER, REQUEST and RENEW: the flag is read and  *)
(* cleared, then one datagram is parsed; the network may deliver more in   *)
(* between.                                                                *)

TakeRecvFlag ==
  /\ state \in {"DISCOVER", "REQUEST", "RENEW"}
  /\ pc = "idle"
  /\ recv
  /\ recv' = FALSE
  /\ pc' = "parse"
  /\ UNCHANGED <<state, xids, lease, timers, open, dest, rx, config>>
  /\ UNCHANGED <<netVars, histVars>>

\* update() gets to its timers without a reply it acts on: there was no flag,
\* or the datagram that was read (lease'!) is not one this state waits for.
NoUsefulReply(useful) ==
  \/ /\ pc = "idle" /\ ~recv
     /\ UNCHANGED <<pc, lease, rx, recv>>
  \/ /\ pc = "parse" /\ ReplyType \notin useful
     /\ pc' = "idle"
     /\ lease' = ReplyLease
     /\ ConsumeReply

UsefulReply(type) ==
  /\ pc = "parse" /\ ReplyType = type
  /\ pc' = "idle"
  /\ lease' = ReplyLease
  /\ ConsumeReply

-----------------------------------------------------------------------------
(* State::DISCOVER.                                                        *)

\* An offer moves the socket's destination from broadcast to the server.
FsmDiscoverOffer ==
  /\ state = "DISCOVER"
  /\ UsefulReply("OFFER")
  /\ dest' = ReplyLease.server
  /\ uplink' \in SentWith(uplink,
                       RequestMessage(xids.last, dest', ReplyLease))
  /\ asked' = TRUE
  /\ timers' = [timers EXCEPT !.request = 0, !.first = 0]
  /\ state' = "REQUEST"
  /\ UNCHANGED <<xids, open, config, downlink, fresh>>

DiscoverDue == timers.discover > DiscoverInterval

NextXidsUnbounded == [xids EXCEPT !.last = @ + 1]

\* _xid++ is uint32_t arithmetic.
NextXids == [xids EXCEPT !.last = (@ + 1) % XidMod]

FsmDiscoverWait ==
  /\ state = "DISCOVER"
  /\ NoUsefulReply({"OFFER"})
  /\ IF DiscoverDue
     THEN /\ xids' = NextXids
          /\ uplink' \in SentWith(uplink, DiscoverMessage(NextXids.last, dest))
          /\ timers' = [timers EXCEPT !.discover = 0]
     ELSE UNCHANGED <<xids, uplink, timers>>
  /\ UNCHANGED <<state, open, dest, config, downlink, histVars>>

-----------------------------------------------------------------------------
(* State::REQUEST and State::RENEW.                                        *)

Clock(seconds) == (seconds * MsPerSec) % U32

\* The defaults an ACK without lease time, T1 or T2 falls back to.  T1 and T2
\* are never taken from a message: a value, once set, stays.
Bound(l) ==
  LET duration == IF l.duration = 0 THEN DefaultLease ELSE l.duration
  IN  [l EXCEPT !.duration = duration,
                !.t1 = IF @ = 0 THEN duration \div 2 ELSE @,
                !.t2 = IF @ = 0 THEN (duration * 7) \div 8 ELSE @]

FsmRequestAck ==
  /\ state \in {"REQUEST", "RENEW"}
  /\ pc = "parse" /\ ReplyType = "ACK"
  /\ pc' = "idle"
  /\ ConsumeReply
  /\ lease' = Bound(ReplyLease)
  /\ timers' = [timers EXCEPT !.renew  = Clock(lease'.t1),
                              !.rebind = Clock(lease'.t2)]
  /\ config' = lease'.ip
  /\ state' = "LEASED"
  /\ asked' = FALSE
  /\ UNCHANGED <<xids, open, dest, netVars, fresh>>

FsmRequestNak ==
  /\ state \in {"REQUEST", "RENEW"}
  /\ UsefulReply("NAK")
  /\ state' = "START"
  /\ UNCHANGED <<xids, timers, open, dest, config, netVars, histVars>>

RequestDue      == timers.request > RequestRetry
RequestTimedOutSinceLast == timers.request > RequestTimeout
RequestTimedOut          == timers.first > RequestTimeout

\* Both checks are made, in this order; the request names what lease' holds.
FsmRequestWait ==
  /\ state \in {"REQUEST", "RENEW"}
  /\ NoUsefulReply({"ACK", "NAK"})
  /\ IF RequestDue
     THEN /\ uplink' \in SentWith(uplink, RequestMessage(xids.last, dest, lease'))
          /\ timers' = [timers EXCEPT !.request = 0]
          /\ asked' = TRUE
     ELSE UNCHANGED <<uplink, timers, asked>>
  /\ state' = IF RequestTimedOut THEN "START" ELSE state
  /\ UNCHANGED <<xids, open, dest, config, downlink, fresh>>

-----------------------------------------------------------------------------
(* State::LEASED.  Neither the RECV flag nor the socket is looked at.      *)

FsmLeasedRediscover ==
  /\ state = "LEASED"
  /\ timers.rebind < 0
  /\ state' = "DISCOVER"
  /\ UNCHANGED <<pc, xids, lease, timers, chipVars, netVars, histVars>>

FsmLeasedRebind ==
  /\ state = "LEASED"
  /\ timers.rebind < 0
  /\ state' = "START"
  /\ UNCHANGED <<pc, xids, lease, timers, chipVars, netVars, histVars>>

FsmLeasedRenew ==
  /\ state = "LEASED"
  /\ timers.rebind >= 0
  /\ timers.renew < 0
  /\ state' = "RENEW"
  /\ UNCHANGED <<pc, xids, lease, timers, chipVars, netVars, histVars>>

-----------------------------------------------------------------------------

ClientInit ==
  /\ state = "START" /\ pc = "idle"
  /\ xids = [first |-> 0, last |-> 0]
  /\ lease = [ip |-> None, server |-> None,
              duration |-> 0, t1 |-> 0, t2 |-> 0]
  /\ timers = [discover |-> DiscoverInterval + 1, request |-> RequestRetry + 1,
               first |-> RequestTimeout + 1, renew |-> -1, rebind |-> -1]
  /\ open = FALSE /\ dest = None /\ recv = FALSE /\ rx = <<>>
  /\ config = None
  /\ uplink = {} /\ downlink = {}
  /\ asked = FALSE /\ fresh = TRUE

\* One call of Client::update(), or its first half up to the cleared flag.
Update ==
  \/ FsmStartFails
  \/ FsmStart
  \/ TakeRecvFlag
  \/ FsmDiscoverOffer
  \/ FsmDiscoverWait
  \/ FsmRequestAck
  \/ FsmRequestNak
  \/ FsmRequestWait
  \/ FsmLeasedRebind
  \/ FsmLeasedRenew

=============================================================================
