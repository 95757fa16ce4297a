----------------------------- MODULE DhcpSystem -----------------------------
(***************************************************************************)
(* The DHCP client with what surrounds it: the servers, a network that     *)
(* loses, delays and reorders, other hosts whose replies are broadcast     *)
(* too, and the clock.                                                     *)
(***************************************************************************)
EXTENDS DhcpClient

CONSTANTS
  LeaseTimes,     \* lease times a server may grant; 0: the option is left out
  ForeignTraffic, \* are replies to other hosts broadcast on this network?
  RxCap,          \* datagrams that fit into the socket's RX buffer
  DownCap         \* bound of the model: messages in flight to the client

ASSUME SystemAssumption ==
  /\ LeaseTimes \subseteq Nat
  /\ ForeignTraffic \in BOOLEAN
  /\ RxCap \in Nat
  /\ DownCap \in Nat

VARIABLE
  granted  \* history: the addresses some server has acknowledged

vars == <<clientVars, chipVars, netVars, histVars, granted>>

-----------------------------------------------------------------------------
(* The servers.                                                            *)

Reply(type, s, m, l) ==
  [type |-> type, xid |-> m.xid, ours |-> TRUE,
   yiaddr |-> IF type = "NAK" THEN None ELSE s,
   server |-> s,
   lease  |-> IF type = "NAK" THEN 0 ELSE l,
   cur    |-> m.cur]

\* A message stays in flight until it is lost, so a server may get it, and
\* answer it, more than once.
ServerAnswers(s, request, type) ==
  \E m \in uplink, l \in LeaseTimes :
    /\ m.type = request /\ m.to \in {s, Broadcast}
    /\ request = "REQUEST" => m.server = s
    /\ type = "ACK" => m.ip = s
    /\ Cardinality(downlink) < DownCap
    /\ downlink' = downlink \cup {Reply(type, s, m, l)}
    /\ UNCHANGED <<clientVars, chipVars, uplink, histVars>>

ServerOffer(s) == ServerAnswers(s, "DISCOVER", "OFFER") /\ UNCHANGED granted

ServerAck(s) ==
  /\ ServerAnswers(s, "REQUEST", "ACK")
  /\ granted' = granted \cup {s}

ServerNak(s) == ServerAnswers(s, "REQUEST", "NAK") /\ UNCHANGED granted

-----------------------------------------------------------------------------
(* The network and the chip's receive side.                                *)

\* The chip stores a datagram for an open socket and raises RECV; one that
\* does not fit is dropped.
Receive(m) ==
  IF open /\ Len(rx) < RxCap
  THEN rx' = Append(rx, m) /\ recv' = TRUE
  ELSE UNCHANGED <<rx, recv>>

Deliver ==
  \E m \in downlink :
    /\ downlink' = downlink \ {m}
    /\ Receive(m)
    /\ UNCHANGED <<clientVars, open, dest, config, uplink, histVars, granted>>

ForeignReply(s) ==
  [type |-> "ACK", xid |-> 0, ours |-> FALSE, yiaddr |-> s, server |-> s,
   lease |-> 0, cur |-> FALSE]

DeliverForeign ==
  /\ ForeignTraffic
  /\ open /\ Len(rx) < RxCap
  /\ \E s \in Servers : Receive(ForeignReply(s))
  /\ UNCHANGED <<clientVars, open, dest, config, netVars, histVars, granted>>

Lose ==
  /\ \E m \in uplink \cup downlink :
       /\ uplink' = uplink \ {m}
       /\ downlink' = downlink \ {m}
  /\ UNCHANGED <<clientVars, chipVars, histVars, granted>>

-----------------------------------------------------------------------------
(* The clock.                                                              *)

Older(age, interval) == IF age > interval THEN age ELSE age + 1

Nearer(left) == IF left < 0 THEN left ELSE left - 1

Tick ==
  /\ timers' = [discover |-> Older(timers.discover, DiscoverInterval),
                request  |-> Older(timers.request, RequestRetry),
                first    |-> Older(timers.first, RequestTimeout),
                renew    |-> Nearer(timers.renew),
                rebind   |-> Nearer(timers.rebind)]
  /\ UNCHANGED <<state, pc, xids, lease, chipVars, netVars, histVars, granted>>

-----------------------------------------------------------------------------

Init == ClientInit /\ granted = {}

ClientStep == Update /\ UNCHANGED granted

Next ==
  \/ ClientStep
  \/ \E s \in Servers : ServerOffer(s) \/ ServerAck(s) \/ ServerNak(s)
  \/ Deliver
  \/ DeliverForeign
  \/ Lose
  \/ Tick

Spec == Init /\ [][Next]_vars

-----------------------------------------------------------------------------
(* Correctness.                                                            *)

Deadlines == {n \in Int : n >= -1}

TimerValues == [discover : 0 .. DiscoverInterval + 1,
                request  : 0 .. RequestRetry + 1,
                first    : 0 .. RequestTimeout + 1,
                renew    : Deadlines,
                rebind   : Deadlines]

Leases == [ip : Addresses, server : Addresses,
           duration : Nat, t1 : Nat, t2 : Nat]

\* Every variable keeps its type, and no buffer outgrows its bound.
TypeOK ==
  /\ state \in States
  /\ pc \in {"idle", "parse"}
  /\ xids \in [first : 0 .. XidMod - 1, last : 0 .. XidMod - 1]
  /\ lease \in Leases
  /\ timers \in TimerValues
  /\ open \in BOOLEAN
  /\ dest \in Destinations
  /\ recv \in BOOLEAN
  /\ rx \in Seq(Replies) /\ Len(rx) <= RxCap
  /\ config \in Addresses
  /\ uplink \in SUBSET ClientMessages
  /\ downlink \in SUBSET Replies
  /\ asked \in BOOLEAN
  /\ fresh \in BOOLEAN
  /\ granted \in SUBSET Servers

\* The chip has no address of its own from the moment an attempt starts
\* (fsm_start resets it) until an ACK is bound, and always one in between an
\* ACK and the end of that lease: an application that asks the chip for its
\* address sees one exactly while update() is in LEASED or RENEW.
AddressMatchesPhase ==
  /\ state \in {"DISCOVER", "REQUEST"} => config = None
  /\ state \in {"LEASED", "RENEW"}     => config # None

\* Whatever is delivered, and however late, the chip only uses an address that
\* a server has acknowledged to this client: an offer, another host's ACK or a
\* reply with a foreign transaction id never reaches set_ip().
AddressGranted == config # None => config \in granted

\* The address and the server of a DHCPREQUEST come from the same reply, even
\* when offers of several servers are parsed one after the other: no server is
\* asked for what another one offered.
RequestsWhatWasOffered ==
  \A m \in uplink : m.type = "REQUEST" => m.ip # None /\ m.ip = m.server

\* A lease is only ever taken from a reply to a message of the same attempt
\* (everything sent since the client left START), as long as the random
\* transaction id exceeds those still in transit: the window from _initial_xid
\* to _xid keeps late answers to earlier attempts out.
LeaseFromThisAttempt ==
  [][state' = "LEASED" /\ state # "LEASED" /\ fresh => Head(rx).cur]_vars

\* The RX buffer is never full behind a cleared RECV flag.  A call of update()
\* reads one datagram and leaves the others behind until the next arrival
\* raises the flag again; were there no room for that arrival, the client
\* would never look at its socket again.
RoomBehindClearedFlag ==
  pc = "idle" /\ ~recv /\ RxCap > 0 => Len(rx) < RxCap

Phase ==
  CASE state = "START"                   -> "idle"
    [] state \in {"DISCOVER", "REQUEST"} -> "asking"
    [] state = "LEASED"                  -> "bound"
    [] state = "RENEW"                   -> "renewing"

Promise ==
  INSTANCE AddressLease WITH
    Addresses <- Servers, phase <- Phase, address <- config

\* The client keeps the promise of module AddressLease.
KeepsPromise == Promise!Spec

-----------------------------------------------------------------------------
(* What comments of the code say and the code does not do.                 *)

\* "Configuring socket for broadcast" (DHCP.cpp:55): a discovery goes out to
\* every server.
DiscoverIsBroadcast ==
  \A m \in uplink : m.type = "DISCOVER" => m.to = Broadcast

\* _dhcp_server_ip is the "IP of chosen DHCP server" (DHCP.hpp:238), and the
\* destination of the socket is set to it: a request reaches the server that
\* it names.
RequestReachesItsServer ==
  \A m \in uplink : m.type = "REQUEST" => m.to = m.server

\* "If we don't get a response to the DHCPREQUEST, reset the FSM"
\* (DHCP.cpp:182): a renewal is only given up for want of an answer when an
\* earlier call of update() has asked for it.
RenewalIsAwaited ==
  [][state = "RENEW" /\ state' = "START"
       => asked \/ (pc = "parse" /\ ReplyType = "NAK")]_vars

\* "Clear any lease state" (DHCP.cpp:27), "the T1 value for our lease"
\* (DHCP.cpp:195): the deadlines of a lease lie within it.
DeadlinesWithinLease == state = "LEASED" => lease.t2 <= lease.duration

-----------------------------------------------------------------------------
(* Liveness.  The README asks the application to call update() from its    *)
(* main loop (README.md:97), so some step of it is always taken in the     *)
(* end, and a socket that keeps being opened opens at last.  Time passes.  *)
(* The network may lose any message, but not every one: an answer that is  *)
(* possible again and again is given, and a reply in flight again and      *)
(* again arrives.                                                          *)

ClientFairness ==
  /\ WF_vars(ClientStep)
  /\ WF_vars(FsmStart /\ UNCHANGED granted)

NetworkFairness ==
  /\ \A s \in Servers : SF_vars(ServerOffer(s)) /\ SF_vars(ServerAck(s))
  /\ SF_vars(Deliver)

LiveSpec == Spec /\ ClientFairness /\ WF_vars(Tick)

\* No state is a trap but DISCOVER (which only an offer ends): a request is
\* answered or given up after dhcprequest_timeout_ms, a lease comes to its
\* renewal or its end.
PhasesEnd ==
  /\ state = "START"   ~> state = "DISCOVER"
  /\ state = "REQUEST" ~> state \in {"LEASED", "START"}
  /\ state = "LEASED"  ~> state \in {"RENEW", "START"}
  /\ state = "RENEW"   ~> state \in {"LEASED", "START"}

\* On a network that does not lose everything a discovery is answered, since
\* DISCOVER is sent again every discover_broadcast_interval_ms.
DiscoveryEnds == NetworkFairness => (state = "DISCOVER" ~> state = "REQUEST")

=============================================================================
