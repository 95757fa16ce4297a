# A verified model of the W5500 driver

The repository is a C++ driver for the WIZnet W5500, a chip with an IP stack
and eight hardware sockets behind an SPI bus, together with DHCP, DNS and NTP
clients. This directory holds TLA+ modules of it, the TLC configurations that
check them, and proofs for TLAPS. File names in the comments of the modules
(DHCP.cpp, Socket.cpp, ...) are those under `src/` and `include/W5500/`.

    tlc -config MCDhcpSafety.cfg MCDhcp.tla      # a run
    tlapm DhcpProofs.tla                         # the proofs of a component

## The system

The driver runs in one thread and never waits for the network. The application
calls `update()` of each client from its main loop (README.md:97). Everything
concurrent happens on the other side of the SPI bus: the chip receives and
transmits on its own while the driver reads and writes its registers one
transaction at a time. A client learns of a datagram from the RECV flag of its
socket, which the chip sets and the driver clears.

| Part | State | Operations | Talks to |
| --- | --- | --- | --- |
| DHCP client (Protocols/DHCP) | `_state`, transaction ids, lease record, six time stamps | `update()`, one path per state | its UdpSocket, `set_ip` and friends, `random`, `millis` |
| NTP client (Protocols/NTP) | server, two stamps, poll interval | `update()`, `set_server_ip()` | its UdpSocket, `millis` |
| DNS client and cache (Protocols/DNS) | server, 8 cache entries | `update()`, `query()`, `get()`, `set_server_ip()` | its UdpSocket, CRC16, the cache (which clients may share) |
| UdpSocket | `_packet_bytes_remaining` | `init`, `ready`, `has_packet`, `read_packet_header`, `read`, `flush`, skip | the RX ring |
| Socket | `_write_offset` | `write`, `send`, `close`, flags | the TX ring |
| TcpSocket | `_ephemeral_port` | `init`, `connect`, `ready`, `connected`, `connecting` | the chip's TCP machine |
| W5500 | none | register access, `read`, `write`, `flush`, `send`, reset, PHY | the bus |
| Bus | LFSR, pending interrupt | `random`, `spi_xfer`, chip select | hardware |
| chip (external) | rings, pointers, flags, socket status, SIPR | RECV, SEND, OPEN, CLOSE | the network |

What is hard here:

* **Between two transactions.** A datagram may arrive between reading the flag
  and clearing it, between two reads of the ring, in the middle of `flush()`;
  the transmitter empties the TX ring while the next datagram is filled in.
* **The network.** Answers are lost, late, repeated, addressed to others, or
  come from several servers.
* **Stale state.** A field, a register or a stamp is set on one path and used on
  another: the socket's destination, the request timeout, T1 and T2,
  `_write_offset`, `_packet_bytes_remaining`.
* **Boundaries.** 16 bit ring pointers, the 32 bit transaction id, lives and
  leases multiplied by 1000 in 32 bits, the end of the NTP era, full buffers and
  a full cache.
* **Progress.** Nobody but the next call of `update()` restarts anything.

What makes each part correct: the DHCP client uses only addresses it was
granted, asks for what was offered, keeps late answers out and always gets on;
a UdpSocket is a queue of datagrams; a datagram sent is what was written; the
NTP client never overlooks a packet, never falls silent and reports the time it
was sent; an answer in the DNS cache is found while it lives and not after, and a
name asked for again and again is resolved; a TCP connection is announced once,
and one that is lost is opened again.

## Modules

    AddressLease   <-- implemented by -- DhcpSystem  EXTENDS DhcpClient
    DatagramQueue  <-- implemented by -- UdpReceive EXTENDS RingPointers
    AnswerCache    <-- implemented by -- DnsCache, as DnsClient uses it
                                         SocketSend EXTENDS RingPointers
                                         NtpClient EXTENDS NtpTime
                                         DnsClient EXTENDS DnsCache
                                         TcpConnection
    algorithms:  DhcpOptions, HeaderParser, BusRandom, DnsMessage, Crc16, NtpTime
    for TLC:     MCDhcp = DhcpSystem + DhcpOptions + HeaderParser + BusRandom
                 MCDns  = DnsClient + DnsMessage + Crc16
                 MCNtpClient, MCUdpReceive, MCSocketSend
    proofs:      DhcpProofs (MCDhcp: the system and its algorithms),
                 UdpProofs (UdpReceive), SocketProofs (SocketSend),
                 NtpProofs (NtpClient, NtpTime),
                 DnsProofs (MCDns: client, cache, parser and ids),
                 TcpProofs (TcpConnection),
                 PointerProofs (RingPointers, for the two rings),
                 NumberProofs (induction and remainders, for all of them)

NtpClient and DnsClient use a socket by what `DatagramQueue` promises: packets
in order, one at a time, behind a RECV flag.

### DhcpClient, DhcpSystem, AddressLease

`DhcpClient` has one action per path through `Client::update()`. A call that
finds the RECV flag set is two steps, `TakeRecvFlag` and the rest, because that
is where the network can interfere with effect: an arrival between the other
transactions of a call gives the same result as one before or after it.

| Code | Actions |
| --- | --- |
| `fsm_start` | `FsmStartFails` (socket does not open), `FsmStart` |
| reading and clearing the flag, in all receiving states | `TakeRecvFlag` |
| `fsm_discover` | `FsmDiscoverOffer`, `FsmDiscoverWait` |
| `fsm_request` (REQUEST and RENEW) | `FsmRequestAck`, `FsmRequestNak`, `FsmRequestWait` |
| `fsm_leased` | `FsmLeasedRebind`, `FsmLeasedRenew` |
| `parse_dhcp_response` | `Accepted`, `Parsed`, `ConsumeReply`, part of the actions above |
| `reset_current_lease` | `ResetLease` and `config'` in the START actions |

`lease` is the lease record, `xids` the window of transaction ids, `config` the
address the chip uses, and `open`, `dest`, `recv`, `rx` the chip's socket.
Fields of a reply are copied before its type is looked at, as in the code.
Stamps are kept as ages and deadlines as time left, both saturated one above
what they are compared with: every comparison of the code keeps its value, and
time can run for ever in a finite state space. An address is named by the
server that owns it.

Whether the chip raises RECV again while data is left in the buffer cannot be
read off the code, so `RecvReasserts` says which answers are allowed; the runs
allow both.

`DhcpSystem` adds servers that answer a message never, once or several times,
loss and reordering (messages in flight are sets), replies to other hosts, and
the clock. `AddressLease` is what a client promises: it uses no address that
was not granted, binds only while asking or renewing, and gives its address up
before it asks anew.

### UdpReceive, DatagramQueue

The RX ring byte by byte; a byte knows its datagram and its place. The chip owns
`writePtr` and `freedPtr` (the read pointer it took over with RECV), the driver
owns `readPtr`. `read_packet_header` is `HasPacketCall`, `ReadHeader`,
`HeaderRecv`; a payload read is `ReadPayload`, `PayloadRecv`; `flush` is
`FlushCall`, `FlushSetPointer`, `FlushRecv`. Datagrams may arrive between any
two. Clients are assumed to read within a datagram and to begin the next when
none is left; NTP and DNS do so for packets of the expected size, DHCP for
packets of at least 34 bytes with whole options.

`DatagramQueue` is a queue with a datagram being read and a flush that discards
what was there when it was called. `IsQueue` says that the ring implements it.

### SocketSend

The TX ring; its pointers are those of the RX ring (`RingPointers`). `CallWrite` reads the free size, `Write` copies behind `sentPtr`
and `_write_offset`; between the two the chip may transmit. `Send` and
`SendBuffer` are the two `send()`s; `Reopen` is `close()` and `init()`, which
leave `_write_offset` as it is. The chip's TX write pointer reads as the end of
the last SEND (README.md:170, and the reason `_write_offset` exists).

`sound` records that each write found room for itself and for the bytes still
pending, and that no socket was reopened in between; `SentIsWritten` and
`OffsetIsPending` hold under it. The code does not see to the first itself: the
free size it compares with ignores what is pending.

### NtpClient, NtpTime

The client on a queue of packets, with `update()` split at the flag, at each
packet and at the timers. `UpdateFails` is a socket that does not open.
`Interval` stands for `(1 << poll) * 1000` and may be any function below
`MaxAge`. `timeSet` and `result` record what a call did and what it returned.

`NtpTime` is the arithmetic of `parse_packet` on the time stamp: seconds since
1900 modulo 2^32 less seventy years, and a fraction divided into milliseconds.

### DnsCache, DnsClient, AnswerCache

`DnsCache` is the array of slots. `is_filled()` empties an expired slot when it
comes across one, so `has_entry`, `get` and `store` all write: the slots are
*swept* as far as the loop gets. Expiry is kept as time left.

| Code | Definitions |
| --- | --- |
| `DNSCacheEntry::is_filled`, `has_entry`, `get`, `store` | `Live`/`Swept`, `LookFor`, `CacheGet`, `CacheStore` |
| `update()` | `UpdateFails`, `UpdateBegin` (opens the socket, takes the flag), `ParsePacket` (one round of the loop) |
| `query()` | `QueryCached`, `QuerySent`, `QueryGivenUp` (a label too long: the socket is closed, `_write_offset` stays) |
| `get()`, `set_server_ip()`, `close()` | `Get`, `SetServerIp`, `Close` |

`residue` is `_write_offset` not being 0: the query behind it is sent with what
the given up one left, and no server understands it. `asked` holds the queries
that servers have got and may answer, once or again. `AnswerCache` knows no slots to sweep: it holds the
answers that live and drops, when it is full, the first to expire.

### DnsMessage, Crc16

The question `query()` writes and the bytes of replies, laid out as servers do
and parsed as `parse_packet()` does: the questions skipped, names with pointers,
records until the first address. Each loop is a `Walk`, a function from one offset
to the next and the number of rounds it goes; the loop over a name stays where it
is once it has found the end. `Said` is what a reply says, for comparison.
`Crc16` is the table of the source and, for comparison, polynomial division.
`Neighbours` are names of one length that differ in one octet or in two side by
side, as the host names of numbered devices do.
MCDns gives both to `DnsClient` as its constants: the ids and replies of the run
are those of real messages.

### TcpConnection

`check_connection()` of README.md:107-164 with the TcpSocket operations it calls,
one step per register access, `pc` naming the next one; `seen` is the copy of the
flags it took. Around it the chip (from the comments of Registers.hpp): the
handshake ends, the peer closes or resets, nothing is acknowledged, the link goes
and comes, the chip is reset between two calls. `unannounced` is a history
variable: the connection that stands has not been given to `handle_connect()`.

### DhcpOptions, HeaderParser, BusRandom

What `DhcpClient` takes as given. `DhcpOptions` reads the options of a reply off
the RX buffer byte by byte and writes the packets of `send_dhcp_packet`;
`HeaderParser` is `ParseContext::consume` on chunks, with the byte it parses
too many at the end of each (`BRK`); `BusRandom` is the LFSR of `Bus::random()`,
whose new bit depends on the last five only.

## Runs

| Run | Shows |
| --- | --- |
| `dhcp_safety` | types; an address exactly while bound (`AddressMatchesPhase`); only granted addresses (`AddressGranted`); requests name address and server of one offer (`RequestsWhatWasOffered`); room behind a cleared flag (`RoomBehindClearedFlag`); no lease from an earlier attempt (`LeaseFromThisAttempt`); refinement of `AddressLease` (`KeepsPromise`); and the algorithms, where the client uses them: `RepliesAreRead`, `HeadersAreParsed`, `PacketsAreLegal`, `FateIsSealed` |
| `dhcp_liveness` | `PhasesEnd`: START, REQUEST, LEASED and RENEW are always left. `DiscoveryEnds`: so is DISCOVER on a network that does not lose everything |
| `dhcp_discover_destination`, `dhcp_request_destination`, `dhcp_renewal`, `dhcp_deadlines` | counterexamples, see below |
| `udp_receive` | `RemainingIsTrue`, `ReadsHeaders`, `HasPacketExact`, refinement of `DatagramQueue` (`IsQueue`) |
| `socket_send` | `SentIsWritten`, `OffsetIsPending` |
| `ntp_client` | `NoLostWakeup`, `AsksConfiguredServer`, `TimeIsReported` (a call that sets the time says so), `ReportedTimeIsSound` (and it is the server's), `AsksAgain` |
| `dns_client` | `NoLostWakeup`; refinement of `AnswerCache` (`KeepsCachePromise`); every reply leaves what it says in the cache (`CachesWhatWasSaid`); ids are CRC-16 sums (`IdsAreRemainders`); an answer is never taken for a name and for a neighbour of it (`NeighboursKeptApart`); `Resolves` |
| `dns_alias` | counterexample |
| `tcp_connection` | `ConnectionIsAnnounced`, `AnnouncedOnce`, `Reconnects` |

`RepliesAreRead`, `HeadersAreParsed`, `PacketsAreLegal`, `FateIsSealed`,
`IdsAreRemainders` and `ReportedTimeIsSound` are about algorithms and compare them
with a reference over all inputs of a bounded shape. What they say does not
change from state to state: they are stated of the states in which the client
relies on them, and the inputs are their own, not those of the trace. They are
part of these runs because the client's model takes the algorithms as given.

### Bounds

* **DHCP safety**: two servers (offers and acknowledgements of different
  servers), one message in flight per direction besides two in the RX buffer (a
  sequence of late answers), ids modulo 2 (every attempt may meet an id of the
  attempt before, and `_xid++` wraps), intervals of 0 and 1 ticks with a timeout
  longer than the repetition, as in the code. The servers are a symmetry set; no
  definition distinguishes them.
* **DHCP liveness**: one server and one transaction id. Leases last 3
  seconds or, where the server names no time, 4, and a 32 bit number ends at 3, so
  that the rebind time of the longer one wraps to 0, as that of a lease of 57 days
  does on the device. With a single id the window can never be empty, so the run says
  nothing about the wrap of `_xid` (see the hazards); no symmetry is used.
* **DHCP bytes**: every list of up to three of nine options, in any order and
  repeated, with data that look like options; host names of 0 to 300 characters;
  a header of all kinds of bytes cut at each of its 34 offsets.
* **RX**: 8 bytes with headers of 2, pointers modulo 16, payloads 0, 1 and 3, so
  that one to four datagrams fit and every pointer wraps inside a header
  and inside a payload. All starting positions are initial states.
* **TX**: 6 bytes, pointers modulo 12, writes of 1, 2 and 4, up to three
  datagrams waiting; a write may be cut short by the free size.
* **NTP**: two servers, poll intervals below and above the request interval, two
  packets in the buffer; words of 6 bits with "1970" at 40 and 5 ms in a second,
  so that both eras and the uneven division of the fraction occur.
* **DNS**: two servers, three names of which one has too long a label, two cache
  slots, two replies in the RX buffer. A second is two ticks and a 32 bit number
  ends at 5: a life of 5 seconds wraps to none at all and one of 3 to one tick.
  With two slots, duplicates of one name fill the cache and evictions happen. The
  ASSUME in MCDns sees to it that the parser never looks behind the packets used.
  `NeighboursKeptApart` takes, besides the names of the client, all names of one letter
  and those of three that share its first or its last letter with `Host`,
  over all 38 characters of host names.
* **TCP**: a back-off of 1 tick, ages up to 3, ports modulo 3.

### Fairness

* `WF(ClientStep)`, `WF(UpdateBegin)`, `WF(CheckConnection)`, ...: the application
  calls `update()` and `check_connection()` again and again and a call ends. The
  README asks for exactly this.
* `WF(FsmStart)`, and `UpdateBegin` succeeding: a socket that is opened again and
  again opens at last. Without it a client stays in START by itself.
* `WF(Tick)`: `millis()` is monotonic and advances.
* `NetworkFairness`, only as the premise of `DiscoveryEnds`: what a server can
  answer again and again it answers, and what is in flight again and again
  arrives. It is never assumed elsewhere.
* `AsksAgain` presumes that packets stop coming, since the drain loop of
  `NTP::Client::update` (NTP.cpp:32) has no other end. In DNS the same is
  `WF(Forget)`: the replies to one query end.
* `Resolves`: the application repeats its queries (`query()` has no retry of its
  own); a query sent again and again gets to its server, and a useful reply to it
  comes back (`SF`). No query is obliged to be given up and no socket to be closed;
  that both stop in the end is the premise.
* `Reconnects`: a link that is down comes up (`WF`) and a peer asked again and
  again accepts (`SF(Establish)`); its premise is that disturbances end.

## Disagreements between code and comments

1. `DiscoverIsBroadcast`: the destination is set to broadcast only for a newly
   opened socket (DHCP.cpp:47-56); after a lease, discovery goes to the
   old server alone.
2. `RequestReachesItsServer`: a second offer in REQUEST replaces
   `_dhcp_server_ip` (DHCP.cpp:286) but not the destination; the two servers'
   names get mixed up.
3. `RenewalIsAwaited`: `_first_dhcprequest_broadcast` is not set on entering
   RENEW, so the first renewal request is given up in the same call.
4. `DeadlinesWithinLease`: T1 and T2 survive the lease they belong to.
5. `CachesWhatWasSaid`, with aliases of any length: a record that is not an
   address is skipped as if it had the size of one (DNS.cpp:148), so "keep looping
   and hope we get a good one" (DNS.cpp:146) works only for data of four bytes.
   The run `dns_client` has such an alias and the property holds; `dns_alias` has
   one of six.

1 and 3 meet in practice: each lease ends in a discovery that only the old
server gets, which succeeds as long as that server lives.

## Proofs

The theorems hold for any set of servers and names, any timing, any bounds, any
RX and TX ring and pointer width, any cache, under the named assumptions of the
modules (`ServersAssumption`, `XidAssumption`, `TimingAssumption`,
`ModelAssumption`, `SystemAssumption`, `IntervalAssumption`, `TimeAssumption`,
`PointerAssumption`, `RingAssumption`, `WritesAssumption`, `CacheAssumption`,
`ClientAssumption`, `BackoffAssumption`). They only say that constants have their
types, that the special addresses differ from the servers', that "no answer" is
not an answer, that a modulus is not zero, that pointers count a multiple of a
ring's size, and that there are more fractions in a second than milliseconds.
TLC evaluates each of them in a run.

**DHCP**
* `TypeCorrect`, action by action. It is the base of all others.
* `OnlyGrantedAddresses`, `AddressFollowsPhase`, `OnlyOffersRequested` follow
  from one inductive invariant, `Provenance`. `AddressGranted` alone is not
  inductive: an ACK binds what the reply says, so the invariant traces every
  reply on its way or in the RX buffer to its server (`RepliesBacked`) and says
  that a lease in REQUEST and RENEW names one server throughout (`LeaseNamed`).
* `LateRepliesRejected` rests on `LateOutside`: all that is left of earlier
  attempts lies below the window, which never moves down within an attempt but
  by wrapping, and then excludes even more.
* `ClearedFlagLeavesRoom`: a flag is only cleared together with reading or
  flushing a datagram.
* `PromiseKept`: every step of `DhcpSystem` is one of `AddressLease` or leaves
  its variables alone; the binding step needs `Provenance` for its guard.

**DHCP bytes** (`HeaderParsing`, `ReplyReading`, `PacketWriting`, `AliveForEver`,
`FateSealed`)
* `HeaderParsing`: a header is parsed exactly in one piece, and cut anywhere it
  loses no bit.
* `OptionsRead`, of which `ReplyReading` is the case the run checks, holds for
  options of any number and any order, with any data, and whatever lies behind
  them in the ring. The parser's places are a function defined by recursion on
  the position. It is found by exhibiting it: the ends of the options, laid one
  behind the other (`LaidFrom`), are the places the parser steps on, and by
  induction no others; the option the client uses is then the last of its
  kind. The options must be `WholeOptions`: those that the code reads without
  looking at their length have the length RFC 2132 gives them.
* `PacketsWritten`, of which `PacketWriting` is a case, holds for all types, ids,
  seconds, addresses and host names of any length: each field is where the standard
  has it, and a name is cut to its length modulo 256, the byte that says how
  long it is.
* The random number generator never stops exactly if one of the upper five bits
  of its seed is set (`AliveForEver`, `FateSealed`).

**RX ring** (`TypeCorrect`, `RemainingIsRest`, `HeadersRead`, `HasPacketIsExact`,
`RingIsQueue`)
* The inductive invariant is `RingInv`: besides types, the three pointers are in
  order around the ring (`RingOk`), and from the read pointer to the write pointer
  lie the rest of one datagram and then whole ones, each as long as its header
  says (`Queued`). A call in progress has moved the pointer and not yet the count;
  `Left` is the count it will arrive at and `CallOk` what it knows by then. A flush
  remembers a write pointer that later arrivals overtake, and that must be the
  end of a datagram then and at the end of the call.
* An arrival overwrites no byte between the freed and the write pointer.
* `RingIsQueue` is the refinement of `DatagramQueue`. The datagrams of the unread
  bytes are the value of a function defined by recursion on their number, and
  those of two spans that meet are those of the one followed by those of the
  other (`SpanJoin`). So an arrival appends one datagram, reading a header begins the
  oldest, a payload read takes from the one begun, and a flush discards
  those up to the write pointer it remembered, however many came later. All
  other steps stutter.

**TX ring** (`TypeCorrect`, `OffsetCorrect`, `WrittenIsSent`)
* The first two share `OffsetInv`. It is the
  type invariant that needs it: the pending bytes stay below their bound only
  because they never exceed `_write_offset`, a call in progress stays below it
  because it did when it began, and `send(buffer, size)` issues its command
  later than it looked for room among the datagrams. `OffsetInv` also says what
  `_write_offset` is in the middle of a call.
* `WrittenIsSent` rests on `SentInv`: seen from the read pointer, the datagrams that
  wait lie one behind the other (`FlightsInv`), then the pending bytes, and all of
  it within one round (`ContentInv`). A write finds its place by adding
  `_write_offset` to a pointer and must not reach round to what waits. It has room
  for as much as was free when it asked, because the transmitter only makes more
  in the meantime.

Both rings share `PointerProofs`, a small theory of `%`: distances between pointers
add up as long as they stay within the ring, whether the pointers wrap or not
(`IsDistance`, `Moved`, `Approach`, `Depart`), and bytes placed behind a distance
touch none before it (`PlaceIs`, `PlaceBefore`, `PlaceBehind`).

**NTP** (`TypeCorrect`, `NoWakeupLost`, `RequestsGoToTheServer`, `TimeReported`,
`TimesSound`)
* `NoWakeupLost` rests on `WakeupInv`, which allows the cleared flag while the
  call that cleared it still drains; `RequestsGoToTheServer` on `DestinationInv`.
* `TimeReported`: a packet that is discarded also counts as a valid one, and
  must never take back that an earlier packet of the call has set the time.
* `TimesSound` is `SecondsExact` and `OrderKept`, for every
  width and number of milliseconds: the last fractions give a whole second
  of them, which is still not more than the next time stamp gives.

**DNS** (`TypeCorrect`, `NoWakeupLost`, `PromiseKept`, `RepliesParsed`,
`AnswersReachTheCache`, `SumsAreRemainders`, `IdsAreDivided`, `IdsDivided`,
`NeighboursDiffer`, `NeighboursApart`)
* `PromiseKept` is the refinement of `AnswerCache`: a sweep changes no slot that
  lives, so lookups stutter; `store` chooses a free place when there is one, and
  otherwise one that lives no longer than any other. That such a one exists is a
  lemma from well-founded induction on the numbers.
* `RepliesParsed` follows the parser through the bytes of any reply that is
  `Wellformed` and `Aligned`: a name of any labels, any number of records, any
  bytes left in the buffer behind it. What is laid out one behind the other is
  in the buffer one behind the other (`HoldsEach`), so each loop is at the start
  of the n-th piece after n rounds (`WalkIs`). A name has no more labels than the
  256 bytes of the buffer, which is why the rounds of `WalkName` are enough.
  `Aligned` is where the code needs luck: up to the first address, no record has
  data of another size than four bytes. Without it the theorem is false, as
  `dns_alias` shows.
* `AnswersReachTheCache` carries that through `update()` and `store()`: only a
  round of the parser's loop takes a reply out of the socket, and the place it
  stores to is a slot. It presumes `RepliesAreBytes`, which says that the
  constants of `DnsClient` are the parser and its reference; TLC evaluates it for
  the replies of `dns_client`.
* `SumsAreRemainders` says of every sum and every octet what the run tries for six
  sums. Exclusive or is built of halves, from pairs of bits up to words, and its
  laws are proved along that ladder, with those of shifting. So a step of
  the division is linear (`ShiftedAdds`), the eight steps of an octet come apart into
  those of the upper byte, which the table holds, and those of the lower, from
  which no bit falls out. That the table holds them is induction on its index: entry 2i is
  one more step from entry i, and entry 2i + 1 that with the polynomial added.
  `IdsAreDivided` carries it on to whole names, of any length.
* `NeighboursDiffer` says of names of every length what `NeighboursKeptApart` says of
  those of the run, and `NeighboursApart` takes it to the cache, for any names the
  client asks for. A step of the division loses nothing: shifting leaves an even number
  and the polynomial is odd, so only 0 becomes 0 (`ShiftedToNothing`) and, the steps being
  linear, no two numbers become the same (`EightTellsApart`). So an octet in which names
  differ makes a difference of the sums (`OctetsTellApart`), which octets that are
  alike keep (`SumsStayApart`). A second octet that differs cannot take it back
  (`PairsTellApart`): it is added to the upper half of the sum, and no entry of
  the table but the first has a lower half without bits. Two octets further apart
  can, and names of different lengths do: "x1" and "gdp" have the same id.

**TCP** (`TypeCorrect`, `NoConnectionMissed`, `NoConnectionTwice`)
* `AnnouncementInv` says of each CONNECT flag, up or seen, that its connection
  is unannounced, and of each unannounced connection that is established that it
  has one. A flag may outlive its connection, which is why the first half
  speaks of connections that were never announced, whether they stand or not.

The induction theorems of the library take an operator as their parameter, which
no prover here can instantiate. `NumberProofs` therefore does induction on sets:
a set of numbers that has 0 and every successor of its members has all numbers
(`Inductive`), and from it come a least and a greatest number and functions
defined by recursion (`HasLeast`, `Greatest`, `Recursion`).

Only model-checked are liveness (`PhasesEnd`, `DiscoveryEnds`, `AsksAgain`,
`Resolves`, `Reconnects`), which is beyond the prover, and `RepliesAreBytes`, which
ties the constants of one instance to the parser.

## Not modelled

* The framing of SPI transactions and the register map, the OpenCM3 bus: pure I/O.
  Registers are read whole: the code reads the two bytes of a 16 bit register in
  one transaction and relies on the chip there (W5500.cpp:384).
* `reset()` and `set_phy_mode()` write a register and wait for a bit that only the
  chip changes. What a reset does to sockets is modelled for NTP, DNS and TCP.
* Datagrams that are cut short, which make DHCP and DNS read past their end, and
  what is in the ring there.
* A chip reset in the DHCP system, where DISCOVER does not check its socket;
  and `write()` cut short in `send_dhcp_packet`, whose result it ignores.
* NTP poll exponents from 22 on, for which `(1 << poll) * 1000` overflows an int.
* Two host names with one query id, which are no neighbours: MCDns assumes that its
  names have none, and the code does nothing about it.
* `peek` and `peek_packet`, which change nothing.

## Plan

Done: all modules above. Left, in this order:

1. Reading past the end of a datagram in `UdpReceive`, and what `flush()` then
   restores; short datagrams in `DhcpSystem`.
2. Chip reset in `DhcpSystem`: DISCOVER repeats its broadcast on a closed socket.
3. `Resolves` with colliding ids, once the code has something to say about them.
