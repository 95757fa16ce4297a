----------------------------- MODULE DhcpOptions -----------------------------
(***************************************************************************)
(* The bytes of DHCP messages (Protocols/DHCP.cpp): how the client reads   *)
(* the options of a reply off the socket, and what it writes itself.       *)
(*                                                                         *)
(* An option is a record [code, data].                                     *)
(***************************************************************************)
EXTENDS Integers, SequencesExt

SUBNET_MASK         == 1
ROUTERS_ON_SUBNET   == 3
DNS                 == 6
CLIENT_HOSTNAME     == 12
DOMAIN_NAME         == 15
REQUESTED_IP_ADDR   == 50
LEASE_TIME          == 51
MESSAGE_TYPE        == 53
SERVER_IDENTIFIER   == 54
PARAM_REQUEST       == 55
DHCP_T1_VALUE       == 58
DHCP_T2_VALUE       == 59
CLIENT_IDENTIFIER   == 61
END_OPTIONS         == 255

MagicCookie == <<99, 130, 83, 99>>

-----------------------------------------------------------------------------
(* parse_dhcp_response, from the options on.  The bytes are those of the   *)
(* packet and what follows it in the RX buffer, the packet is length long. *)

\* The bytes read for an option.  Extra routers and name servers are skipped.
OptionSize(code, len) ==
  CASE code = MESSAGE_TYPE -> 3
    [] code \in {SUBNET_MASK, SERVER_IDENTIFIER, LEASE_TIME} -> 6
    [] OTHER -> 2 + len

\* Where the loop is once it has read n options of a packet of length bytes.  It
\* ends at END_OPTIONS or exactly behind the packet's last byte.
PlacesRead(bytes, length) ==
  LET place[n \in 0 .. length] ==
        IF n = 0 THEN 1
        ELSE LET p == place[n - 1]
             IN  IF p = length + 1 \/ bytes[p] = END_OPTIONS THEN p
                 ELSE p + OptionSize(bytes[p], bytes[p + 1])
  IN  place

\* Where it reads an option's code.
OptionStarts(bytes, length) ==
  {PlacesRead(bytes, length)[n] : n \in 0 .. length} \ {length + 1}

\* How far the RX buffer is read: END_OPTIONS skips to the end of the packet,
\* and without it everything in the buffer is flushed.
ReadsUpTo(bytes, length) ==
  IF \E p \in OptionStarts(bytes, length) : bytes[p] = END_OPTIONS
  THEN length ELSE Len(bytes)

OptionReadFirst(bytes, length, code, size) ==
  LET found == {p \in OptionStarts(bytes, length) : bytes[p] = code}
  IN  IF found = {} THEN <<>> ELSE SubSeq(bytes, Min(found) + 2, Min(found) + 1 + size)

\* Each option is copied as it is read, so the last one of a kind counts.
OptionRead(bytes, length, code, size) ==
  LET found == {p \in OptionStarts(bytes, length) : bytes[p] = code}
  IN  IF found = {} THEN <<>> ELSE SubSeq(bytes, Max(found) + 2, Max(found) + 1 + size)

-----------------------------------------------------------------------------
(* send_dhcp_packet.                                                       *)

DISCOVER == 1
REQUEST  == 3

Zeros(n) == [i \in 1 .. n |-> 0]

\* Operation, addresses, hardware address, names and cookie.
WrittenHeader(xid, secs, mac) ==
  <<1, 1, 6, 0>> \o xid \o secs \o <<128, 0>> \o Zeros(16)
    \o mac \o Zeros(10) \o Zeros(6 * 32) \o MagicCookie

WrittenHostNameUncut(hostname) ==
  <<CLIENT_HOSTNAME, Len(hostname) % 256>> \o hostname

\* Its length is kept in a byte.
WrittenHostName(hostname) ==
  <<CLIENT_HOSTNAME, Len(hostname) % 256>> \o SubSeq(hostname, 1, Len(hostname) % 256)

WrittenOptions(type, mac, hostname, ip, server) ==
  <<MESSAGE_TYPE, 1, type, CLIENT_IDENTIFIER, 7, 1>> \o mac
    \o WrittenHostName(hostname)
    \o (IF type = REQUEST
        THEN <<REQUESTED_IP_ADDR, 4>> \o ip \o <<SERVER_IDENTIFIER, 4>> \o server
        ELSE <<>>)
    \o <<PARAM_REQUEST, 6, SUBNET_MASK, ROUTERS_ON_SUBNET, DNS, DOMAIN_NAME,
         DHCP_T1_VALUE, DHCP_T2_VALUE, END_OPTIONS>>

-----------------------------------------------------------------------------
(* Correctness, on bytes that cannot be taken for each other.              *)

Option(code, data) == [code |-> code, data |-> data]

\* How RFC 2132 lays out options.
Laid(options) ==
  LET laid[n \in 0 .. Len(options)] ==
        IF n = 0 THEN <<>>
        ELSE laid[n - 1] \o <<options[n].code, Len(options[n].data)>> \o options[n].data
  IN  laid[Len(options)] \o <<END_OPTIONS>>

SampleMac == <<2, 255, 53, 1, 54, 61>>
SampleIp  == <<255, 53, 1, 2>>

\* The options of a reply; an address may hold bytes that look like options.
ReplyOptions ==
  {Option(MESSAGE_TYPE, <<2>>), Option(MESSAGE_TYPE, <<5>>),
   Option(SUBNET_MASK, <<255, 255, 0, 0>>),
   Option(ROUTERS_ON_SUBNET, SampleIp),
   Option(DNS, SampleIp \o <<54, 4, 9, 9>>),
   Option(SERVER_IDENTIFIER, SampleIp),
   Option(LEASE_TIME, <<0, 0, 255, 53>>),
   Option(DOMAIN_NAME, <<>>), Option(DHCP_T1_VALUE, <<53, 1, 2, 255>>)}

LastData(options, code, size) ==
  LET found == {k \in DOMAIN options : options[k].code = code}
  IN  IF found = {} THEN <<>> ELSE SubSeq(options[Max(found)].data, 1, size)

ReadsOptions(options, behind) ==
  LET bytes  == Laid(options) \o behind
      length == Len(Laid(options))
  IN  /\ ReadsUpTo(bytes, length) = length
      /\ OptionRead(bytes, length, MESSAGE_TYPE, 1) = LastData(options, MESSAGE_TYPE, 1)
      /\ \A code \in {SUBNET_MASK, ROUTERS_ON_SUBNET, DNS, SERVER_IDENTIFIER, LEASE_TIME} :
           OptionRead(bytes, length, code, 4) = LastData(options, code, 4)

\* Whatever options a reply has in whatever order, repeated or with more than
\* one address, the client takes the last value of each it uses and leaves the
\* next datagram in the buffer untouched.
OptionsAreRead ==
  \A n \in 0 .. 3 : \A options \in [1 .. n -> ReplyOptions] :
    ReadsOptions(options, <<10, 0, 0, 1>>)

WritesPacket(type, hostname, xid, secs, mac, ip, server) ==
  LET header  == WrittenHeader(xid, secs, mac)
      options == WrittenOptions(type, mac, hostname, ip, server)
      expected ==
        <<Option(MESSAGE_TYPE, <<type>>), Option(CLIENT_IDENTIFIER, <<1>> \o mac),
          Option(CLIENT_HOSTNAME, SubSeq(hostname, 1, Len(hostname) % 256))>>
        \o (IF type = REQUEST
            THEN <<Option(REQUESTED_IP_ADDR, ip), Option(SERVER_IDENTIFIER, server)>>
            ELSE <<>>)
        \o <<Option(PARAM_REQUEST, <<1, 3, 6, 15, 58, 59>>)>>
  IN  /\ SubSeq(header, 5, 8) = xid /\ SubSeq(header, 29, 34) = mac
      /\ Len(header) = 240 /\ SubSeq(header, 237, 240) = MagicCookie
      /\ options = Laid(expected)

\* What send_dhcp_packet() puts together piece by piece is a DHCP message: the
\* fields where RFC 2131 has them and then a list of whole options, also when
\* the host name is too long for one.
PacketIsLegal ==
  \A type \in {DISCOVER, REQUEST} : \A length \in {0, 1, 12, 255, 256, 300} :
    WritesPacket(type, [i \in 1 .. length |-> 97], SampleIp, <<0, 7>>,
                 SampleMac, SampleIp, <<9, 8, 7, 6>>)

=============================================================================
