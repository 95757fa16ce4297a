------------------------------- MODULE MCDhcp -------------------------------
(***************************************************************************)
(* The DHCP system on instances small enough for TLC, with the algorithms  *)
(* that it takes as given: its random numbers, its header parser and the  *)
(* layout of its packets.                                                  *)
(***************************************************************************)
EXTENDS DhcpSystem, DhcpOptions, BusRandom, HeaderParser, TLC

CONSTANTS s1, s2

\* The servers are interchangeable: no definition tells one from the other.
ServerSymmetry == Permutations({s1, s2})

\* A reply that the client is about to parse has its header read exactly,
\* however the bytes are cut into chunks.
HeadersAreParsed == pc = "parse" /\ rx # <<>> => HeaderIsParsed

\* Its options are read as RFC 2132 lays them out, whatever they are, and
\* nothing of the datagram behind it is.
RepliesAreRead == pc = "parse" /\ rx # <<>> => OptionsAreRead

\* What the client has sent is a DHCP message, whatever its host name is.
PacketsAreLegal == uplink # {} => PacketIsLegal

=============================================================================
