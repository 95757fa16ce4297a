------------------------------- MODULE MCDns -------------------------------
(***************************************************************************)
(* DnsClient with real messages: query ids from Crc16, replies laid out    *)
(* and parsed by DnsMessage.  A second is two ticks and a 32 bit number    *)
(* five, so that the life of an answer can wrap around.                    *)
(***************************************************************************)
EXTENDS DnsClient, DnsMessage, Crc16

CONSTANT AliasData \* the data of the alias records that servers send

\* "a.b", "c", and a name with a label above the limit.
Host    == <<97, 46, 98>>
Other   == <<99>>
Endless == <<97, 97, 97>>

MCNames == {Host, Other, Endless}
IdTable == [name \in MCNames |-> Of(name)]
MCIdOf(name) == IdTable[name]
MCIds   == Range(IdTable)
ASSUME IsInjective(IdTable)

Ip1 == <<10, 0, 0, 1>>
Ip2 == <<10, 0, 0, 2>>
MCIps == {Ip1, Ip2}

Record(type, ttl, data) == [type |-> type, class |-> 1, ttl |-> ttl, data |-> data]
Reply(name, rcode, records) ==
  [id |-> Of(name), name |-> Labels(name), answer |-> TRUE, rcode |-> rcode,
   records |-> records]

\* An alias and two addresses; one address; an error.  Of the seconds that
\* records live, five wrap around to no tick and three to one.
RepliesTable ==
  (Host :> {Reply(Host, 0, <<Record(5, 1, data), Record(1, 5, Ip2), Record(1, 3, Ip1)>>)
              : data \in AliasData}) @@
  (Other :> {Reply(Other, 0, <<Record(1, 3, Ip1)>>), Reply(Other, 3, <<>>)}) @@
  (Endless :> {})

\* Evaluated once.
MCReplies(name) == RepliesTable[name]
AskableNames == {name \in MCNames : WithinLimit(name)}
MCAskable(name) == name \in AskableNames
ParsedTable == [reply \in UNION Range(RepliesTable) |-> ParsedReply(reply, 0, NoAnswer)]
SaidTable   == [reply \in UNION Range(RepliesTable) |-> SaidReply(reply, NoAnswer)]
MCParsed(reply) == ParsedTable[reply]
MCSaid(reply)   == SaidTable[reply]

\* Nothing that the parser uses lies behind the end of these packets.
ASSUME \A reply \in UNION Range(RepliesTable) :
         ParsedReply(reply, 255, NoAnswer) = ParsedReply(reply, 0, NoAnswer)

\* What DnsClient takes as given is what the parser does with whole replies, whose
\* records are of the size it expects.
RepliesAreBytes ==
  \A reply \in AllReplies :
    /\ reply \in Wellformed /\ Aligned(reply)
    /\ Parsed(reply) = ParsedReply(reply, 0, NoAnswer)
    /\ Said(reply) = SaidReply(reply, NoAnswer)
ASSUME (\A data \in AliasData : Len(data) = 4) => RepliesAreBytes

\* The cache is filled under sums that are the remainder of the polynomial
\* division of CRC-16, for whatever octets a name has.
IdsAreRemainders == (\E i \in Places : slots[i] # NoAnswer) => IsPolynomialRemainder

\* Names of three letters, digits, hyphens or dots that are neighbours of Host or
\* are Host, and Other's; with their ids and who
\* takes an answer under an id, evaluated once.
Letters == (97 .. 122) \cup (48 .. 57) \cup {45, 46}
Lookalikes ==
  {<<97, a, b>> : a, b \in Letters} \cup {<<a, b, 98>> : a, b \in Letters} \cup
  {<<a>> : a \in Letters}
LookalikeIds == [name \in Lookalikes |-> Of(name)]
TakersOf == [id \in Ids |-> {name \in Lookalikes : LookalikeIds[name] = id}]

\* An answer in the cache is never taken for the address of a name and for that of a
\* neighbour: host names that differ in a letter or two side by side, like those of
\* numbered devices, never share an id.
NeighboursKeptApart ==
  \A i \in Places : Live(slots[i]) =>
    \A s, t \in TakersOf[slots[i].id] : ~Neighbours(s, t)

\* An alias for a name of four bytes, "b" and a pointer, and for one of six.
ShortAlias == {<<1, 98, 192, 12>>}
LongAlias  == {<<3, 119, 119, 119, 192, 12>>}

=============================================================================
