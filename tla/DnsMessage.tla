------------------------------ MODULE DnsMessage ------------------------------
(***************************************************************************)
(* The messages of W5500::Protocols::DNS byte by byte: the question that   *)
(* query() writes, and the way parse_packet() finds an address in a reply. *)
(* The layout of a reply is the name server's.                             *)
(*                                                                         *)
(* A reply is a record [id, name, answer, rcode, records], its name in     *)
(* labels, each of its records a [type, class, ttl, data].                 *)
(***************************************************************************)
EXTENDS Integers, SequencesExt

CONSTANTS
  Second,  \* ticks of the clock in a second: 1000
  U32,     \* width of a 32 bit number: 2^32
  MaxLabel \* octets a label may have: 255

MaxPacketSize == 256
Dot     == 46
ShortAt(buffer, i) == buffer[i] * 256 + buffer[i + 1]
Short(n) == <<n \div 256, n % 256>>

-----------------------------------------------------------------------------
(* Client::query.                                                          *)

\* A label ends at each period and at the end of the host name.
LabelEnds(hostname) ==
  SetToSortSeq({i \in 1 .. Len(hostname) : hostname[i] = Dot}, <)
    \o <<Len(hostname) + 1>>

Labels(hostname) ==
  LET ends == LabelEnds(hostname)
  IN  [k \in DOMAIN ends |->
         SubSeq(hostname, IF k = 1 THEN 1 ELSE ends[k - 1] + 1, ends[k] - 1)]

\* A longer label makes query() give up.
WithinLimit(hostname) ==
  \A k \in DOMAIN Labels(hostname) : Len(Labels(hostname)[k]) <= MaxLabel

WireName(labels) ==
  FlattenSeq([k \in DOMAIN labels |-> <<Len(labels[k])>> \o labels[k]]) \o <<0>>

TypeA   == 1
ClassIN == 1
Question(labels) == WireName(labels) \o Short(TypeA) \o Short(ClassIN)

-----------------------------------------------------------------------------
(* The name server's replies.                                              *)

\* The name of a record points to the question, which follows 12 bytes of
\* header.
RecordBytes(record) ==
  <<192, 12>> \o Short(record.type) \o Short(record.class)
    \o Short(record.ttl \div 65536) \o Short(record.ttl % 65536)
    \o Short(Len(record.data)) \o record.data

ReplyBytes(reply) ==
  Short(reply.id) \o <<IF reply.answer THEN 128 ELSE 0, reply.rcode>>
    \o Short(1) \o Short(Len(reply.records)) \o Short(0) \o Short(0)
    \o Question(reply.name)
    \o FlattenSeq([k \in DOMAIN reply.records |-> RecordBytes(reply.records[k])])

-----------------------------------------------------------------------------
(* Client::parse_packet.                                                   *)

\* The buffer on the stack: behind the packet it holds whatever was there.
Buffer(bytes, stale) ==
  [i \in 0 .. MaxPacketSize - 1 |-> IF i < Len(bytes) THEN bytes[i + 1] ELSE stale]

IsPointer(octet) == octet >= 64 \* octet & 0b11000000

\* Where a loop gets that goes from each offset to the next, in so many rounds.
Walk(next, start, rounds) ==
  LET at[n \in 0 .. rounds] == IF n = 0 THEN start ELSE next[at[n - 1]]
  IN  at[rounds]

\* In as many rounds as the buffer has bytes, which no name outlasts: 16 times
\* 16, for a recursion that is not too deep to evaluate.
WalkName(next, start) ==
  Walk([o \in DOMAIN next |-> Walk(next, o, 16)], start, 16)

\* Where the loop over a name in the question section ends.
QuestionNameEnd(buffer, start) ==
  WalkName([o \in DOMAIN buffer |->
              IF buffer[o] = 0 THEN o
              ELSE IF IsPointer(buffer[o]) THEN o + 2 ELSE o + buffer[o] + 1],
           start)

\* In an answer a pointer ends the name.
AnswerNameEnd(buffer, start) ==
  LET last == WalkName([o \in DOMAIN buffer |->
                          IF buffer[o] = 0 \/ IsPointer(buffer[o]) THEN o
                          ELSE o + buffer[o] + 1],
                       start)
  IN  IF buffer[last] = 0 THEN last ELSE last + 1

\* The offset of the first answer: behind count questions.
AnswersStart(buffer, count) ==
  Walk([o \in DOMAIN buffer |-> QuestionNameEnd(buffer, o) + 5], 12, count)

RecordSizeForgettingType == 13

\* From the last byte of a name to the next record, if this one holds an
\* address.
RecordSize == 15

HoldsAddress(buffer, end) ==
  ShortAt(buffer, end + 1) = TypeA /\ ShortAt(buffer, end + 3) = ClassIN

\* Where the name of the first address record of count answers ends, the
\* first answer starting at start; 0 if the loop finds none.
AddressRecord(buffer, start, count) ==
  LET next == [o \in DOMAIN buffer |->
                 LET end == AnswerNameEnd(buffer, o)
                 IN  IF HoldsAddress(buffer, end) THEN o ELSE end + RecordSize]
      last == AnswerNameEnd(buffer, Walk(next, start, count - 1))
  IN  IF count > 0 /\ HoldsAddress(buffer, last) THEN last ELSE 0

\* ttl_secs * 1000, computed in 32 bits.
Lifetime(ttl) == (ttl * Second) % U32

\* The id, address and life that parse_packet() hands to the cache for a
\* reply, none if it hands it nothing.
ParsedFrom(buffer, none) ==
  LET at == AddressRecord(buffer, AnswersStart(buffer, ShortAt(buffer, 4)),
                          ShortAt(buffer, 6))
  IN  IF buffer[2] < 128 \/ buffer[3] % 16 # 0 \/ at = 0 THEN none
      ELSE [id   |-> ShortAt(buffer, 0),
            ip   |-> [k \in 1 .. 4 |-> buffer[at + 10 + k]],
            left |-> Lifetime(ShortAt(buffer, at + 5) * 65536 + ShortAt(buffer, at + 7))]

ParsedReply(reply, stale, none) ==
  IF Len(ReplyBytes(reply)) > MaxPacketSize THEN none
  ELSE ParsedFrom(Buffer(ReplyBytes(reply), stale), none)

-----------------------------------------------------------------------------

\* Replies as RFC 1035 lays them out.
Labelled == {label \in Seq(Nat) : Len(label) \in 1 .. 63}
Records  == [type : Nat, class : Nat, ttl : Nat, data : Seq(Nat)]
Wellformed ==
  [id : Nat, name : Seq(Labelled), answer : BOOLEAN, rcode : 0 .. 15, records : Seq(Records)]

AddressesOf(reply) ==
  {k \in DOMAIN reply.records :
     reply.records[k].type = TypeA /\ reply.records[k].class = ClassIN}

\* Is no record up to the first address of another size than an address?
Aligned(reply) ==
  \A k \in DOMAIN reply.records :
    (\A j \in AddressesOf(reply) : k <= j) => Len(reply.records[k].data) = 4

\* For reference, what a reply of a size the client takes says: its first
\* address.
SaidReply(reply, none) ==
  LET first == reply.records[Min(AddressesOf(reply))]
  IN  IF \/ ~reply.answer \/ reply.rcode # 0 \/ AddressesOf(reply) = {}
         \/ Len(ReplyBytes(reply)) > MaxPacketSize
      THEN none
      ELSE [id |-> reply.id, ip |-> first.data, left |-> Lifetime(first.ttl)]

=============================================================================
