----------------------------- MODULE HeaderParser -----------------------------
(***************************************************************************)
(* ParseContext of Protocols/DHCP.hpp: the fixed header of a DHCP message, *)
(* parsed in chunks of any size.  consume() enters a switch at the byte it *)
(* has come to and falls through; the test that is to leave it after the   *)
(* last byte of a chunk lets it go one byte further, which next time is    *)
(* parsed again.                                                           *)
(*                                                                         *)
(* A byte is the set of its bits.  The fields are the bytes that make them *)
(* up; those of xid, secs and flags are or-ed into place.                  *)
(***************************************************************************)
EXTENDS Integers

TotalSize == 34
Offsets   == 0 .. TotalSize - 1
OrFields  == 4 .. 11

Fresh == [fields |-> [i \in Offsets |-> {}], offset |-> 0]

\* How far the switch gets: BRK(X) breaks only when X - _offset >= size.
Parses(parser, size, i) == parser.offset <= i /\ i - parser.offset <= size

ConsumeSkippingByte(parser, data, size) ==
  [fields |-> [i \in Offsets |->
                 IF parser.offset < i /\ i - parser.offset <= size
                 THEN data[i - parser.offset]
                 ELSE parser.fields[i]],
   offset |-> IF parser.offset + size >= TotalSize THEN TotalSize
                                                   ELSE parser.offset + size]

\* ParseContext::consume, on data that goes on behind its size bytes.
Consume(parser, data, size) ==
  [fields |-> [i \in Offsets |->
                 IF ~Parses(parser, size, i) THEN parser.fields[i]
                 ELSE IF i \in OrFields
                 THEN parser.fields[i] \cup data[i - parser.offset]
                 ELSE data[i - parser.offset]],
   offset |-> IF parser.offset + size >= TotalSize THEN TotalSize
                                                   ELSE parser.offset + size]

-----------------------------------------------------------------------------

\* The part of a header from one offset on, with garbage behind size bytes.
Chunk(header, from, size, garbage) ==
  [i \in 0 .. TotalSize |-> IF i < size THEN header[from + i] ELSE garbage]

\* A header in two chunks, the first one of size bytes.
InTwo(header, size, garbage) ==
  Consume(Consume(Fresh, Chunk(header, 0, size, garbage), size),
          Chunk(header, size, TotalSize - size, garbage), TotalSize - size)

\* A header that arrives in one piece, as parse_dhcp_response() reads it, is
\* parsed exactly.
WholeIsExact(header, garbage) ==
  Consume(Fresh, Chunk(header, 0, TotalSize, garbage), TotalSize)
    = [fields |-> header, offset |-> TotalSize]

\* Wherever a header is cut in two, the addresses are parsed exactly and the
\* numbers lose no bit; what lay behind the first chunk may be left in one.
PiecesAreSound(header, size, garbage) ==
  LET parser == InTwo(header, size, garbage)
  IN  /\ parser.offset = TotalSize
      /\ \A i \in Offsets : header[i] \subseteq parser.fields[i]
      /\ \A i \in Offsets \ (OrFields \cap {size}) : parser.fields[i] = header[i]

\* Both, of a header with all kinds of bytes in all places.
HeaderIsParsed ==
  \A shift \in 0 .. 3 : \A garbage \in SUBSET {0, 1} :
    LET header == [i \in Offsets |-> CASE (i + shift) % 4 = 0 -> {}
                                       [] (i + shift) % 4 = 1 -> {0}
                                       [] (i + shift) % 4 = 2 -> {1}
                                       [] OTHER -> {0, 1}]
    IN  /\ WholeIsExact(header, garbage)
        /\ \A size \in 0 .. TotalSize : PiecesAreSound(header, size, garbage)

=============================================================================
