----------------------------- MODULE DhcpProofs -----------------------------
(***************************************************************************)
(* What the DHCP client guarantees.  First its algorithms: the random      *)
(* numbers for every register, the header parser for every header, the     *)
(* option parser for every list of options and what it sends for all       *)
(* addresses, numbers and names.  Then DhcpSystem, for any servers,        *)
(* timings and bounds.                                                     *)
(***************************************************************************)
EXTENDS MCDhcp, NumberProofs, SequenceTheorems

-----------------------------------------------------------------------------
(* Bus::random.                                                            *)

LEMMA NextBits ==
  ASSUME NEW register \in Registers
  PROVE  /\ Random(register) \in Registers
         /\ Random(register)[63] = TapXor(register)
         /\ \A i \in 0 .. 62 : Random(register)[i] = register[i + 1]
<1>1. \A i \in Positions : register[i] \in {0, 1}
  BY DEF Registers
<1>2. TapXor(register) \in {0, 1}
  BY <1>1 DEF TapXor, Positions, Width
<1> QED
  BY <1>1, <1>2 DEF Random, Registers, Positions, Width

\* A generator is alive after a step exactly if it was before: from a seed with
\* one of its upper five bits set it never stops, from any other it only shifts
\* zeros in.
THEOREM AliveForEver ==
  \A register \in Registers : Alive(Random(register)) <=> Alive(register)
<1> SUFFICES ASSUME NEW register \in Registers
             PROVE  Alive(Random(register)) <=> Alive(register)
  OBVIOUS
<1> DEFINE a == register[59]  b == register[60]  c == register[61]  d == register[62]  e == register[63]
<1>1. /\ a \in {0, 1} /\ b \in {0, 1} /\ c \in {0, 1} /\ d \in {0, 1} /\ e \in {0, 1}
  BY DEF Registers, Positions, Width
<1>2. /\ Random(register)[59] = b /\ Random(register)[60] = c /\ Random(register)[61] = d
      /\ Random(register)[62] = e /\ Random(register)[63] = TapXor(register)
  BY NextBits
<1>3. Alive(register) <=> a = 1 \/ b = 1 \/ c = 1 \/ d = 1 \/ e = 1
  BY DEF Alive
<1>4. Alive(Random(register)) <=> b = 1 \/ c = 1 \/ d = 1 \/ e = 1 \/ TapXor(register) = 1
  BY <1>2 DEF Alive
<1>5. b = 0 /\ c = 0 /\ d = 0 /\ e = 0 => (TapXor(register) = 1 <=> a = 1)
  BY <1>1 DEF TapXor
<1> QED
  BY <1>1, <1>3, <1>4, <1>5

\* In particular of every combination of upper bits.
THEOREM FateSealed == FateIsSealed
<1> SUFFICES ASSUME NEW top \in [59 .. 63 -> {0, 1}]
             PROVE  LET register == [i \in Positions |-> IF i < 59 THEN 1 ELSE top[i]]
                    IN  Alive(Random(register)) <=> Alive(register)
  BY DEF FateIsSealed
<1> DEFINE register == [i \in Positions |-> IF i < 59 THEN 1 ELSE top[i]]
<1>1. register \in Registers
  BY DEF Registers, Positions, Width
<1> QED
  BY <1>1, AliveForEver

-----------------------------------------------------------------------------
(* ParseContext::consume.                                                  *)

Headers(Bits) == [Offsets -> SUBSET Bits]

\* What one call makes of each byte and of the offset.
LEMMA Consumed ==
  ASSUME NEW parser, NEW data, NEW size
  PROVE  /\ Consume(parser, data, size).offset
              = IF parser.offset + size >= TotalSize THEN TotalSize ELSE parser.offset + size
         /\ \A i \in Offsets :
              Consume(parser, data, size).fields[i]
                = IF ~Parses(parser, size, i) THEN parser.fields[i]
                  ELSE IF i \in OrFields THEN parser.fields[i] \cup data[i - parser.offset]
                  ELSE data[i - parser.offset]
  BY DEF Consume

LEMMA WholeParsed ==
  ASSUME NEW Bits, NEW header \in Headers(Bits), NEW garbage
  PROVE  WholeIsExact(header, garbage)
<1> DEFINE data == Chunk(header, 0, TotalSize, garbage)
<1>1. \A i \in Offsets : data[i - 0] = header[i] /\ Parses(Fresh, TotalSize, i)
  BY DEF Chunk, Offsets, TotalSize, Fresh, Parses
<1>2. \A i \in Offsets : Fresh.fields[i] = {}
  BY DEF Fresh
<1>3. Fresh.offset = 0
  BY DEF Fresh
<1> HIDE DEF data
<1>4. Consume(Fresh, data, TotalSize).fields = header
  <2>1. Consume(Fresh, data, TotalSize).fields
          = [i \in Offsets |-> IF i \in OrFields THEN {} \cup data[i - 0] ELSE data[i - 0]]
    BY <1>1, <1>2, <1>3 DEF Consume
  <2> QED
    BY <1>1, <2>1 DEF Headers
<1>5. Consume(Fresh, data, TotalSize).offset = TotalSize
  BY <1>3 DEF Consume, TotalSize
<1>6. Consume(Fresh, data, TotalSize)
        = [fields |-> Consume(Fresh, data, TotalSize).fields,
           offset |-> Consume(Fresh, data, TotalSize).offset]
  BY DEF Consume
<1> QED
  BY <1>4, <1>5, <1>6 DEF WholeIsExact, data

LEMMA OffsetsAreNumbers == \A i \in Offsets : i \in Int /\ i - 0 = i
  BY DEF Offsets, TotalSize

\* Up to its end the first piece is parsed exactly.
LEMMA FirstPiece ==
  ASSUME NEW Bits, NEW header \in Headers(Bits), NEW size \in 0 .. TotalSize,
         NEW data, \A i \in Offsets : i < size => data[i] = header[i],
         NEW new, new.offset = 0, \A i \in Offsets : new.fields[i] = {},
         NEW half, half = Consume(new, data, size)
  PROVE  /\ half.offset = size
         /\ \A i \in Offsets : i < size => half.fields[i] = header[i]
         /\ \A i \in Offsets : i > size => half.fields[i] = {}
<1>1. half.offset = size
  <2>1. half.offset = IF 0 + size >= TotalSize THEN TotalSize ELSE 0 + size
    BY Consumed
  <2> QED
    BY <2>1 DEF TotalSize
<1>2. ASSUME NEW i \in Offsets
      PROVE  /\ i < size => half.fields[i] = header[i]
             /\ i > size => half.fields[i] = {}
  <2>1. i \in Int /\ i - 0 = i /\ size \in Int /\ 0 <= i
    BY OffsetsAreNumbers DEF Offsets, TotalSize
  <2>2. Parses(new, size, i) <=> i <= size
    BY <2>1 DEF Parses
  <2>3. half.fields[i] = IF ~Parses(new, size, i) THEN {}
                         ELSE IF i \in OrFields THEN {} \cup data[i] ELSE data[i]
    <3>1. half.fields[i] = IF ~Parses(new, size, i) THEN new.fields[i]
                           ELSE IF i \in OrFields THEN new.fields[i] \cup data[i - new.offset]
                           ELSE data[i - new.offset]
      BY Consumed
    <3>2. data[i - new.offset] = data[i] /\ new.fields[i] = {}
      BY <2>1
    <3> QED
      BY <3>1, <3>2
  <2>4. i > size => ~(i <= size)
    BY <2>1
  <2>5. i < size => i <= size
    BY <2>1
  <2> QED
    BY <2>2, <2>3, <2>4, <2>5
<1> QED
  BY <1>1, <1>2

\* The second one is added to what the first one left.
LEMMA SecondPiece ==
  ASSUME NEW Bits, NEW header \in Headers(Bits), NEW size \in 0 .. TotalSize,
         NEW data, \A i \in Offsets : i >= size => data[i - size] = header[i],
         NEW half, half.offset = size,
         NEW whole, whole = Consume(half, data, TotalSize - size)
  PROVE  /\ whole.offset = TotalSize
         /\ \A i \in Offsets :
              whole.fields[i] = IF i < size THEN half.fields[i]
                                ELSE IF i \in OrFields THEN half.fields[i] \cup header[i]
                                ELSE header[i]
<1>1. whole.offset = TotalSize
  <2>1. size + (TotalSize - size) = TotalSize
    BY DEF TotalSize
  <2> QED
    BY <2>1, Consumed
<1>2. ASSUME NEW i \in Offsets
      PROVE  whole.fields[i] = IF i < size THEN half.fields[i]
                               ELSE IF i \in OrFields THEN half.fields[i] \cup header[i]
                               ELSE header[i]
  <2>1. Parses(half, TotalSize - size, i) <=> i >= size
    BY DEF Parses, Offsets, TotalSize
  <2>2. i < size <=> ~(i >= size)
    BY DEF Offsets, TotalSize
  <2>3. whole.fields[i] = IF ~Parses(half, TotalSize - size, i) THEN half.fields[i]
                          ELSE IF i \in OrFields THEN half.fields[i] \cup data[i - size]
                          ELSE data[i - size]
    BY Consumed
  <2> QED
    BY <2>1, <2>2, <2>3
<1> QED
  BY <1>1, <1>2

LEMMA PiecesParsed ==
  ASSUME NEW Bits, NEW header \in Headers(Bits), NEW garbage,
         NEW size \in 0 .. TotalSize
  PROVE  PiecesAreSound(header, size, garbage)
<1> DEFINE first  == Chunk(header, 0, size, garbage)
           second == Chunk(header, size, TotalSize - size, garbage)
           half   == Consume(Fresh, first, size)
           whole  == Consume(half, second, TotalSize - size)
<1>1. \A i \in Offsets : i < size => first[i] = header[i]
  BY DEF Chunk, Offsets, TotalSize
<1>2. \A i \in Offsets : i >= size => second[i - size] = header[i]
  BY DEF Chunk, Offsets, TotalSize
<1>3. InTwo(header, size, garbage) = whole
  BY DEF InTwo
<1> HIDE DEF first, second
<1>4. /\ half.offset = size
      /\ \A i \in Offsets : i < size => half.fields[i] = header[i]
      /\ \A i \in Offsets : i > size => half.fields[i] = {}
  <2>1. Fresh.offset = 0 /\ \A i \in Offsets : Fresh.fields[i] = {}
    BY DEF Fresh
  <2> QED
    BY <1>1, <2>1, FirstPiece
<1> HIDE DEF half
<1>5. /\ whole.offset = TotalSize
      /\ \A i \in Offsets :
           whole.fields[i] = IF i < size THEN half.fields[i]
                             ELSE IF i \in OrFields THEN half.fields[i] \cup header[i]
                             ELSE header[i]
  <2>1. half.offset = size
    BY <1>4
  <2>2. whole = Consume(half, second, TotalSize - size)
    OBVIOUS
  <2> HIDE DEF whole
  <2> QED
    BY <1>2, <2>1, <2>2, SecondPiece
<1> HIDE DEF whole
<1>6. ASSUME NEW i \in Offsets
      PROVE  /\ header[i] \subseteq whole.fields[i]
             /\ i \notin OrFields \cap {size} => whole.fields[i] = header[i]
  <2>1. i < size \/ i = size \/ i > size
    BY DEF Offsets, TotalSize
  <2>2. CASE i < size
    BY <1>4, <1>5, <2>2
  <2>3. CASE i = size
    <3>1. ~(i < size)
      BY <2>3 DEF Offsets, TotalSize
    <3>2. whole.fields[i] = IF i \in OrFields THEN half.fields[i] \cup header[i] ELSE header[i]
      BY <1>5, <3>1
    <3> QED
      BY <2>3, <3>2
  <2>4. CASE i > size
    <3>1. ~(i < size)
      BY <2>4 DEF Offsets, TotalSize
    <3>2. half.fields[i] = {}
      BY <1>4, <2>4
    <3>3. whole.fields[i] = header[i]
      BY <1>5, <3>1, <3>2
    <3> QED
      BY <3>3
  <2> QED
    BY <2>1, <2>2, <2>3, <2>4
<1> QED
  BY <1>3, <1>5, <1>6 DEF PiecesAreSound

\* A header is parsed exactly in one piece and soundly in two, for every header
\* and wherever it is cut, although the parser reads a byte behind each piece.
THEOREM HeadersParsed ==
  ASSUME NEW Bits, NEW header \in Headers(Bits), NEW garbage
  PROVE  /\ WholeIsExact(header, garbage)
         /\ \A size \in 0 .. TotalSize : PiecesAreSound(header, size, garbage)
  BY WholeParsed, PiecesParsed

THEOREM SamplesParsed == HeaderIsParsed
<1> SUFFICES ASSUME NEW shift \in 0 .. 3, NEW garbage \in SUBSET {0, 1}
             PROVE  LET header == [i \in Offsets |->
                                     CASE (i + shift) % 4 = 0 -> {}
                                       [] (i + shift) % 4 = 1 -> {0}
                                       [] (i + shift) % 4 = 2 -> {1}
                                       [] OTHER -> {0, 1}]
                    IN  /\ WholeIsExact(header, garbage)
                        /\ \A size \in 0 .. TotalSize : PiecesAreSound(header, size, garbage)
  BY DEF HeaderIsParsed
<1> DEFINE header == [i \in Offsets |-> CASE (i + shift) % 4 = 0 -> {}
                                        [] (i + shift) % 4 = 1 -> {0}
                                        [] (i + shift) % 4 = 2 -> {1}
                                        [] OTHER -> {0, 1}]
<1>1. header \in Headers({0, 1})
  BY DEF Headers, Offsets, TotalSize
<1> QED
  BY <1>1, HeadersParsed

-----------------------------------------------------------------------------
(* Options, one behind the other.                                          *)

Octets == 0 .. 255

\* Options as RFC 2132 has them: those that the client reads without looking at
\* their length have the one it expects, lists of addresses at least one.
WholeOptions ==
  {o \in [code : Octets \ {END_OPTIONS}, data : Seq(Octets)] :
     /\ Len(o.data) \in Octets
     /\ OptionSize(o.code, Len(o.data)) = 2 + Len(o.data)
     /\ o.code \in {ROUTERS_ON_SUBNET, DNS} => Len(o.data) >= 4}

\* What the proofs use of them.
LEMMA WholeFacts ==
  ASSUME NEW o \in WholeOptions
  PROVE  /\ o.code \in Octets \ {END_OPTIONS} /\ o.data \in Seq(Octets)
         /\ Len(o.data) \in Octets /\ Len(o.data) \in Nat
         /\ OptionSize(o.code, Len(o.data)) = 2 + Len(o.data)
         /\ o.code \in {ROUTERS_ON_SUBNET, DNS} => Len(o.data) >= 4
<1>1. /\ o \in [code : Octets \ {END_OPTIONS}, data : Seq(Octets)] /\ Len(o.data) \in Octets
      /\ OptionSize(o.code, Len(o.data)) = 2 + Len(o.data)
      /\ o.code \in {ROUTERS_ON_SUBNET, DNS} => Len(o.data) >= 4
  BY Zenon DEF WholeOptions
<1>2. \A n \in Octets : n \in Nat
  BY DEF Octets
<1>3. o.code \in Octets \ {END_OPTIONS} /\ o.data \in Seq(Octets)
  BY <1>1
<1> QED
  BY <1>1, <1>2, <1>3, Zenon

Laying(o) == <<o.code, Len(o.data)>> \o o.data

LEMMA Joined ==
  ASSUME NEW S, NEW s \in Seq(S), NEW t \in Seq(S)
  PROVE  /\ s \o t \in Seq(S) /\ Len(s \o t) = Len(s) + Len(t)
         /\ \A i \in 1 .. Len(s) : (s \o t)[i] = s[i]
         /\ \A i \in 1 .. Len(t) : (s \o t)[Len(s) + i] = t[i]
<1>1. Len(s) \in Nat /\ Len(t) \in Nat
  OBVIOUS
<1>2. /\ s \o t \in Seq(S) /\ Len(s \o t) = Len(s) + Len(t)
      /\ \A i \in 1 .. Len(s) + Len(t) :
           (s \o t)[i] = IF i <= Len(s) THEN s[i] ELSE t[i - Len(s)]
  BY ConcatProperties
<1>3. ASSUME NEW i \in 1 .. Len(s) PROVE (s \o t)[i] = s[i]
  BY <1>1, <1>2
<1>4. ASSUME NEW i \in 1 .. Len(t) PROVE (s \o t)[Len(s) + i] = t[i]
  <2>1. Len(s) + i \in 1 .. Len(s) + Len(t) /\ ~(Len(s) + i <= Len(s))
        /\ (Len(s) + i) - Len(s) = i
    BY <1>1
  <2> QED
    BY <1>2, <2>1
<1> QED
  BY <1>2, <1>3, <1>4

LEMMA LayingIs ==
  ASSUME NEW o \in WholeOptions
  PROVE  /\ Laying(o) \in Seq(Octets) /\ Len(Laying(o)) = 2 + Len(o.data)
         /\ Laying(o)[1] = o.code /\ Laying(o)[2] = Len(o.data)
         /\ \A i \in 1 .. Len(o.data) : Laying(o)[2 + i] = o.data[i]
<1>1. /\ o.code \in Octets /\ Len(o.data) \in Octets /\ o.data \in Seq(Octets)
      /\ Len(o.data) \in Nat
  BY WholeFacts
<1> DEFINE front == <<o.code, Len(o.data)>>
<1>2. front \in Seq(Octets) /\ Len(front) = 2 /\ front[1] = o.code /\ front[2] = Len(o.data)
  BY <1>1
<1> HIDE DEF front
<1> DEFINE d == o.data
<1>3. d \in Seq(Octets) /\ Len(d) \in Nat
  BY <1>1
<1> HIDE DEF d
<1>4. /\ front \o d \in Seq(Octets) /\ Len(front \o d) = 2 + Len(d)
      /\ (front \o d)[1] = front[1] /\ (front \o d)[2] = front[2]
      /\ \A i \in 1 .. Len(d) : (front \o d)[2 + i] = d[i]
  <2> DEFINE Lists == Seq(Octets)
  <2>3. ASSUME NEW s \in Lists, NEW t \in Lists
        PROVE  /\ s \o t \in Lists /\ Len(s \o t) = Len(s) + Len(t)
               /\ \A i \in 1 .. Len(s) : (s \o t)[i] = s[i]
               /\ \A i \in 1 .. Len(t) : (s \o t)[Len(s) + i] = t[i]
    BY Joined
  <2>4. front \in Lists /\ d \in Lists
    BY <1>2, <1>3
  <2>1. /\ front \o d \in Lists /\ Len(front \o d) = Len(front) + Len(d)
        /\ \A i \in 1 .. Len(front) : (front \o d)[i] = front[i]
        /\ \A i \in 1 .. Len(d) : (front \o d)[Len(front) + i] = d[i]
    <3> HIDE DEF Lists
    <3> QED
      BY <2>3, <2>4, Zenon
  <2>2. 1 \in 1 .. Len(front) /\ 2 \in 1 .. Len(front)
    BY <1>2
  <2> QED
    BY <1>2, <2>1, <2>2
<1> QED
  BY <1>2, <1>4 DEF Laying, front, d

\* The bytes of the first n options.
LaidFrom(options) ==
  CHOOSE laid : laid = [n \in 0 .. Len(options) |->
    IF n = 0 THEN <<>>
    ELSE laid[n - 1] \o <<options[n].code, Len(options[n].data)>> \o options[n].data]

LEMMA LaidExists ==
  ASSUME NEW options, Len(options) \in Nat,
         \A n \in 1 .. Len(options) : options[n] \in WholeOptions
  PROVE  /\ Laid(options) = LaidFrom(options)[Len(options)] \o <<END_OPTIONS>>
         /\ LaidFrom(options)[0] = <<>>
         /\ \A n \in 0 .. Len(options) : LaidFrom(options)[n] \in Seq(Octets)
         /\ \A n \in 1 .. Len(options) :
              LaidFrom(options)[n] = LaidFrom(options)[n - 1] \o Laying(options[n])
<1> DEFINE len == Len(options)
           Lists == Seq(Octets)
           none == <<>>
           After(before, n) == before \o <<options[n].code, Len(options[n].data)>>
                                      \o options[n].data
           step == [n \in 1 .. len |-> [before \in Lists |-> After(before, n)]]
           Good(f) == f = [n \in 0 .. len |-> IF n = 0 THEN <<>> ELSE After(f[n - 1], n)]
<1>1. len \in Nat /\ none \in Lists
  OBVIOUS
<1>2. \A before \in Lists : \A n \in 1 .. len :
        /\ After(before, n) = before \o Laying(options[n])
        /\ After(before, n) \in Lists
  <2> TAKE before \in Lists
  <2> TAKE n \in 1 .. len
  <2> DEFINE a == <<options[n].code, Len(options[n].data)>>  b == options[n].data
  <2>1. options[n] \in WholeOptions
    OBVIOUS
  <2>2. a \in Lists /\ b \in Lists
    BY <2>1 DEF WholeOptions
  <2>3. a \o b = Laying(options[n])
    BY DEF Laying
  <2>4. After(before, n) = (before \o a) \o b
    OBVIOUS
  <2> HIDE DEF a, b, After
  <2>5. (before \o a) \o b = before \o (a \o b) /\ before \o (a \o b) \in Lists
    BY <2>2, ConcatAssociative
  <2> QED
    BY <2>3, <2>4, <2>5
<1> HIDE DEF After, len, Lists, none
<1>3. step \in [1 .. len -> [Lists -> Lists]]
  BY <1>2
<1>4. \A before \in Lists : \A n \in 1 .. len : step[n][before] = After(before, n)
  OBVIOUS
<1> HIDE DEF step, Good
<1>5. PICK f \in [0 .. len -> Lists] :
        f[0] = none /\ \A n \in 1 .. len : f[n] = step[n][f[n - 1]]
  <2>1. len \in Nat /\ none \in Lists
    BY <1>1
  <2>2. PICK f : Recursive(f, Lists, none, len, step)
    BY <2>1, <1>3, Recursion, Zenon
  <2> QED
    BY <2>2, Zenon DEF Recursive
<1>6. ASSUME NEW n \in 0 .. len PROVE f[n] = IF n = 0 THEN <<>> ELSE After(f[n - 1], n)
  <2>1. CASE n = 0
    BY <1>5, <2>1 DEF none
  <2>2. CASE n # 0
    <3>1. n \in 1 .. len /\ n - 1 \in 0 .. len
      BY <1>1, <2>2
    <3>2. f[n - 1] \in Lists /\ f[n] = step[n][f[n - 1]]
      BY <1>5, <3>1
    <3> QED
      BY <1>4, <2>2, <3>1, <3>2
  <2> QED
    BY <2>1, <2>2
<1>7. Good(f)
  BY <1>6 DEF Good
<1>8. Good(LaidFrom(options))
  BY <1>7 DEF LaidFrom, After, len, Good
<1> DEFINE L == LaidFrom(options)
<1>9. L[0] = none /\ \A n \in 1 .. len : L[n] = After(L[n - 1], n)
  <2>1. 0 \in 0 .. len /\ \A n \in 1 .. len : n \in 0 .. len /\ n # 0
    BY <1>1
  <2> QED
    BY <1>8, <2>1 DEF Good, none
<1> HIDE DEF L
<1>10. \A n \in 0 .. len : L[n] \in Lists
  <2> DEFINE S == {n \in Nat : n <= len => L[n] \in Lists}
  <2>1. 0 \in S
    BY <1>1, <1>9
  <2>2. ASSUME NEW n \in Nat, n \in S PROVE n + 1 \in S
    <3>1. CASE n + 1 <= len
      <4>1. n + 1 \in 1 .. len /\ (n + 1) - 1 = n /\ n <= len
        BY <1>1, <3>1
      <4>2. After(L[n], n + 1) \in Lists
        BY <1>2, <2>2, <4>1
      <4> QED
        BY <1>9, <4>1, <4>2
    <3>2. CASE ~(n + 1 <= len)
      BY <3>2
    <3> QED
      BY <3>1, <3>2
  <2> HIDE DEF S
  <2>3. \A n \in Nat : n \in S
    BY <2>1, <2>2, Inductive
  <2> QED
    BY <1>1, <2>3 DEF S
<1>11. \A n \in 1 .. len : L[n] = L[n - 1] \o Laying(options[n])
  <2> TAKE n \in 1 .. len
  <2>1. n - 1 \in 0 .. len
    BY <1>1
  <2> QED
    BY <1>2, <1>9, <1>10, <2>1
<1>12. Laid(options) = LaidFrom(options)[Len(options)] \o <<END_OPTIONS>>
  BY DEF Laid, LaidFrom
<1> QED
  BY <1>9, <1>10, <1>11, <1>12 DEF len, Lists, none, L

End(options, n) == Len(LaidFrom(options)[n])

Whole(options) ==
  /\ Len(options) \in Nat /\ DOMAIN options = 1 .. Len(options)
  /\ \A n \in 1 .. Len(options) : options[n] \in WholeOptions

LEMMA EndsGrow ==
  ASSUME NEW options, Whole(options)
  PROVE  /\ End(options, 0) = 0
         /\ \A n \in 0 .. Len(options) : End(options, n) \in Nat
         /\ \A n \in 1 .. Len(options) :
              /\ Len(options[n].data) \in Nat
              /\ End(options, n) = End(options, n - 1) + 2 + Len(options[n].data)
              /\ \A i \in 1 .. End(options, n - 1) :
                   LaidFrom(options)[n][i] = LaidFrom(options)[n - 1][i]
              /\ \A i \in 1 .. 2 + Len(options[n].data) :
                   LaidFrom(options)[n][End(options, n - 1) + i] = Laying(options[n])[i]
<1> DEFINE len == Len(options)
<1>1. len \in Nat /\ \A n \in 1 .. len : options[n] \in WholeOptions
  BY DEF Whole
<1> DEFINE L == LaidFrom(options)
<1>2. /\ L[0] = <<>>
      /\ \A n \in 0 .. len : L[n] \in Seq(Octets)
      /\ \A n \in 1 .. len : L[n] = L[n - 1] \o Laying(options[n])
  BY <1>1, LaidExists
<1> HIDE DEF L, len
<1>3. Len(L[0]) = 0
  BY <1>2
<1>4. \A n \in 0 .. len : Len(L[n]) \in Nat
  BY <1>2
<1>5. ASSUME NEW n \in 1 .. len
      PROVE  /\ Len(options[n].data) \in Nat
             /\ Len(L[n]) = Len(L[n - 1]) + 2 + Len(options[n].data)
             /\ \A i \in 1 .. Len(L[n - 1]) : L[n][i] = L[n - 1][i]
             /\ \A i \in 1 .. 2 + Len(options[n].data) :
                  L[n][Len(L[n - 1]) + i] = Laying(options[n])[i]
  <2> DEFINE o == options[n]  a == L[n - 1]  b == Laying(o)
  <2>1. o \in WholeOptions /\ n - 1 \in 0 .. len
    BY <1>1
  <2>2. b \in Seq(Octets) /\ Len(b) = 2 + Len(o.data)
    BY <2>1, LayingIs
  <2>3. a \in Seq(Octets) /\ L[n] = a \o b
    BY <1>2, <2>1
  <2>4. Len(o.data) \in Nat /\ Len(a) \in Nat
    BY <1>4, <2>1, WholeFacts
  <2> HIDE DEF a, b, o
  <2>5. /\ Len(a \o b) = Len(a) + Len(b)
        /\ \A i \in 1 .. Len(a) : (a \o b)[i] = a[i]
        /\ \A i \in 1 .. Len(b) : (a \o b)[Len(a) + i] = b[i]
    <3>1. a \in Seq(Octets) /\ b \in Seq(Octets)
      BY <2>2, <2>3
    <3> QED
      BY <3>1, Joined
  <2> DEFINE before == Len(a)  size == Len(o.data)  all == Len(L[n])  both == Len(b)
  <2>6. all = before + 2 + size
    <3>1. all = before + both /\ both = 2 + size /\ before \in Nat /\ size \in Nat
      BY <2>2, <2>3, <2>4, <2>5
    <3> HIDE DEF all, before, both, size
    <3> QED
      BY <3>1
  <2> QED
    BY <2>2, <2>3, <2>4, <2>5, <2>6 DEF a, b, o
<1> QED
  BY <1>1, <1>3, <1>4, <1>5 DEF End, L, len

\* What is laid out stays where it is when more is.
LEMMA LaidStays ==
  ASSUME NEW options, Whole(options), NEW m \in 0 .. Len(options), NEW n \in m .. Len(options)
  PROVE  /\ End(options, m) + (n - m) <= End(options, n)
         /\ \A i \in 1 .. End(options, m) : LaidFrom(options)[n][i] = LaidFrom(options)[m][i]
<1> DEFINE len == Len(options)
           L == LaidFrom(options)
           E(k) == End(options, k)
           Same(k) == /\ E(m) + k <= E(m + k)
                      /\ \A i \in 1 .. E(m) : L[m + k][i] = L[m][i]
           S == {k \in Nat : m + k <= len => Same(k)}
<1>1. len \in Nat /\ m \in Nat /\ m <= len /\ n \in Nat /\ m <= n /\ n <= len
  BY DEF Whole
<1>2. /\ \A k \in 0 .. len : E(k) \in Nat
      /\ \A k \in 1 .. len : /\ Len(options[k].data) \in Nat
                             /\ E(k) = E(k - 1) + 2 + Len(options[k].data)
                             /\ \A i \in 1 .. E(k - 1) : L[k][i] = L[k - 1][i]
  <2>1. \A k \in 0 .. len : E(k) \in Nat
    BY EndsGrow, Zenon
  <2>2. ASSUME NEW k \in 1 .. len
        PROVE  /\ Len(options[k].data) \in Nat
               /\ E(k) = E(k - 1) + 2 + Len(options[k].data)
               /\ \A i \in 1 .. E(k - 1) : L[k][i] = L[k - 1][i]
    BY EndsGrow, Zenon
  <2> QED
    BY <2>1, <2>2, Zenon
<1> HIDE DEF E, L, len
<1>3. 0 \in S
  <2>1. E(m) \in Nat /\ m + 0 = m
    BY <1>1, <1>2
  <2> QED
    BY <2>1
<1>4. ASSUME NEW k \in Nat, k \in S PROVE k + 1 \in S
  <2>1. SUFFICES ASSUME m + (k + 1) <= len PROVE Same(k + 1)
    OBVIOUS
  <2>2. /\ m + k <= len /\ m + k \in 0 .. len /\ m \in 0 .. len
        /\ m + (k + 1) \in 1 .. len /\ (m + (k + 1)) - 1 = m + k
    BY <1>1, <2>1
  <2>3. Same(k)
    BY <1>4, <2>2
  <2>4. /\ E(m) \in Nat /\ E(m + k) \in Nat /\ Len(options[m + (k + 1)].data) \in Nat
        /\ E(m + (k + 1)) = E(m + k) + 2 + Len(options[m + (k + 1)].data)
        /\ \A i \in 1 .. E(m + k) : L[m + (k + 1)][i] = L[m + k][i]
    BY <1>2, <2>2
  <2> DEFINE size == Len(options[m + (k + 1)].data)
             here == E(m + k)
             next == E(m + (k + 1))
             first == E(m)
  <2>5. /\ first \in Nat /\ here \in Nat /\ size \in Nat /\ first + k <= here
        /\ next = here + 2 + size
    BY <2>3, <2>4
  <2> HIDE DEF size, here, next, first
  <2>6. first + (k + 1) <= next /\ \A i \in 1 .. first : i \in 1 .. here
    BY <2>5
  <2> QED
    BY <2>3, <2>4, <2>6 DEF here, next, first
<1> HIDE DEF S
<1>5. \A k \in Nat : k \in S
  BY <1>3, <1>4, Inductive
<1>6. n - m \in Nat /\ m + (n - m) = n
  BY <1>1
<1>7. Same(n - m)
  BY <1>1, <1>5, <1>6 DEF S
<1> QED
  BY <1>6, <1>7 DEF E, L

\* The options are found in the bytes, last of which are theirs.
LaidOut(options, bytes, last) ==
  /\ bytes \in Seq(Octets) /\ bytes[last + 1] = END_OPTIONS
  /\ \A k \in 1 .. Len(options) :
       /\ bytes[End(options, k - 1) + 1] = options[k].code
       /\ bytes[End(options, k - 1) + 2] = Len(options[k].data)
       /\ \A i \in 1 .. Len(options[k].data) :
            bytes[End(options, k - 1) + 2 + i] = options[k].data[i]

LEMMA LaidBytes ==
  ASSUME NEW options, Whole(options), NEW behind \in Seq(Octets)
  PROVE  LET bytes == Laid(options) \o behind
             last  == End(options, Len(options))
         IN  /\ Laid(options) \in Seq(Octets)
             /\ Len(Laid(options)) = last + 1 /\ Len(options) <= last
             /\ Len(bytes) = last + 1 + Len(behind)
             /\ LaidOut(options, bytes, last)
<1> DEFINE len == Len(options)
           all == LaidFrom(options)[len]
           mark == <<END_OPTIONS>>
           laid == all \o mark
           bytes == laid \o behind
           last == End(options, len)
<1>1. /\ len \in Nat /\ 0 \in 0 .. len /\ len \in 0 .. len
      /\ \A k \in 1 .. len : options[k] \in WholeOptions /\ k \in 0 .. len /\ len \in k .. len
      /\ \A k \in 1 .. len : k - 1 \in 0 .. len
  BY DEF Whole
<1>2. laid = Laid(options) /\ all \in Seq(Octets)
  BY <1>1, LaidExists
<1>3. mark \in Seq(Octets) /\ Len(mark) = 1 /\ mark[1] = END_OPTIONS
  BY DEF END_OPTIONS, Octets
<1>4. Len(all) = last /\ last \in Nat
  BY <1>1, EndsGrow DEF End
<1> HIDE DEF all, mark
<1>5. /\ laid \in Seq(Octets) /\ Len(laid) = last + 1
      /\ \A i \in 1 .. last : laid[i] = all[i]
      /\ laid[last + 1] = END_OPTIONS
  <2>1. /\ laid \in Seq(Octets) /\ Len(laid) = Len(all) + Len(mark)
        /\ \A i \in 1 .. Len(all) : laid[i] = all[i]
        /\ \A i \in 1 .. Len(mark) : laid[Len(all) + i] = mark[i]
    <3>1. all \in Seq(Octets) /\ mark \in Seq(Octets)
      BY <1>2, <1>3
    <3> QED
      BY <3>1, Joined
  <2>2. 1 \in 1 .. Len(mark)
    BY <1>3
  <2> HIDE DEF laid
  <2> QED
    BY <1>3, <1>4, <2>1, <2>2
<1> HIDE DEF laid
<1>6. /\ bytes \in Seq(Octets) /\ Len(bytes) = last + 1 + Len(behind)
      /\ \A i \in 1 .. last + 1 : bytes[i] = laid[i]
  <2>1. laid \in Seq(Octets)
    BY <1>5
  <2>2. /\ bytes \in Seq(Octets) /\ Len(bytes) = Len(laid) + Len(behind)
        /\ \A i \in 1 .. Len(laid) : bytes[i] = laid[i]
    BY <2>1, Joined
  <2> HIDE DEF bytes
  <2> QED
    BY <1>5, <2>2
<1> HIDE DEF bytes, last
<1>7. /\ bytes[last + 1] = END_OPTIONS
      /\ \A i \in 1 .. last : bytes[i] = all[i]
  <2>1. last + 1 \in 1 .. last + 1 /\ \A i \in 1 .. last : i \in 1 .. last + 1
    BY <1>4
  <2> QED
    BY <1>5, <1>6, <2>1
<1>8. len <= last
  <2>1. End(options, 0) + (len - 0) <= End(options, len) /\ End(options, 0) = 0
    BY <1>1, EndsGrow, LaidStays
  <2> QED
    BY <1>1, <1>4, <2>1 DEF last
<1>9. ASSUME NEW k \in 1 .. len
      PROVE  /\ bytes[End(options, k - 1) + 1] = options[k].code
             /\ bytes[End(options, k - 1) + 2] = Len(options[k].data)
             /\ \A i \in 1 .. Len(options[k].data) :
                  bytes[End(options, k - 1) + 2 + i] = options[k].data[i]
  <2> DEFINE o == options[k]
             from == End(options, k - 1)
             to == End(options, k)
             size == Len(o.data)
             upto == LaidFrom(options)[k]
  <2>1. /\ size \in Nat /\ from \in Nat /\ to \in Nat /\ to = from + 2 + size
        /\ \A i \in 1 .. 2 + size : upto[from + i] = Laying(o)[i]
    BY <1>1, EndsGrow
  <2>2. to <= last /\ \A i \in 1 .. to : all[i] = upto[i]
    <3>1. k \in 0 .. len /\ len \in k .. len
      BY <1>1
    <3>2. to + (len - k) <= last /\ \A i \in 1 .. to : all[i] = upto[i]
      BY <3>1, LaidStays DEF all, last
    <3>3. last \in Nat /\ to \in Nat /\ len \in Nat /\ k \in Nat /\ k <= len
      BY <1>1, <1>4, <2>1
    <3> HIDE DEF to, len
    <3> QED
      BY <3>2, <3>3
  <2>3. /\ Laying(o)[1] = o.code /\ Laying(o)[2] = size
        /\ \A i \in 1 .. size : Laying(o)[2 + i] = o.data[i]
    BY <1>1, LayingIs
  <2> HIDE DEF from, to, size, upto
  <2>4. ASSUME NEW i \in 1 .. 2 + size PROVE bytes[from + i] = Laying(o)[i]
    <3>1. from + i \in 1 .. to /\ from + i \in 1 .. last
      BY <1>4, <2>1, <2>2
    <3> QED
      BY <1>7, <2>1, <2>2, <3>1
  <2>5. /\ 1 \in 1 .. 2 + size /\ 2 \in 1 .. 2 + size
        /\ \A i \in 1 .. size : 2 + i \in 1 .. 2 + size /\ from + (2 + i) = from + 2 + i
    BY <2>1
  <2>6. bytes[from + 1] = o.code /\ bytes[from + 2] = size
    BY <2>3, <2>4, <2>5
  <2>7. \A i \in 1 .. size : bytes[from + 2 + i] = o.data[i]
    BY <2>3, <2>4, <2>5
  <2> QED
    BY <2>6, <2>7 DEF from, size
<1> QED
  <2>1. LaidOut(options, bytes, last)
    BY <1>6, <1>7, <1>9 DEF LaidOut, len
  <2> QED
    BY <1>2, <1>5, <1>6, <1>8, <2>1 DEF last, bytes

-----------------------------------------------------------------------------
(* The places of the parser.                                               *)

LEMMA PlacesAre ==
  ASSUME NEW options, Whole(options), NEW behind \in Seq(Octets)
  PROVE  LET bytes == Laid(options) \o behind
             last  == End(options, Len(options))
         IN  \A n \in 0 .. last + 1 :
               PlacesRead(bytes, last + 1)[n] =
                 (IF n <= Len(options) THEN End(options, n) ELSE last) + 1
<1> DEFINE len == Len(options)
           bytes == Laid(options) \o behind
           last == End(options, len)
           E(n) == End(options, n)
           P(p) == IF p = (last + 1) + 1 \/ bytes[p] = END_OPTIONS THEN p
                   ELSE p + OptionSize(bytes[p], bytes[p + 1])
           g == [n \in 0 .. last + 1 |-> (IF n <= len THEN E(n) ELSE last) + 1]
           Good(f) == f = [n \in 0 .. last + 1 |-> IF n = 0 THEN 1 ELSE P(f[n - 1])]
<1>1. len \in Nat /\ \A n \in 1 .. len : options[n] \in WholeOptions
  BY DEF Whole
<1>2. /\ E(0) = 0 /\ \A n \in 0 .. len : E(n) \in Nat
      /\ \A n \in 1 .. len : /\ Len(options[n].data) \in Nat
                             /\ E(n) = E(n - 1) + 2 + Len(options[n].data)
  BY EndsGrow
<1>3. \A n \in 1 .. len : E(n - 1) + 1 <= last
  <2> TAKE n \in 1 .. len
  <2>1. n - 1 \in 0 .. len /\ len \in n - 1 .. len
    BY <1>1
  <2>2. E(n - 1) + (len - (n - 1)) <= last
    BY <2>1, LaidStays
  <2>3. E(n - 1) \in Nat /\ last \in Nat
    BY <1>1, <1>2, <2>1
  <2> HIDE DEF E, last, len
  <2> QED
    BY <1>1, <2>2, <2>3
<1>4. /\ bytes[last + 1] = END_OPTIONS /\ len <= last
      /\ \A n \in 1 .. len : /\ bytes[E(n - 1) + 1] = options[n].code
                             /\ bytes[E(n - 1) + 2] = Len(options[n].data)
  <2>1. LaidOut(options, bytes, last) /\ len <= last
    BY LaidBytes
  <2> QED
    BY <2>1 DEF LaidOut
<1>5. last \in Nat /\ E(len) = last
  BY <1>1, <1>2
<1> HIDE DEF E, last, len, bytes
<1>6. P(last + 1) = last + 1
  BY <1>4
<1>7. ASSUME NEW n \in 1 .. len PROVE P(E(n - 1) + 1) = E(n) + 1
  <2>1. options[n] \in WholeOptions /\ n - 1 \in 0 .. len
    BY <1>1
  <2>2. /\ options[n].code # END_OPTIONS
        /\ OptionSize(options[n].code, Len(options[n].data)) = 2 + Len(options[n].data)
    BY <2>1 DEF WholeOptions
  <2> DEFINE size == Len(options[n].data)  here == E(n - 1)
  <2>3. here \in Nat /\ size \in Nat /\ here + 1 <= last /\ E(n) = here + 2 + size
    BY <1>2, <1>3, <2>1
  <2>4. bytes[here + 1] = options[n].code /\ bytes[here + 2] = size
    BY <1>4
  <2> HIDE DEF size, here
  <2>5. here + 1 # (last + 1) + 1 /\ (here + 1) + 1 = here + 2
        /\ (here + 1) + (2 + size) = (here + 2 + size) + 1
    BY <1>5, <2>3
  <2> QED
    BY <2>2, <2>3, <2>4, <2>5 DEF size, here
<1> HIDE DEF P
<1>8. ASSUME NEW n \in 0 .. last + 1 PROVE g[n] = IF n = 0 THEN 1 ELSE P(g[n - 1])
  <2>1. CASE n = 0
    <3>1. g[0] = E(0) + 1
      BY <1>1, <1>5
    <3> QED
      BY <1>2, <2>1, <3>1
  <2>2. CASE n \in 1 .. len
    <3>1. n - 1 \in 0 .. last + 1 /\ n # 0 /\ n <= len /\ n - 1 <= len
      BY <1>1, <1>5, <2>2
    <3>2. g[n] = E(n) + 1 /\ g[n - 1] = E(n - 1) + 1
      BY <3>1
    <3> QED
      BY <1>7, <2>2, <3>1, <3>2
  <2>3. CASE n > len
    <3>1. n - 1 \in 0 .. last + 1 /\ n # 0 /\ ~(n <= len) /\ (n - 1 <= len => n - 1 = len)
      BY <1>1, <1>5, <2>3
    <3>2. g[n] = last + 1 /\ g[n - 1] = last + 1
      BY <1>5, <3>1
    <3> QED
      BY <1>6, <3>1, <3>2
  <2> QED
    BY <1>1, <2>1, <2>2, <2>3
<1> DEFINE read == PlacesRead(bytes, last + 1)
<1>9. Good(g)
  <2> DEFINE h == [n \in 0 .. last + 1 |-> IF n = 0 THEN 1 ELSE P(g[n - 1])]
  <2>1. \A n \in 0 .. last + 1 : g[n] = h[n]
    BY <1>8
  <2> QED
    BY <2>1
<1> HIDE DEF g
<1>10. Good(read)
  <2>1. read = CHOOSE f : Good(f)
    BY DEF PlacesRead, P
  <2> HIDE DEF Good, read
  <2> QED
    BY <1>9, <2>1
<1>11. \A n \in 0 .. last + 1 : read[n] = IF n = 0 THEN 1 ELSE P(read[n - 1])
  BY <1>10
<1> HIDE DEF read, Good
<1> DEFINE S == {n \in Nat : n <= last + 1 => read[n] = g[n]}
<1>12. 0 \in S
  BY <1>5, <1>8, <1>11
<1>13. ASSUME NEW n \in Nat, n \in S PROVE n + 1 \in S
  <2>1. SUFFICES ASSUME n + 1 <= last + 1 PROVE read[n + 1] = g[n + 1]
    OBVIOUS
  <2>2. n + 1 \in 0 .. last + 1 /\ n + 1 # 0 /\ (n + 1) - 1 = n /\ n <= last + 1
    BY <1>5, <2>1
  <2> QED
    BY <1>8, <1>11, <1>13, <2>2
<1> HIDE DEF S
<1>14. \A n \in Nat : n \in S
  BY <1>12, <1>13, Inductive
<1>15. \A n \in 0 .. last + 1 : read[n] = g[n]
  BY <1>5, <1>14 DEF S
<1> QED
  BY <1>15 DEF read, g, E, len, last, bytes

LEMMA StartsAre ==
  ASSUME NEW options, Whole(options), NEW behind \in Seq(Octets)
  PROVE  OptionStarts(Laid(options) \o behind, End(options, Len(options)) + 1)
           = {End(options, n) + 1 : n \in 0 .. Len(options)}
<1> DEFINE len == Len(options)
           last == End(options, len)
           read == PlacesRead(Laid(options) \o behind, last + 1)
           E(n) == End(options, n)
<1>1. /\ \A n \in 0 .. last + 1 : read[n] = (IF n <= len THEN E(n) ELSE last) + 1
      /\ last = E(len)
  BY PlacesAre
<1>2. len \in Nat /\ \A n \in 0 .. len : E(n) \in Nat
  BY EndsGrow DEF Whole
<1>3. len <= last
  BY LaidBytes
<1>4. \A n \in 0 .. len : E(n) <= last
  <2> TAKE n \in 0 .. len
  <2>1. len \in n .. len
    BY <1>2
  <2>2. E(n) + (len - n) <= last
    BY <2>1, LaidStays
  <2>3. E(n) \in Nat /\ last \in Nat
    BY <1>1, <1>2
  <2> HIDE DEF E, last, len
  <2> QED
    BY <1>2, <2>2, <2>3
<1> HIDE DEF len, read, E, last
<1>5. last \in Nat
  BY <1>1, <1>2
<1>6. {read[n] : n \in 0 .. last + 1} \ {(last + 1) + 1} = {E(n) + 1 : n \in 0 .. len}
  <2>1. ASSUME NEW n \in 0 .. last + 1 PROVE \E m \in 0 .. len : read[n] = E(m) + 1
    <3>1. CASE n <= len
      BY <1>1, <1>2, <2>1, <3>1
    <3>2. CASE ~(n <= len)
      <4>1. len \in 0 .. len
        BY <1>2
      <4> QED
        BY <1>1, <3>2, <4>1
    <3> QED
      BY <3>1, <3>2
  <2>2. ASSUME NEW m \in 0 .. len
        PROVE  m \in 0 .. last + 1 /\ read[m] = E(m) + 1 /\ E(m) + 1 # (last + 1) + 1
    <3>1. m \in 0 .. last + 1 /\ m <= len /\ E(m) \in Nat /\ E(m) <= last
      BY <1>2, <1>3, <1>4, <1>5
    <3> QED
      BY <1>1, <1>5, <3>1
  <2> QED
    BY <2>1, <2>2
<1> QED
  BY <1>6 DEF OptionStarts, read, E, len, last

LEMMA MaxIs ==
  ASSUME NEW S \in SUBSET Int, NEW k \in S, \A n \in S : n <= k
  PROVE  Max(S) = k
<1>1. \A n \in S : k >= n
  OBVIOUS
<1>2. Max(S) \in S /\ \A n \in S : Max(S) >= n
  BY <1>1 DEF Max
<1>3. Max(S) \in Int /\ k \in Int /\ Max(S) <= k /\ Max(S) >= k
  BY <1>2
<1> QED
  BY <1>3

\* The data of the last option of a kind is what the parser copies.
LEMMA ReadIs ==
  ASSUME NEW options, Whole(options), NEW behind \in Seq(Octets),
         NEW code \in Octets \ {END_OPTIONS}, NEW size \in Nat,
         \A k \in 1 .. Len(options) : options[k].code = code => size <= Len(options[k].data)
  PROVE  OptionRead(Laid(options) \o behind, End(options, Len(options)) + 1, code, size)
           = LastData(options, code, size)
<1> DEFINE len == Len(options)
           bytes == Laid(options) \o behind
           last == End(options, len)
           E(n) == End(options, n)
           starts == OptionStarts(bytes, last + 1)
           found == {p \in starts : bytes[p] = code}
           kinds == {k \in DOMAIN options : options[k].code = code}
<1>1. starts = {E(n) + 1 : n \in 0 .. len}
  BY StartsAre
<1>2. /\ len \in Nat /\ DOMAIN options = 1 .. len
      /\ \A n \in 0 .. len : E(n) \in Nat
      /\ \A k \in 1 .. len : options[k] \in WholeOptions
  BY EndsGrow DEF Whole
<1>3. /\ bytes \in Seq(Octets)
      /\ bytes[E(len) + 1] = END_OPTIONS
      /\ \A k \in 1 .. len :
           /\ bytes[E(k - 1) + 1] = options[k].code
           /\ \A i \in 1 .. Len(options[k].data) :
                bytes[E(k - 1) + 2 + i] = options[k].data[i]
  <2>1. LaidOut(options, bytes, last)
    BY LaidBytes
  <2> HIDE DEF bytes
  <2> QED
    BY <2>1 DEF LaidOut
<1>4. \A m, n \in 0 .. len : m <= n => E(m) <= E(n)
  <2> TAKE m, n \in 0 .. len
  <2> HAVE m <= n
  <2>1. n \in m .. len /\ E(m) \in Nat /\ E(n) \in Nat
    BY <1>2
  <2>2. E(m) + (n - m) <= E(n)
    BY <2>1, LaidStays
  <2> HIDE DEF E
  <2> QED
    BY <2>1, <2>2
<1>5. OptionRead(bytes, last + 1, code, size) =
        IF found = {} THEN <<>> ELSE SubSeq(bytes, Max(found) + 2, Max(found) + 1 + size)
  BY DEF OptionRead
<1>6. LastData(options, code, size) =
        IF kinds = {} THEN <<>> ELSE SubSeq(options[Max(kinds)].data, 1, size)
  BY DEF LastData
<1> HIDE DEF len, bytes, last, E, starts
<1>7. found = {E(k - 1) + 1 : k \in kinds}
  <2>1. ASSUME NEW p \in found PROVE \E k \in kinds : p = E(k - 1) + 1
    <3>1. PICK n \in 0 .. len : p = E(n) + 1
      BY <1>1
    <3>2. n # len
      BY <1>3, <3>1
    <3>3. n + 1 \in 1 .. len /\ (n + 1) - 1 = n
      BY <1>2, <3>2
    <3>4. n + 1 \in kinds
      BY <1>2, <1>3, <3>1, <3>3
    <3> QED
      BY <3>1, <3>3, <3>4
  <2>2. ASSUME NEW k \in kinds PROVE E(k - 1) + 1 \in found
    <3>1. k \in 1 .. len /\ k - 1 \in 0 .. len
      BY <1>2
    <3> QED
      BY <1>1, <1>3, <3>1
  <2> QED
    BY <2>1, <2>2
<1>8. ASSUME kinds = {}
      PROVE  OptionRead(bytes, last + 1, code, size) = LastData(options, code, size)
  <2>1. found = {}
    BY <1>7, <1>8
  <2> HIDE DEF found, kinds
  <2> QED
    BY <1>5, <1>6, <1>8, <2>1
<1>9. ASSUME kinds # {}
      PROVE  OptionRead(bytes, last + 1, code, size) = LastData(options, code, size)
  <2>1. kinds \in SUBSET (0 .. len)
    BY <1>2
  <2>2. PICK k \in kinds : \A n \in kinds : n <= k
    BY <1>2, <1>9, <2>1, Greatest
  <2> DEFINE from == E(k - 1)
             data == options[k].data
             seen == SubSeq(bytes, (from + 1) + 2, (from + 1) + 1 + size)
             kept == SubSeq(data, 1, size)
  <2>3. k \in 1 .. len /\ k - 1 \in 0 .. len /\ from \in Nat
    BY <1>2, <2>1
  <2>4. Max(kinds) = k
    <3>1. kinds \in SUBSET Int
      BY <2>1
    <3> QED
      BY <2>2, <3>1, MaxIs
  <2>5. Max(found) = from + 1
    <3>1. ASSUME NEW p \in found PROVE p \in Int /\ p <= from + 1
      <4>1. PICK n \in kinds : p = E(n - 1) + 1
        BY <1>7
      <4>2. /\ n \in Int /\ k \in Int /\ n - 1 \in 0 .. len /\ n <= k /\ n - 1 <= k - 1
        BY <1>2, <2>1, <2>2, <2>3
      <4>3. E(n - 1) \in Nat /\ E(n - 1) <= from
        BY <1>2, <1>4, <2>3, <4>2
      <4> QED
        BY <2>3, <4>1, <4>3
    <3>2. from + 1 \in found
      BY <1>7
    <3> HIDE DEF found
    <3> QED
      BY <3>1, <3>2, MaxIs
  <2>6. size <= Len(data) /\ Len(data) \in Nat /\ \A i \in 1 .. Len(data) : data[i] \in Octets
    <3>1. options[k].code = code /\ options[k] \in WholeOptions
      BY <1>2, <2>3
    <3>2. data \in Seq(Octets)
      BY <3>1, WholeFacts
    <3>3. size <= Len(data)
      BY <2>3, <3>1 DEF len
    <3> DEFINE d == data
    <3>4. d \in Seq(Octets) /\ size <= Len(d)
      BY <3>2, <3>3
    <3> HIDE DEF data, d
    <3>5. Len(d) \in Nat /\ \A i \in 1 .. Len(d) : d[i] \in Octets
      BY <3>4, LenProperties, ElementOfSeq, Zenon
    <3> QED
      BY <3>4, <3>5, Zenon DEF d
  <2>7. \A i \in 1 .. size : data[i] \in Octets /\ bytes[from + 2 + i] = data[i]
    <3>1. \A i \in 1 .. Len(data) : bytes[from + 2 + i] = data[i]
      BY <1>3, <2>3, Zenon
    <3> HIDE DEF data, from
    <3>2. \A i \in 1 .. size : i \in 1 .. Len(data)
      BY <2>6
    <3> QED
      BY <2>6, <3>1, <3>2, Zenon
  <2> HIDE DEF data, from
  <2>8. /\ kept \in Seq(Octets) /\ Len(kept) = size
        /\ \A i \in 1 .. size : kept[i] = data[i]
    <3>1. /\ kept \in Seq(Octets)
          /\ Len(kept) = IF 1 <= size THEN size - 1 + 1 ELSE 0
          /\ \A i \in 1 .. size - 1 + 1 : kept[i] = data[1 + i - 1]
      BY <2>7, SubSeqProperties
    <3> HIDE DEF kept
    <3> QED
      BY <3>1
  <2>9. /\ seen \in Seq(Octets) /\ Len(seen) = size
        /\ \A i \in 1 .. size : seen[i] = data[i]
    <3> DEFINE a == (from + 1) + 2  b == (from + 1) + 1 + size
    <3>1. a \in Int /\ b \in Int /\ b - a + 1 = size
          /\ (a <= b <=> 1 <= size)
      BY <2>3
    <3>2. \A i \in a .. b : bytes[i] \in Octets
      <4> TAKE i \in a .. b
      <4>1. i - (from + 2) \in 1 .. size /\ from + 2 + (i - (from + 2)) = i
        BY <2>3
      <4> QED
        BY <2>7, <4>1
    <3>3. \A i \in 1 .. size : bytes[a + i - 1] = data[i]
      <4> TAKE i \in 1 .. size
      <4>1. a + i - 1 = from + 2 + i
        BY <2>3
      <4> QED
        BY <2>7, <4>1
    <3> HIDE DEF a, b
    <3>4. /\ SubSeq(bytes, a, b) \in Seq(Octets)
          /\ Len(SubSeq(bytes, a, b)) = IF a <= b THEN b - a + 1 ELSE 0
          /\ \A i \in 1 .. b - a + 1 : SubSeq(bytes, a, b)[i] = bytes[a + i - 1]
      BY <3>1, <3>2, SubSeqProperties
    <3>5. seen = SubSeq(bytes, a, b)
      BY DEF a, b
    <3> HIDE DEF seen
    <3>6. seen \in Seq(Octets) /\ \A i \in 1 .. size : seen[i] = data[i]
      BY <3>1, <3>3, <3>4, <3>5
    <3>7. Len(seen) = IF 1 <= size THEN size ELSE 0
      BY <3>1, <3>4, <3>5
    <3> QED
      BY <3>6, <3>7
  <2> HIDE DEF seen, kept
  <2>10. seen = kept
    <3>1. Len(seen) = Len(kept) /\ \A i \in 1 .. Len(seen) : seen[i] = kept[i]
      BY <2>8, <2>9
    <3> QED
      BY <2>8, <2>9, <3>1, SeqEqual
  <2>11. found # {}
    BY <1>7, <1>9
  <2>12. SubSeq(bytes, Max(found) + 2, Max(found) + 1 + size) = seen
    BY <2>5 DEF seen
  <2>13. SubSeq(options[Max(kinds)].data, 1, size) = kept
    BY <2>4 DEF kept, data
  <2> HIDE DEF found, kinds
  <2> QED
    BY <1>5, <1>6, <1>9, <2>10, <2>11, <2>12, <2>13
<1> QED
  BY <1>8, <1>9 DEF len, bytes, last, E

\* What the client reads off a reply, whatever options it has in whatever order:
\* the last value of each kind it uses, and not a byte behind the reply.
THEOREM OptionsRead ==
  \A options \in Seq(WholeOptions), behind \in Seq(Octets) : ReadsOptions(options, behind)
<1> SUFFICES ASSUME NEW options \in Seq(WholeOptions), NEW behind \in Seq(Octets)
             PROVE  ReadsOptions(options, behind)
  OBVIOUS
<1> DEFINE last == End(options, Len(options))
           bytes == Laid(options) \o behind
<1>1. Whole(options)
  BY LenProperties, ElementOfSeq DEF Whole
<1>2. /\ Len(Laid(options)) = last + 1 /\ bytes[last + 1] = END_OPTIONS
  BY <1>1, LaidBytes DEF LaidOut
<1>3. ReadsUpTo(bytes, last + 1) = last + 1
  <2>1. OptionStarts(bytes, last + 1) = {End(options, n) + 1 : n \in 0 .. Len(options)}
    BY <1>1, StartsAre
  <2>2. Len(options) \in 0 .. Len(options)
    BY <1>1 DEF Whole
  <2>3. last + 1 \in OptionStarts(bytes, last + 1)
    BY <2>1, <2>2
  <2> QED
    BY <1>2, <2>3 DEF ReadsUpTo
<1>4. OptionRead(bytes, last + 1, MESSAGE_TYPE, 1) = LastData(options, MESSAGE_TYPE, 1)
  <2>1. ASSUME NEW k \in 1 .. Len(options), options[k].code = MESSAGE_TYPE
        PROVE  1 <= Len(options[k].data)
    <3>1. /\ OptionSize(MESSAGE_TYPE, Len(options[k].data)) = 2 + Len(options[k].data)
          /\ Len(options[k].data) \in Nat
      <4>1. options[k] \in WholeOptions
        BY <1>1 DEF Whole
      <4> QED
        BY <2>1, <4>1, WholeFacts
    <3> QED
      BY <3>1 DEF OptionSize
  <2>2. MESSAGE_TYPE \in Octets \ {END_OPTIONS} /\ 1 \in Nat
    BY DEF MESSAGE_TYPE, END_OPTIONS, Octets
  <2> QED
    BY <1>1, <2>1, <2>2, ReadIs
<1>5. ASSUME NEW code \in {SUBNET_MASK, ROUTERS_ON_SUBNET, DNS, SERVER_IDENTIFIER, LEASE_TIME}
      PROVE  OptionRead(bytes, last + 1, code, 4) = LastData(options, code, 4)
  <2>1. ASSUME NEW k \in 1 .. Len(options), options[k].code = code
        PROVE  4 <= Len(options[k].data)
    <3>1. options[k] \in WholeOptions
      BY <1>1 DEF Whole
    <3>2. /\ OptionSize(code, Len(options[k].data)) = 2 + Len(options[k].data)
          /\ Len(options[k].data) \in Nat
          /\ code \in {ROUTERS_ON_SUBNET, DNS} => Len(options[k].data) >= 4
      BY <2>1, <3>1, WholeFacts
    <3> QED
      BY <3>2 DEF OptionSize, MESSAGE_TYPE, SUBNET_MASK, SERVER_IDENTIFIER, LEASE_TIME
  <2>2. code \in Octets \ {END_OPTIONS} /\ 4 \in Nat
    BY DEF END_OPTIONS, Octets, SUBNET_MASK, ROUTERS_ON_SUBNET, DNS, SERVER_IDENTIFIER,
         LEASE_TIME
  <2> QED
    BY <1>1, <2>1, <2>2, ReadIs
<1> QED
  BY <1>2, <1>3, <1>4, <1>5 DEF ReadsOptions

ByteStrings == Seq(Octets)

LEMMA ByteStringFacts ==
  /\ \A s \in ByteStrings : Len(s) \in Nat /\ \A i \in 1 .. Len(s) : s[i] \in Octets
  /\ \A s, t \in ByteStrings : s \o t \in ByteStrings /\ Len(s \o t) = Len(s) + Len(t)
<1>1. \A s \in Seq(Octets) : Len(s) \in Nat /\ \A i \in 1 .. Len(s) : s[i] \in Octets
  OBVIOUS
<1>2. \A s, t \in Seq(Octets) : s \o t \in Seq(Octets) /\ Len(s \o t) = Len(s) + Len(t)
  BY Joined
<1> QED
  BY <1>1, <1>2 DEF ByteStrings

Codes == {SUBNET_MASK, ROUTERS_ON_SUBNET, DNS, CLIENT_HOSTNAME, DOMAIN_NAME, REQUESTED_IP_ADDR,
          LEASE_TIME, MESSAGE_TYPE, SERVER_IDENTIFIER, PARAM_REQUEST, DHCP_T1_VALUE,
          CLIENT_IDENTIFIER}

LEMMA CodesAreOctets ==
  \A code \in Codes : code \in Octets \ {END_OPTIONS}
<1> SUFFICES ASSUME NEW code \in Codes PROVE code \in Octets \ {END_OPTIONS}
  OBVIOUS
<1>1. code \in 1 .. 61
  BY DEF Codes, SUBNET_MASK, ROUTERS_ON_SUBNET, DNS, CLIENT_HOSTNAME, DOMAIN_NAME,
       REQUESTED_IP_ADDR, LEASE_TIME, MESSAGE_TYPE, SERVER_IDENTIFIER, PARAM_REQUEST,
       DHCP_T1_VALUE, CLIENT_IDENTIFIER
<1> QED
  BY <1>1 DEF Octets, END_OPTIONS

\* Which options are whole, by their codes.
LEMMA WholeIs ==
  ASSUME NEW code \in Codes, NEW data \in ByteStrings, Len(data) \in Octets,
         code = MESSAGE_TYPE => Len(data) = 1,
         code \in {SUBNET_MASK, SERVER_IDENTIFIER, LEASE_TIME} => Len(data) = 4,
         code \in {ROUTERS_ON_SUBNET, DNS} => Len(data) >= 4
  PROVE  Option(code, data) \in WholeOptions
<1>1. code \in Octets \ {END_OPTIONS}
  BY CodesAreOctets
<1> DEFINE len == Len(data)
<1>2. len \in Octets
  OBVIOUS
<1> HIDE DEF len
<1>3. MESSAGE_TYPE \notin {SUBNET_MASK, SERVER_IDENTIFIER, LEASE_TIME}
  BY DEF MESSAGE_TYPE, SUBNET_MASK, SERVER_IDENTIFIER, LEASE_TIME
<1>4. OptionSize(code, len) = 2 + len
  <2>1. CASE code = MESSAGE_TYPE
    <3>1. len = 1
      BY <2>1 DEF len
    <3> QED
      BY <2>1, <3>1 DEF OptionSize
  <2>2. CASE code \in {SUBNET_MASK, SERVER_IDENTIFIER, LEASE_TIME}
    <3>1. len = 4 /\ code # MESSAGE_TYPE
      BY <1>3, <2>2 DEF len
    <3> QED
      BY <2>2, <3>1 DEF OptionSize
  <2>3. CASE code # MESSAGE_TYPE /\ code \notin {SUBNET_MASK, SERVER_IDENTIFIER, LEASE_TIME}
    BY <2>3 DEF OptionSize
  <2> QED
    BY <2>1, <2>2, <2>3
<1> QED
  BY <1>1, <1>4 DEF Option, WholeOptions, ByteStrings, len

\* In particular the replies that TLC runs through.
THEOREM SampleRepliesRead == OptionsAreRead
<1> USE DEF ByteStrings
<1>1. /\ SampleIp \in ByteStrings /\ Len(SampleIp) = 4
      /\ <<54, 4, 9, 9>> \in ByteStrings /\ Len(<<54, 4, 9, 9>>) = 4
      /\ <<255, 255, 0, 0>> \in ByteStrings /\ Len(<<255, 255, 0, 0>>) = 4
      /\ <<0, 0, 255, 53>> \in ByteStrings /\ Len(<<0, 0, 255, 53>>) = 4
      /\ <<53, 1, 2, 255>> \in ByteStrings /\ Len(<<53, 1, 2, 255>>) = 4
      /\ <<2>> \in ByteStrings /\ Len(<<2>>) = 1 /\ <<5>> \in ByteStrings /\ Len(<<5>>) = 1
      /\ <<>> \in ByteStrings /\ Len(<<>>) = 0 /\ <<10, 0, 0, 1>> \in ByteStrings
  BY DEF SampleIp, Octets
<1> HIDE DEF ByteStrings
<1> DEFINE b1 == <<54, 4, 9, 9>>  b2 == <<255, 255, 0, 0>>  b3 == <<0, 0, 255, 53>>
           b4 == <<53, 1, 2, 255>>  b5 == <<2>>  b6 == <<5>>  b7 == <<>>
           b8 == SampleIp \o b1
<1>2. /\ b1 \in ByteStrings /\ Len(b1) = 4 /\ b2 \in ByteStrings /\ Len(b2) = 4
      /\ b3 \in ByteStrings /\ Len(b3) = 4 /\ b4 \in ByteStrings /\ Len(b4) = 4
      /\ b5 \in ByteStrings /\ Len(b5) = 1 /\ b6 \in ByteStrings /\ Len(b6) = 1
      /\ b7 \in ByteStrings /\ Len(b7) = 0
  BY <1>1
<1> HIDE DEF b1, b2, b3, b4, b5, b6, b7
<1>3. b8 \in ByteStrings /\ Len(b8) = 8
  <2>1. SampleIp \in ByteStrings /\ b1 \in ByteStrings
    BY <1>1, <1>2
  <2>2. b8 \in ByteStrings /\ Len(b8) = Len(SampleIp) + Len(b1)
    BY <2>1, ByteStringFacts, Zenon
  <2>3. Len(SampleIp) = 4 /\ Len(b1) = 4
    BY <1>1, <1>2
  <2> HIDE DEF b8
  <2> QED
    BY <2>2, <2>3
<1> HIDE DEF b8
<1>4. 0 \in Octets /\ 1 \in Octets /\ 4 \in Octets /\ 8 \in Octets /\ 8 >= 4 /\ 4 >= 4
  BY DEF Octets
<1>5. /\ Option(MESSAGE_TYPE, b5) \in WholeOptions /\ Option(MESSAGE_TYPE, b6) \in WholeOptions
      /\ Option(SUBNET_MASK, b2) \in WholeOptions
      /\ Option(ROUTERS_ON_SUBNET, SampleIp) \in WholeOptions
      /\ Option(DNS, b8) \in WholeOptions
      /\ Option(SERVER_IDENTIFIER, SampleIp) \in WholeOptions
      /\ Option(LEASE_TIME, b3) \in WholeOptions
      /\ Option(DOMAIN_NAME, b7) \in WholeOptions
      /\ Option(DHCP_T1_VALUE, b4) \in WholeOptions
  <2>1. MESSAGE_TYPE \in Codes /\ MESSAGE_TYPE \notin {SUBNET_MASK, SERVER_IDENTIFIER, LEASE_TIME}
        /\ MESSAGE_TYPE \notin {ROUTERS_ON_SUBNET, DNS}
    BY DEF Codes, MESSAGE_TYPE, SUBNET_MASK, SERVER_IDENTIFIER, LEASE_TIME, ROUTERS_ON_SUBNET, DNS
  <2>2. \A code \in {SUBNET_MASK, SERVER_IDENTIFIER, LEASE_TIME, ROUTERS_ON_SUBNET, DNS,
                     DHCP_T1_VALUE, DOMAIN_NAME} : code \in Codes /\ code # MESSAGE_TYPE
    BY DEF Codes, MESSAGE_TYPE, SUBNET_MASK, SERVER_IDENTIFIER, LEASE_TIME, ROUTERS_ON_SUBNET,
         DNS, DHCP_T1_VALUE, DOMAIN_NAME
  <2>3. DNS \notin {SUBNET_MASK, SERVER_IDENTIFIER, LEASE_TIME}
    BY DEF SUBNET_MASK, SERVER_IDENTIFIER, LEASE_TIME, DNS
  <2>4. /\ DOMAIN_NAME \notin {SUBNET_MASK, SERVER_IDENTIFIER, LEASE_TIME}
        /\ DOMAIN_NAME \notin {ROUTERS_ON_SUBNET, DNS}
    BY DEF SUBNET_MASK, SERVER_IDENTIFIER, LEASE_TIME, ROUTERS_ON_SUBNET, DNS, DOMAIN_NAME
  <2>5. Option(MESSAGE_TYPE, b5) \in WholeOptions /\ Option(MESSAGE_TYPE, b6) \in WholeOptions
    BY <1>2, <1>4, <2>1, WholeIs
  <2>6. ASSUME NEW data \in ByteStrings, Len(data) = 4,
               NEW code \in {SUBNET_MASK, ROUTERS_ON_SUBNET, SERVER_IDENTIFIER, LEASE_TIME,
                             DHCP_T1_VALUE}
        PROVE  Option(code, data) \in WholeOptions
    BY <1>4, <2>2, <2>6, WholeIs
  <2>7. Option(DNS, b8) \in WholeOptions
    BY <1>3, <1>4, <2>2, <2>3, WholeIs
  <2>8. Option(DOMAIN_NAME, b7) \in WholeOptions
    BY <1>2, <1>4, <2>2, <2>4, WholeIs
  <2> QED
    BY <1>1, <1>2, <2>5, <2>6, <2>7, <2>8
<1>6. ReplyOptions \subseteq WholeOptions
  BY <1>5 DEF ReplyOptions, b1, b2, b3, b4, b5, b6, b7, b8
<1>7. ASSUME NEW n \in 0 .. 3, NEW options \in [1 .. n -> ReplyOptions]
      PROVE  options \in Seq(WholeOptions)
  BY <1>6
<1>8. <<10, 0, 0, 1>> \in Seq(Octets)
  BY DEF Octets
<1> QED
  BY <1>7, <1>8, OptionsRead DEF OptionsAreRead

-----------------------------------------------------------------------------
(* send_dhcp_packet.                                                       *)

\* Something stands in a sequence behind its first bytes.
PlacedAt(s, x, first) ==
  first + Len(x) <= Len(s) /\ \A i \in 1 .. Len(x) : s[first + i] = x[i]

LEMMA Placed ==
  ASSUME NEW s \in ByteStrings, NEW t \in ByteStrings
  PROVE  /\ s \o t \in ByteStrings /\ Len(s \o t) = Len(s) + Len(t)
         /\ PlacedAt(s \o t, t, Len(s))
         /\ \A x \in ByteStrings, first \in Nat :
              PlacedAt(s, x, first) => PlacedAt(s \o t, x, first)
<1>1. Len(s) \in Nat /\ Len(t) \in Nat
  BY ByteStringFacts
<1>2. /\ s \o t \in ByteStrings /\ Len(s \o t) = Len(s) + Len(t)
      /\ \A i \in 1 .. Len(s) : (s \o t)[i] = s[i]
      /\ \A i \in 1 .. Len(t) : (s \o t)[Len(s) + i] = t[i]
  BY Joined DEF ByteStrings
<1> DEFINE all == s \o t
<1> HIDE DEF all
<1>3. PlacedAt(all, t, Len(s))
  BY <1>1, <1>2 DEF PlacedAt, all
<1>4. ASSUME NEW x \in ByteStrings, NEW first \in Nat, PlacedAt(s, x, first)
      PROVE  PlacedAt(all, x, first)
  <2>1. Len(x) \in Nat /\ first + Len(x) <= Len(s)
        /\ \A i \in 1 .. Len(x) : s[first + i] = x[i]
    BY <1>4 DEF PlacedAt
  <2>2. \A i \in 1 .. Len(x) : first + i \in 1 .. Len(s)
    BY <1>1, <2>1
  <2>3. Len(all) = Len(s) + Len(t) /\ \A i \in 1 .. Len(s) : all[i] = s[i]
    BY <1>2 DEF all
  <2> QED
    BY <1>1, <2>1, <2>2, <2>3 DEF PlacedAt
<1> QED
  BY <1>2, <1>3, <1>4 DEF all

LEMMA PlacedStays ==
  ASSUME NEW s \in ByteStrings, NEW t \in ByteStrings, NEW x \in ByteStrings,
         NEW first \in Nat, PlacedAt(s, x, first)
  PROVE  PlacedAt(s \o t, x, first)
  BY Placed

LEMMA PlacedIs ==
  ASSUME NEW s \in ByteStrings, NEW x \in ByteStrings, NEW first \in Nat,
         PlacedAt(s, x, first)
  PROVE  SubSeq(s, first + 1, first + Len(x)) = x
<1> DEFINE a == first + 1  b == first + Len(x)  size == Len(x)  part == SubSeq(s, a, b)
<1>1. size \in Nat /\ a \in Int /\ b \in Int /\ b - a + 1 = size /\ (a <= b <=> 1 <= size)
      /\ a = first + 1 /\ b = first + size
  <2>1. size \in Nat
    BY ByteStringFacts
  <2> HIDE DEF size
  <2>2. b = first + size
    BY DEF size
  <2> QED
    BY <2>1, <2>2
<1>2. \A i \in 1 .. size : s[first + i] = x[i] /\ x[i] \in Octets
  BY ByteStringFacts DEF PlacedAt
<1> HIDE DEF size, a, b
<1>3. \A i \in a .. b : s[i] \in Octets
  <2> TAKE i \in a .. b
  <2>1. i - first \in 1 .. size /\ first + (i - first) = i
    BY <1>1
  <2> QED
    BY <1>2, <2>1
<1>4. \A i \in 1 .. size : s[a + i - 1] = x[i]
  <2> TAKE i \in 1 .. size
  <2>1. a + i - 1 = first + i
    BY <1>1
  <2> QED
    BY <1>2, <2>1
<1>5. /\ part \in ByteStrings
      /\ Len(part) = IF a <= b THEN b - a + 1 ELSE 0
      /\ \A i \in 1 .. b - a + 1 : part[i] = s[a + i - 1]
  BY <1>1, <1>3, SubSeqProperties DEF ByteStrings
<1> HIDE DEF part
<1>6. Len(part) = Len(x) /\ \A i \in 1 .. Len(part) : part[i] = x[i]
  BY <1>1, <1>4, <1>5 DEF size
<1>7. part = x
  BY <1>5, <1>6, SeqEqual DEF ByteStrings
<1> QED
  BY <1>7 DEF part, a, b

LEMMA ZerosType ==
  ASSUME NEW n \in Nat
  PROVE  Zeros(n) \in ByteStrings /\ Len(Zeros(n)) = n
<1>1. \A i \in 1 .. n : 0 \in Octets
  BY DEF Octets
<1> QED
  BY <1>1 DEF Zeros, ByteStrings

LEMMA HeaderWritten ==
  ASSUME NEW xid \in ByteStrings, Len(xid) = 4, NEW secs \in ByteStrings, Len(secs) = 2,
         NEW mac \in ByteStrings, Len(mac) = 6
  PROVE  LET header == WrittenHeader(xid, secs, mac)
         IN  /\ header \in ByteStrings /\ Len(header) = 240
             /\ SubSeq(header, 5, 8) = xid /\ SubSeq(header, 29, 34) = mac
             /\ SubSeq(header, 237, 240) = MagicCookie
<1> DEFINE front == <<1, 1, 6, 0>>  flags == <<128, 0>>
           z1 == Zeros(16)  z2 == Zeros(10)  z3 == Zeros(6 * 32)
           h1 == front \o xid  h2 == h1 \o secs  h3 == h2 \o flags  h4 == h3 \o z1
           h5 == h4 \o mac  h6 == h5 \o z2  h7 == h6 \o z3  h8 == h7 \o MagicCookie
<1>1. h8 = WrittenHeader(xid, secs, mac)
  BY DEF WrittenHeader
<1>2. /\ front \in ByteStrings /\ Len(front) = 4 /\ flags \in ByteStrings /\ Len(flags) = 2
      /\ MagicCookie \in ByteStrings /\ Len(MagicCookie) = 4
  BY DEF Octets, MagicCookie, ByteStrings
<1>3. /\ z1 \in ByteStrings /\ Len(z1) = 16 /\ z2 \in ByteStrings /\ Len(z2) = 10
      /\ z3 \in ByteStrings /\ Len(z3) = 192
  <2> DEFINE a == 16  b == 10  c == 6 * 32
  <2>1. a \in Nat /\ b \in Nat /\ c \in Nat /\ a = 16 /\ b = 10 /\ c = 192
    OBVIOUS
  <2> HIDE DEF a, b, c
  <2>2. /\ Zeros(a) \in ByteStrings /\ Len(Zeros(a)) = a
        /\ Zeros(b) \in ByteStrings /\ Len(Zeros(b)) = b
        /\ Zeros(c) \in ByteStrings /\ Len(Zeros(c)) = c
    BY <2>1, ZerosType, Zenon
  <2>3. z1 = Zeros(a) /\ z2 = Zeros(b) /\ z3 = Zeros(c)
    BY Zenon DEF a, b, c
  <2> HIDE DEF z1, z2, z3
  <2> QED
    BY <2>1, <2>2, <2>3
<1> HIDE DEF front, flags, z1, z2, z3
<1>4. h1 \in ByteStrings /\ Len(h1) = 8 /\ PlacedAt(h1, xid, 4)
  <2>1. front \in ByteStrings /\ xid \in ByteStrings
    BY <1>2
  <2>2. /\ h1 \in ByteStrings /\ Len(h1) = Len(front) + Len(xid)
        /\ PlacedAt(h1, xid, Len(front))
    BY <2>1, Placed
  <2> HIDE DEF h1
  <2> QED
    BY <1>2, <2>2
<1> HIDE DEF h1
<1>5. h2 \in ByteStrings /\ Len(h2) = 10 /\ PlacedAt(h2, xid, 4)
  <2>1. h1 \in ByteStrings /\ secs \in ByteStrings
    BY <1>4
  <2>2. /\ h2 \in ByteStrings /\ Len(h2) = Len(h1) + Len(secs)
        /\ PlacedAt(h2, secs, Len(h1))
    BY <2>1, Placed
  <2>3. PlacedAt(h2, xid, 4)
    BY <1>4, PlacedStays
  <2> HIDE DEF h2
  <2> QED
    BY <1>4, <2>2, <2>3
<1> HIDE DEF h2
<1>6. h3 \in ByteStrings /\ Len(h3) = 12 /\ PlacedAt(h3, xid, 4)
  <2>1. h2 \in ByteStrings /\ flags \in ByteStrings
    BY <1>2, <1>5
  <2>2. /\ h3 \in ByteStrings /\ Len(h3) = Len(h2) + Len(flags)
        /\ PlacedAt(h3, flags, Len(h2))
    BY <2>1, Placed
  <2>3. PlacedAt(h3, xid, 4)
    BY <1>2, <1>5, PlacedStays
  <2> HIDE DEF h3
  <2> QED
    BY <1>2, <1>5, <2>2, <2>3
<1> HIDE DEF h3
<1>7. h4 \in ByteStrings /\ Len(h4) = 28 /\ PlacedAt(h4, xid, 4)
  <2>1. h3 \in ByteStrings /\ z1 \in ByteStrings
    BY <1>3, <1>6
  <2>2. /\ h4 \in ByteStrings /\ Len(h4) = Len(h3) + Len(z1)
        /\ PlacedAt(h4, z1, Len(h3))
    BY <2>1, Placed
  <2>3. PlacedAt(h4, xid, 4)
    BY <1>3, <1>6, PlacedStays
  <2> HIDE DEF h4
  <2> QED
    BY <1>3, <1>6, <2>2, <2>3
<1> HIDE DEF h4
<1>8. h5 \in ByteStrings /\ Len(h5) = 34 /\ PlacedAt(h5, xid, 4) /\ PlacedAt(h5, mac, 28)
  <2>1. h4 \in ByteStrings /\ mac \in ByteStrings
    BY <1>7
  <2>2. /\ h5 \in ByteStrings /\ Len(h5) = Len(h4) + Len(mac)
        /\ PlacedAt(h5, mac, Len(h4))
    BY <2>1, Placed
  <2>3. PlacedAt(h5, xid, 4)
    BY <1>7, PlacedStays
  <2> HIDE DEF h5
  <2> QED
    BY <1>7, <2>2, <2>3
<1> HIDE DEF h5
<1>9. h6 \in ByteStrings /\ Len(h6) = 44 /\ PlacedAt(h6, xid, 4) /\ PlacedAt(h6, mac, 28)
  <2>1. h5 \in ByteStrings /\ z2 \in ByteStrings
    BY <1>3, <1>8
  <2>2. /\ h6 \in ByteStrings /\ Len(h6) = Len(h5) + Len(z2)
        /\ PlacedAt(h6, z2, Len(h5))
    BY <2>1, Placed
  <2>3. PlacedAt(h6, xid, 4)
    BY <1>3, <1>8, PlacedStays
  <2>4. PlacedAt(h6, mac, 28)
    BY <1>3, <1>8, PlacedStays
  <2> HIDE DEF h6
  <2> QED
    BY <1>3, <1>8, <2>2, <2>3, <2>4
<1> HIDE DEF h6
<1>10. h7 \in ByteStrings /\ Len(h7) = 236 /\ PlacedAt(h7, xid, 4) /\ PlacedAt(h7, mac, 28)
  <2>1. h6 \in ByteStrings /\ z3 \in ByteStrings
    BY <1>3, <1>9
  <2>2. /\ h7 \in ByteStrings /\ Len(h7) = Len(h6) + Len(z3)
        /\ PlacedAt(h7, z3, Len(h6))
    BY <2>1, Placed
  <2>3. PlacedAt(h7, xid, 4)
    BY <1>3, <1>9, PlacedStays
  <2>4. PlacedAt(h7, mac, 28)
    BY <1>3, <1>9, PlacedStays
  <2> HIDE DEF h7
  <2> QED
    BY <1>3, <1>9, <2>2, <2>3, <2>4
<1> HIDE DEF h7
<1>11. /\ h8 \in ByteStrings /\ Len(h8) = 240 /\ PlacedAt(h8, xid, 4) /\ PlacedAt(h8, mac, 28)
       /\ PlacedAt(h8, MagicCookie, 236)
  <2>1. h7 \in ByteStrings /\ MagicCookie \in ByteStrings
    BY <1>2, <1>10
  <2>2. /\ h8 \in ByteStrings /\ Len(h8) = Len(h7) + Len(MagicCookie)
        /\ PlacedAt(h8, MagicCookie, Len(h7))
    BY <2>1, Placed
  <2>3. PlacedAt(h8, xid, 4)
    BY <1>2, <1>10, PlacedStays
  <2>4. PlacedAt(h8, mac, 28)
    BY <1>2, <1>10, PlacedStays
  <2> HIDE DEF h8
  <2> QED
    BY <1>2, <1>10, <2>2, <2>3, <2>4
<1> HIDE DEF h8
<1>12. SubSeq(h8, 5, 8) = xid /\ SubSeq(h8, 29, 34) = mac /\ SubSeq(h8, 237, 240) = MagicCookie
  <2>1. h8 \in ByteStrings /\ MagicCookie \in ByteStrings
    BY <1>2, <1>11
  <2>2. \A first \in Nat :
          /\ PlacedAt(h8, xid, first) => SubSeq(h8, first + 1, first + Len(xid)) = xid
          /\ PlacedAt(h8, mac, first) => SubSeq(h8, first + 1, first + Len(mac)) = mac
          /\ PlacedAt(h8, MagicCookie, first) =>
               SubSeq(h8, first + 1, first + Len(MagicCookie)) = MagicCookie
    BY <2>1, PlacedIs
  <2>3. SubSeq(h8, 5, 8) = xid
    BY <1>11, <2>2
  <2>4. SubSeq(h8, 29, 34) = mac
    BY <1>11, <2>2
  <2>5. SubSeq(h8, 237, 240) = MagicCookie
    BY <1>2, <1>11, <2>2
  <2> QED
    BY <2>3, <2>4, <2>5
<1> QED
  BY <1>1, <1>11, <1>12

LEMMA Assoc ==
  \A s, t, u \in ByteStrings : (s \o t) \o u = s \o (t \o u)
  BY ConcatAssociative DEF ByteStrings

\* Two pieces are a whole if they have its bytes.
LEMMA PiecesAre ==
  ASSUME NEW s \in ByteStrings, NEW t \in ByteStrings, NEW u \in ByteStrings,
         Len(u) = Len(s) + Len(t),
         \A i \in 1 .. Len(s) : u[i] = s[i], \A i \in 1 .. Len(t) : u[Len(s) + i] = t[i]
  PROVE  s \o t = u
<1> DEFINE all == s \o t  n == Len(s)  m == Len(t)
<1>1. /\ all \in ByteStrings /\ Len(all) = n + m
      /\ PlacedAt(all, t, n)
      /\ \A x \in ByteStrings, first \in Nat : PlacedAt(s, x, first) => PlacedAt(all, x, first)
  BY Placed
<1>2. n \in Nat /\ m \in Nat
  BY ByteStringFacts
<1>3. PlacedAt(s, s, 0)
  BY <1>2 DEF PlacedAt
<1>4. PlacedAt(all, s, 0)
  BY <1>1, <1>3
<1> HIDE DEF all
<1>5. (\A i \in 1 .. n : all[i] = u[i]) /\ (\A i \in 1 .. m : all[n + i] = u[n + i])
  BY <1>1, <1>2, <1>4 DEF PlacedAt
<1>6. Len(all) = n + m /\ Len(u) = n + m
  BY <1>1
<1> HIDE DEF n, m
<1>7. ASSUME NEW i \in 1 .. n + m PROVE all[i] = u[i]
  <2>1. CASE i <= n
    BY <1>2, <1>5, <2>1
  <2>2. CASE ~(i <= n)
    <3>1. i - n \in 1 .. m /\ n + (i - n) = i
      BY <1>2, <2>2
    <3> QED
      BY <1>5, <3>1
  <2> QED
    BY <2>1, <2>2
<1>8. all = u
  BY <1>1, <1>6, <1>7, SeqEqual DEF ByteStrings
<1> QED
  BY <1>8 DEF all

\* Bytes in two pieces are the bytes in one.
LEMMA ThreeBytes ==
  ASSUME NEW a \in Octets, NEW b \in Octets, NEW c \in Octets
  PROVE  <<a, b>> \o <<c>> = <<a, b, c>>
<1> DEFINE s == <<a, b>>  t == <<c>>  u == <<a, b, c>>
<1>1. s \in ByteStrings /\ t \in ByteStrings /\ u \in ByteStrings
  BY DEF ByteStrings
<1>2. Len(s) = 2 /\ Len(t) = 1 /\ Len(u) = 2 + 1
  OBVIOUS
<1>3. \A i \in 1 .. 2 : u[i] = s[i]
  OBVIOUS
<1>4. \A i \in 1 .. 1 : u[2 + i] = t[i]
  OBVIOUS
<1> HIDE DEF s, t, u
<1>5. /\ Len(u) = Len(s) + Len(t)
      /\ \A i \in 1 .. Len(s) : u[i] = s[i]
      /\ \A i \in 1 .. Len(t) : u[Len(s) + i] = t[i]
  BY <1>2, <1>3, <1>4
<1>6. s \o t = u
  BY <1>1, <1>5, PiecesAre
<1> QED
  BY <1>6 DEF s, t, u

LEMMA SixBytes ==
  ASSUME NEW a \in Octets, NEW b \in Octets, NEW c \in Octets,
         NEW d \in Octets, NEW e \in Octets, NEW f \in Octets
  PROVE  <<a, b, c>> \o <<d, e, f>> = <<a, b, c, d, e, f>>
<1> DEFINE s == <<a, b, c>>  t == <<d, e, f>>  u == <<a, b, c, d, e, f>>
<1>1. s \in ByteStrings /\ t \in ByteStrings /\ u \in ByteStrings
  BY DEF ByteStrings
<1>2. Len(s) = 3 /\ Len(t) = 3 /\ Len(u) = 3 + 3
  OBVIOUS
<1>3. \A i \in 1 .. 3 : u[i] = s[i]
  OBVIOUS
<1>4. \A i \in 1 .. 3 : u[3 + i] = t[i]
  OBVIOUS
<1> HIDE DEF s, t, u
<1>5. /\ Len(u) = Len(s) + Len(t)
      /\ \A i \in 1 .. Len(s) : u[i] = s[i]
      /\ \A i \in 1 .. Len(t) : u[Len(s) + i] = t[i]
  BY <1>2, <1>3, <1>4
<1>6. s \o t = u
  BY <1>1, <1>5, PiecesAre
<1> QED
  BY <1>6 DEF s, t, u

LEMMA EightBytes ==
  <<55, 6>> \o <<1, 3, 6, 15, 58, 59>> = <<55, 6, 1, 3, 6, 15, 58, 59>>
<1> DEFINE s == <<55, 6>>  t == <<1, 3, 6, 15, 58, 59>>  u == <<55, 6, 1, 3, 6, 15, 58, 59>>
<1>1. s \in ByteStrings /\ t \in ByteStrings /\ u \in ByteStrings
  BY DEF ByteStrings, Octets
<1>2. Len(s) = 2 /\ Len(t) = 6 /\ Len(u) = 2 + 6
  OBVIOUS
<1>3. \A i \in 1 .. 2 : u[i] = s[i]
  OBVIOUS
<1>4. \A i \in 1 .. 6 : u[2 + i] = t[i]
  OBVIOUS
<1> HIDE DEF s, t, u
<1>5. /\ Len(u) = Len(s) + Len(t)
      /\ \A i \in 1 .. Len(s) : u[i] = s[i]
      /\ \A i \in 1 .. Len(t) : u[Len(s) + i] = t[i]
  BY <1>2, <1>3, <1>4
<1>6. s \o t = u
  BY <1>1, <1>5, PiecesAre
<1> QED
  BY <1>6 DEF s, t, u

LEMMA NineBytes ==
  <<55, 6, 1, 3, 6, 15, 58, 59>> \o <<255>> = <<55, 6, 1, 3, 6, 15, 58, 59, 255>>
<1> DEFINE s == <<55, 6, 1, 3, 6, 15, 58, 59>>  t == <<255>>
           u == <<55, 6, 1, 3, 6, 15, 58, 59, 255>>
<1>1. s \in ByteStrings /\ t \in ByteStrings /\ u \in ByteStrings
  BY DEF ByteStrings, Octets
<1>2. Len(s) = 8 /\ Len(t) = 1 /\ Len(u) = 8 + 1
  OBVIOUS
<1>3. \A i \in 1 .. 8 : u[i] = s[i]
  OBVIOUS
<1>4. \A i \in 1 .. 1 : u[8 + i] = t[i]
  OBVIOUS
<1> HIDE DEF s, t, u
<1>5. /\ Len(u) = Len(s) + Len(t)
      /\ \A i \in 1 .. Len(s) : u[i] = s[i]
      /\ \A i \in 1 .. Len(t) : u[Len(s) + i] = t[i]
  BY <1>2, <1>3, <1>4
<1>6. s \o t = u
  BY <1>1, <1>5, PiecesAre
<1> QED
  BY <1>6 DEF s, t, u


\* A list of options in one more piece.
LEMMA LaidOfFew ==
  ASSUME NEW options, Whole(options), Len(options) >= 4
  PROVE  LET A(n) == Laying(options[n])
         IN  /\ Len(options) = 4 =>
                  Laid(options) = (((A(1) \o A(2)) \o A(3)) \o A(4)) \o <<END_OPTIONS>>
             /\ Len(options) = 6 =>
                  Laid(options) =
                    (((((A(1) \o A(2)) \o A(3)) \o A(4)) \o A(5)) \o A(6)) \o <<END_OPTIONS>>
<1> DEFINE len == Len(options)
           L == LaidFrom(options)
           A(n) == Laying(options[n])
<1>1. len \in Nat /\ len >= 4 /\ \A n \in 1 .. len : options[n] \in WholeOptions
  BY DEF Whole
<1>2. /\ Laid(options) = L[len] \o <<END_OPTIONS>> /\ L[0] = <<>>
      /\ \A n \in 1 .. len : L[n] = L[n - 1] \o A(n)
  BY <1>1, LaidExists
<1>3. A(1) \in ByteStrings
  <2>1. options[1] \in WholeOptions
    BY <1>1
  <2> QED
    BY <2>1, LayingIs DEF ByteStrings
<1> HIDE DEF L, A, len
<1>4. L[1] = A(1)
  <2>1. 1 \in 1 .. len /\ 1 - 1 = 0
    BY <1>1
  <2>2. L[1] = L[0] \o A(1)
    BY <1>2, <2>1
  <2> QED
    BY <1>2, <1>3, <2>2, ConcatEmptySeq DEF ByteStrings
<1>5. L[2] = L[1] \o A(2) /\ L[3] = L[2] \o A(3) /\ L[4] = L[3] \o A(4)
  <2>1. 2 \in 1 .. len /\ 2 - 1 = 1 /\ 3 \in 1 .. len /\ 3 - 1 = 2 /\ 4 \in 1 .. len /\ 4 - 1 = 3
    BY <1>1
  <2> QED
    BY <1>2, <2>1
<1>6. len = 4 => Laid(options) = (((A(1) \o A(2)) \o A(3)) \o A(4)) \o <<END_OPTIONS>>
  BY <1>2, <1>4, <1>5
<1>7. ASSUME len = 6
      PROVE  Laid(options) =
               (((((A(1) \o A(2)) \o A(3)) \o A(4)) \o A(5)) \o A(6)) \o <<END_OPTIONS>>
  <2>1. 5 \in 1 .. len /\ 5 - 1 = 4 /\ 6 \in 1 .. len /\ 6 - 1 = 5
    BY <1>7
  <2>2. L[5] = L[4] \o A(5) /\ L[6] = L[5] \o A(6)
    BY <1>2, <2>1
  <2> QED
    BY <1>2, <1>4, <1>5, <1>7, <2>2
<1> QED
  BY <1>6, <1>7 DEF len, A

\* What a packet is made of.
Fields(type, hostname, mac, ip, server) ==
  /\ type \in {DISCOVER, REQUEST} /\ hostname \in ByteStrings
  /\ mac \in ByteStrings /\ Len(mac) = 6
  /\ ip \in ByteStrings /\ Len(ip) = 4 /\ server \in ByteStrings /\ Len(server) = 4

LEMMA OptionsWritten ==
  ASSUME NEW type, NEW hostname, NEW mac, NEW ip, NEW server,
         Fields(type, hostname, mac, ip, server)
  PROVE  WrittenOptions(type, mac, hostname, ip, server) =
           Laid(<<Option(MESSAGE_TYPE, <<type>>), Option(CLIENT_IDENTIFIER, <<1>> \o mac),
                  Option(CLIENT_HOSTNAME, SubSeq(hostname, 1, Len(hostname) % 256))>>
                \o (IF type = REQUEST
                    THEN <<Option(REQUESTED_IP_ADDR, ip), Option(SERVER_IDENTIFIER, server)>>
                    ELSE <<>>)
                \o <<Option(PARAM_REQUEST, <<1, 3, 6, 15, 58, 59>>)>>)
<1> DEFINE kind == <<type>>  one == <<1>>  id == one \o mac
           size == Len(hostname) % 256  name == SubSeq(hostname, 1, size)
           params == <<1, 3, 6, 15, 58, 59>>
           o1 == Option(MESSAGE_TYPE, kind)  o2 == Option(CLIENT_IDENTIFIER, id)
           o3 == Option(CLIENT_HOSTNAME, name)  o4 == Option(REQUESTED_IP_ADDR, ip)
           o5 == Option(SERVER_IDENTIFIER, server)  o6 == Option(PARAM_REQUEST, params)
           mark == <<END_OPTIONS>>
<1>1. type \in Octets
  BY DEF Fields, DISCOVER, REQUEST, Octets
<1>2. hostname \in ByteStrings
  BY DEF Fields
<1>3. mac \in ByteStrings /\ Len(mac) = 6
  BY DEF Fields
<1>4. ip \in ByteStrings /\ Len(ip) = 4 /\ server \in ByteStrings /\ Len(server) = 4
  BY DEF Fields
<1>5. /\ kind \in ByteStrings /\ Len(kind) = 1 /\ one \in ByteStrings /\ Len(one) = 1
      /\ params \in ByteStrings /\ Len(params) = 6 /\ mark \in ByteStrings
  BY <1>1 DEF ByteStrings, Octets, END_OPTIONS
<1> HIDE DEF kind, one, params, mark
<1>6. id \in ByteStrings /\ Len(id) = 7
  <2>1. id \in ByteStrings /\ Len(id) = Len(one) + Len(mac)
    BY <1>5, <1>3, ByteStringFacts
  <2> HIDE DEF id
  <2> QED
    BY <1>5, <1>3, <2>1
<1>7. name \in ByteStrings /\ Len(name) = size /\ size \in Octets
  <2> DEFINE all == Len(hostname)
  <2>1. all \in Nat /\ \A i \in 1 .. all : hostname[i] \in Octets
    BY <1>2, ByteStringFacts
  <2> HIDE DEF all
  <2>2. size = all % 256
    BY DEF all
  <2> HIDE DEF size
  <2>3. size \in 0 .. 255 /\ size <= all
    BY <2>1, <2>2
  <2>4. \A i \in 1 .. size : hostname[i] \in Octets
    BY <2>1, <2>3
  <2>5. name \in Seq(Octets) /\ Len(name) = IF 1 <= size THEN size - 1 + 1 ELSE 0
    BY <2>3, <2>4, SubSeqProperties
  <2> HIDE DEF name
  <2> QED
    BY <2>3, <2>5 DEF ByteStrings, Octets
<1> HIDE DEF id, name, size
<1>8. /\ o1 \in WholeOptions /\ o2 \in WholeOptions /\ o3 \in WholeOptions
      /\ o4 \in WholeOptions /\ o5 \in WholeOptions /\ o6 \in WholeOptions
  <2>1. 1 \in Octets /\ 4 \in Octets /\ 6 \in Octets /\ 7 \in Octets
    BY DEF Octets
  <2>2. MESSAGE_TYPE \in Codes /\ MESSAGE_TYPE \notin {SUBNET_MASK, SERVER_IDENTIFIER, LEASE_TIME}
        /\ MESSAGE_TYPE \notin {ROUTERS_ON_SUBNET, DNS}
    BY DEF Codes, MESSAGE_TYPE, SUBNET_MASK, SERVER_IDENTIFIER, LEASE_TIME, ROUTERS_ON_SUBNET, DNS
  <2>3. SERVER_IDENTIFIER \in Codes /\ SERVER_IDENTIFIER # MESSAGE_TYPE
        /\ SERVER_IDENTIFIER \notin {ROUTERS_ON_SUBNET, DNS}
    BY DEF Codes, MESSAGE_TYPE, SERVER_IDENTIFIER, ROUTERS_ON_SUBNET, DNS
  <2>4. ASSUME NEW code \in {CLIENT_IDENTIFIER, CLIENT_HOSTNAME, REQUESTED_IP_ADDR, PARAM_REQUEST}
        PROVE  /\ code \in Codes /\ code # MESSAGE_TYPE
               /\ code \notin {SUBNET_MASK, SERVER_IDENTIFIER, LEASE_TIME}
               /\ code \notin {ROUTERS_ON_SUBNET, DNS}
    BY DEF Codes, CLIENT_IDENTIFIER, CLIENT_HOSTNAME, REQUESTED_IP_ADDR, PARAM_REQUEST,
         MESSAGE_TYPE, SUBNET_MASK, SERVER_IDENTIFIER, LEASE_TIME, ROUTERS_ON_SUBNET, DNS
  <2>5. o1 \in WholeOptions
    BY <1>5, <2>1, <2>2, WholeIs
  <2>6. ASSUME NEW code \in {CLIENT_IDENTIFIER, CLIENT_HOSTNAME, REQUESTED_IP_ADDR, PARAM_REQUEST},
               NEW data \in ByteStrings, Len(data) \in Octets
        PROVE  Option(code, data) \in WholeOptions
    BY <2>4, <2>6, WholeIs
  <2>7. o5 \in WholeOptions
    BY <1>4, <2>1, <2>3, WholeIs
  <2>8. o2 \in WholeOptions /\ o3 \in WholeOptions /\ o4 \in WholeOptions /\ o6 \in WholeOptions
    BY <1>5, <1>6, <1>7, <1>4, <2>1, <2>6
  <2> QED
    BY <2>5, <2>7, <2>8
<1> DEFINE a1 == Laying(o1)  a2 == Laying(o2)  a3 == Laying(o3)
           a4 == Laying(o4)  a5 == Laying(o5)  a6 == Laying(o6)
<1>9. /\ a1 \in ByteStrings /\ a2 \in ByteStrings /\ a3 \in ByteStrings
      /\ a4 \in ByteStrings /\ a5 \in ByteStrings /\ a6 \in ByteStrings
  BY <1>8, LayingIs DEF ByteStrings
<1>10. /\ a1 = <<MESSAGE_TYPE, 1>> \o kind /\ a2 = <<CLIENT_IDENTIFIER, 7>> \o id
      /\ a3 = <<CLIENT_HOSTNAME, size>> \o name /\ a4 = <<REQUESTED_IP_ADDR, 4>> \o ip
      /\ a5 = <<SERVER_IDENTIFIER, 4>> \o server /\ a6 = <<PARAM_REQUEST, 6>> \o params
  BY <1>5, <1>6, <1>7, <1>4 DEF Laying, Option
<1> HIDE DEF a1, a2, a3, a4, a5, a6, o1, o2, o3, o4, o5, o6
<1>11. <<MESSAGE_TYPE, 1, type, CLIENT_IDENTIFIER, 7, 1>> \o mac = a1 \o a2
  <2> DEFINE f2 == <<CLIENT_IDENTIFIER, 7>>  f3 == <<CLIENT_IDENTIFIER, 7, 1>>
             all == <<MESSAGE_TYPE, 1, type, CLIENT_IDENTIFIER, 7, 1>>
  <2>1. /\ MESSAGE_TYPE \in Octets /\ CLIENT_IDENTIFIER \in Octets /\ 1 \in Octets /\ 7 \in Octets
    BY DEF MESSAGE_TYPE, CLIENT_IDENTIFIER, Octets
  <2>2. f2 \in ByteStrings /\ f3 \in ByteStrings
    BY <2>1 DEF ByteStrings
  <2>3. f2 \o one = f3
    BY <2>1, ThreeBytes DEF one
  <2>4. a1 = <<MESSAGE_TYPE, 1, type>>
    BY <1>1, <1>10, <2>1, ThreeBytes DEF kind
  <2>5. <<MESSAGE_TYPE, 1, type>> \o f3 = all
    <3> DEFINE m == MESSAGE_TYPE  c == CLIENT_IDENTIFIER
    <3>1. m \in Octets /\ c \in Octets
      BY <2>1
    <3> HIDE DEF m, c
    <3>2. <<m, 1, type>> \o <<c, 7, 1>> = <<m, 1, type, c, 7, 1>>
      BY <1>1, <2>1, <3>1, SixBytes
    <3> QED
      BY <3>2 DEF m, c
  <2> HIDE DEF f2, f3, all
  <2>6. a2 = f2 \o (one \o mac)
    BY <1>10 DEF f2, id
  <2>7. (f2 \o one) \o mac = f2 \o (one \o mac)
    <3>1. f2 \in ByteStrings /\ one \in ByteStrings /\ mac \in ByteStrings
      BY <1>5, <1>3, <2>2
    <3> QED
      BY <3>1, Assoc
  <2>8. (a1 \o f3) \o mac = a1 \o (f3 \o mac)
    <3>1. a1 \in ByteStrings /\ f3 \in ByteStrings /\ mac \in ByteStrings
      BY <1>9, <1>3, <2>2
    <3> QED
      BY <3>1, Assoc
  <2> QED
    BY <2>3, <2>4, <2>5, <2>6, <2>7, <2>8 DEF all
<1>12. WrittenHostName(hostname) = a3
  BY <1>10 DEF WrittenHostName, size, name
<1>13. (<<REQUESTED_IP_ADDR, 4>> \o ip \o <<SERVER_IDENTIFIER, 4>>) \o server = a4 \o a5
  <2> DEFINE f5 == <<SERVER_IDENTIFIER, 4>>
  <2>1. f5 \in ByteStrings
    BY DEF ByteStrings, SERVER_IDENTIFIER, Octets
  <2> HIDE DEF f5
  <2>2. (a4 \o f5) \o server = a4 \o (f5 \o server)
    <3>1. a4 \in ByteStrings /\ f5 \in ByteStrings /\ server \in ByteStrings
      BY <1>9, <1>4, <2>1
    <3> QED
      BY <3>1, Assoc
  <2> QED
    BY <1>10, <2>2 DEF f5
<1>14. <<PARAM_REQUEST, 6, SUBNET_MASK, ROUTERS_ON_SUBNET, DNS, DOMAIN_NAME,
         DHCP_T1_VALUE, DHCP_T2_VALUE, END_OPTIONS>> = a6 \o mark
  <2>1. a6 = <<55, 6>> \o <<1, 3, 6, 15, 58, 59>>
    BY <1>10 DEF params, PARAM_REQUEST
  <2> QED
    BY <2>1, EightBytes, NineBytes DEF mark, END_OPTIONS, PARAM_REQUEST, SUBNET_MASK,
       ROUTERS_ON_SUBNET, DNS, DOMAIN_NAME, DHCP_T1_VALUE, DHCP_T2_VALUE
<1>15. WrittenOptions(type, mac, hostname, ip, server) =
         (((a1 \o a2) \o a3) \o (IF type = REQUEST THEN a4 \o a5 ELSE <<>>)) \o (a6 \o mark)
  BY <1>11, <1>12, <1>13, <1>14 DEF WrittenOptions
<1> DEFINE first == a1 \o a2  second == first \o a3
<1>16. first \in ByteStrings /\ second \in ByteStrings
  <2>1. first \in ByteStrings
    BY <1>9, ByteStringFacts
  <2> QED
    BY <1>9, <2>1, ByteStringFacts
<1> HIDE DEF first
<1>17. CASE type # REQUEST
  <2> DEFINE few == <<o1, o2, o3>>  none == <<>>  end == <<o6>>  all == few \o none \o end
  <2>1. /\ few \in Seq(WholeOptions) /\ Len(few) = 3 /\ end \in Seq(WholeOptions) /\ Len(end) = 1
        /\ few[1] = o1 /\ few[2] = o2 /\ few[3] = o3 /\ end[1] = o6
    BY <1>8
  <2> HIDE DEF few, end
  <2>2. few \o none = few
    BY <2>1, ConcatEmptySeq
  <2>3. /\ all \in Seq(WholeOptions) /\ Len(all) = Len(few) + Len(end)
        /\ \A i \in 1 .. Len(few) : all[i] = few[i]
        /\ \A i \in 1 .. Len(end) : all[Len(few) + i] = end[i]
    <3>1. few \in Seq(WholeOptions) /\ end \in Seq(WholeOptions)
      BY <2>1
    <3>2. all = few \o end
      BY <2>2
    <3> HIDE DEF all
    <3> QED
      BY <3>1, <3>2, Joined
  <2> HIDE DEF all
  <2>4. Len(all) = 4 /\ all[1] = o1 /\ all[2] = o2 /\ all[3] = o3 /\ all[4] = o6
    BY <2>1, <2>3
  <2>5. Whole(all)
    BY <2>3, LenProperties, ElementOfSeq DEF Whole
  <2>6. Laid(all) = (((a1 \o a2) \o a3) \o a6) \o mark
    <3>1. Len(all) = 4 /\ Len(all) >= 4
      BY <2>4
    <3>2. Laid(all) = (((Laying(all[1]) \o Laying(all[2])) \o Laying(all[3])) \o Laying(all[4]))
                        \o <<END_OPTIONS>>
      BY <2>5, <3>1, LaidOfFew
    <3> QED
      BY <2>4, <3>2 DEF a1, a2, a3, a6, mark
  <2> HIDE DEF second
  <2>7. second \o none = second
    BY <1>16, ConcatEmptySeq DEF ByteStrings
  <2>8. (second \o a6) \o mark = second \o (a6 \o mark)
    <3>1. second \in ByteStrings /\ a6 \in ByteStrings /\ mark \in ByteStrings
      BY <1>5, <1>9, <1>16
    <3> QED
      BY <3>1, Assoc
  <2>9. WrittenOptions(type, mac, hostname, ip, server) = Laid(all)
    BY <1>15, <1>17, <2>6, <2>7, <2>8 DEF first, second
  <2> QED
    BY <1>17, <2>9 DEF all, few, end, o1, o2, o3, o6, kind, id, one, name, size, params
<1>18. CASE type = REQUEST
  <2> DEFINE few == <<o1, o2, o3>>  more == <<o4, o5>>  end == <<o6>>
             most == few \o more  all == most \o end
  <2>1. /\ few \in Seq(WholeOptions) /\ Len(few) = 3
        /\ more \in Seq(WholeOptions) /\ Len(more) = 2
        /\ end \in Seq(WholeOptions) /\ Len(end) = 1
        /\ few[1] = o1 /\ few[2] = o2 /\ few[3] = o3 /\ more[1] = o4 /\ more[2] = o5
        /\ end[1] = o6
    BY <1>8
  <2> HIDE DEF few, more, end
  <2>2. /\ most \in Seq(WholeOptions) /\ Len(most) = Len(few) + Len(more)
        /\ \A i \in 1 .. Len(few) : most[i] = few[i]
        /\ \A i \in 1 .. Len(more) : most[Len(few) + i] = more[i]
    <3>1. few \in Seq(WholeOptions) /\ more \in Seq(WholeOptions)
      BY <2>1
    <3> QED
      BY <3>1, Joined
  <2> HIDE DEF most
  <2>3. /\ Len(most) = 5 /\ most[1] = o1 /\ most[2] = o2 /\ most[3] = o3
        /\ most[4] = o4 /\ most[5] = o5
    BY <2>1, <2>2
  <2>4. /\ all \in Seq(WholeOptions) /\ Len(all) = Len(most) + Len(end)
        /\ \A i \in 1 .. Len(most) : all[i] = most[i]
        /\ \A i \in 1 .. Len(end) : all[Len(most) + i] = end[i]
    <3>1. most \in Seq(WholeOptions) /\ end \in Seq(WholeOptions)
      BY <2>1, <2>2
    <3> QED
      BY <3>1, Joined
  <2> HIDE DEF all
  <2>5. /\ Len(all) = 6 /\ all[1] = o1 /\ all[2] = o2 /\ all[3] = o3
        /\ all[4] = o4 /\ all[5] = o5 /\ all[6] = o6
    BY <2>1, <2>3, <2>4
  <2>6. Whole(all)
    BY <2>4, LenProperties, ElementOfSeq DEF Whole
  <2>7. Laid(all) = (((((a1 \o a2) \o a3) \o a4) \o a5) \o a6) \o mark
    <3>1. Len(all) = 6 /\ Len(all) >= 4
      BY <2>5
    <3>2. Laid(all) = (((((Laying(all[1]) \o Laying(all[2])) \o Laying(all[3])) \o Laying(all[4]))
                         \o Laying(all[5])) \o Laying(all[6])) \o <<END_OPTIONS>>
      BY <2>6, <3>1, LaidOfFew
    <3> QED
      BY <2>5, <3>2 DEF a1, a2, a3, a4, a5, a6, mark
  <2> HIDE DEF second
  <2>8. second \o (a4 \o a5) = (second \o a4) \o a5 /\ (second \o a4) \o a5 \in ByteStrings
    <3>1. second \in ByteStrings /\ a4 \in ByteStrings /\ a5 \in ByteStrings
      BY <1>9, <1>16
    <3>2. second \o a4 \in ByteStrings
      BY <3>1, ByteStringFacts
    <3>3. (second \o a4) \o a5 \in ByteStrings
      BY <3>1, <3>2, ByteStringFacts
    <3> QED
      BY <3>1, <3>3, Assoc
  <2> DEFINE third == (second \o a4) \o a5
  <2> HIDE DEF third
  <2>9. (third \o a6) \o mark = third \o (a6 \o mark)
    <3>1. third \in ByteStrings /\ a6 \in ByteStrings /\ mark \in ByteStrings
      BY <1>5, <1>9, <2>8 DEF third
    <3> QED
      BY <3>1, Assoc
  <2>10. WrittenOptions(type, mac, hostname, ip, server) = Laid(all)
    BY <1>15, <1>18, <2>7, <2>8, <2>9 DEF first, second, third
  <2> QED
    BY <1>18, <2>10 DEF all, most, few, more, end, o1, o2, o3, o4, o5, o6, kind, id, one,
         name, size, params
<1> QED
  BY <1>17, <1>18

LEMMA PacketWritten ==
  ASSUME NEW type, NEW hostname, NEW mac, NEW ip, NEW server,
         Fields(type, hostname, mac, ip, server),
         NEW xid \in ByteStrings, Len(xid) = 4, NEW secs \in ByteStrings, Len(secs) = 2
  PROVE  WritesPacket(type, hostname, xid, secs, mac, ip, server)
<1>1. mac \in ByteStrings /\ Len(mac) = 6
  BY DEF Fields
<1> DEFINE header == WrittenHeader(xid, secs, mac)
<1>2. /\ Len(header) = 240
      /\ SubSeq(header, 5, 8) = xid /\ SubSeq(header, 29, 34) = mac
      /\ SubSeq(header, 237, 240) = MagicCookie
  BY <1>1, HeaderWritten
<1>3. WrittenOptions(type, mac, hostname, ip, server) =
        Laid(<<Option(MESSAGE_TYPE, <<type>>), Option(CLIENT_IDENTIFIER, <<1>> \o mac),
               Option(CLIENT_HOSTNAME, SubSeq(hostname, 1, Len(hostname) % 256))>>
             \o (IF type = REQUEST
                 THEN <<Option(REQUESTED_IP_ADDR, ip), Option(SERVER_IDENTIFIER, server)>>
                 ELSE <<>>)
             \o <<Option(PARAM_REQUEST, <<1, 3, 6, 15, 58, 59>>)>>)
  BY OptionsWritten
<1> QED
  BY <1>2, <1>3, Zenon DEF WritesPacket

\* Every packet the client writes, whatever its transaction, its addresses, the
\* seconds that it counts and its host name, is a header with each field in its
\* place and then whole options.
THEOREM PacketsWritten ==
  ASSUME NEW type \in {DISCOVER, REQUEST}, NEW hostname \in Seq(Octets),
         NEW xid \in Seq(Octets), Len(xid) = 4, NEW secs \in Seq(Octets), Len(secs) = 2,
         NEW mac \in Seq(Octets), Len(mac) = 6, NEW ip \in Seq(Octets), Len(ip) = 4,
         NEW server \in Seq(Octets), Len(server) = 4
  PROVE  WritesPacket(type, hostname, xid, secs, mac, ip, server)
<1>1. Fields(type, hostname, mac, ip, server)
  BY DEF Fields, ByteStrings
<1>2. xid \in ByteStrings /\ secs \in ByteStrings
  BY DEF ByteStrings
<1> QED
  BY <1>1, <1>2, PacketWritten, Zenon

THEOREM SamplePacketsWritten == PacketIsLegal
<1> SUFFICES ASSUME NEW type \in {DISCOVER, REQUEST}, NEW length \in {0, 1, 12, 255, 256, 300}
             PROVE  WritesPacket(type, [i \in 1 .. length |-> 97], SampleIp, <<0, 7>>,
                                 SampleMac, SampleIp, <<9, 8, 7, 6>>)
  BY DEF PacketIsLegal
<1>1. [i \in 1 .. length |-> 97] \in Seq(Octets)
  BY DEF Octets
<1>2. /\ SampleIp \in Seq(Octets) /\ Len(SampleIp) = 4
      /\ SampleMac \in Seq(Octets) /\ Len(SampleMac) = 6
      /\ <<0, 7>> \in Seq(Octets) /\ Len(<<0, 7>>) = 2
      /\ <<9, 8, 7, 6>> \in Seq(Octets) /\ Len(<<9, 8, 7, 6>>) = 4
  BY DEF SampleIp, SampleMac, Octets
<1> DEFINE name == [i \in 1 .. length |-> 97]  secs == <<0, 7>>  server == <<9, 8, 7, 6>>
<1> HIDE DEF name, secs, server
<1>3. WritesPacket(type, name, SampleIp, secs, SampleMac, SampleIp, server)
  BY <1>1, <1>2, PacketsWritten DEF name, secs, server
<1> QED
  BY <1>3 DEF name, secs, server

-----------------------------------------------------------------------------
(* DhcpSystem.                                                             *)

USE DEF Addresses, Destinations, States

\* What is left of a received sequence keeps its type and gets shorter.
LEMMA TailFacts ==
  ASSUME NEW S, NEW s \in Seq(S), s # <<>>
  PROVE  /\ Head(s) \in S
         /\ Tail(s) \in Seq(S)
         /\ Len(s) \in Nat /\ Len(Tail(s)) = Len(s) - 1
         /\ \A i \in DOMAIN Tail(s) : i + 1 \in DOMAIN s /\ Tail(s)[i] = s[i + 1]
OBVIOUS

-----------------------------------------------------------------------------
(* The data a step computes has its type.                                  *)

\* A lease time in clock units (DHCP.cpp:151-152) is a deadline.
LEMMA ClockType == \A n \in Nat : Clock(n) \in Deadlines
<1>1. TAKE n \in Nat
<1>2. n * MsPerSec \in Nat
  BY TimingAssumption
<1>3. (n * MsPerSec) % U32 \in Nat
  BY <1>2, TimingAssumption
<1>. QED
  BY <1>3 DEF Clock, Deadlines

\* Restarting or loading one of the timers keeps all of them typed.
LEMMA TimersType ==
  ASSUME NEW t \in TimerValues
  PROVE  /\ [t EXCEPT !.discover = 0] \in TimerValues
         /\ [t EXCEPT !.request = 0] \in TimerValues
         /\ [t EXCEPT !.request = 0, !.first = 0] \in TimerValues
         /\ \A a, b \in Deadlines :
              [t EXCEPT !.renew = a, !.rebind = b] \in TimerValues
<1>1. /\ 0 \in 0 .. DiscoverInterval + 1
      /\ 0 \in 0 .. RequestRetry + 1
      /\ 0 \in 0 .. RequestTimeout + 1
  BY TimingAssumption
<1>. QED
  BY <1>1 DEF TimerValues

\* The defaults that an ACK falls back to (DHCP.cpp:139-149) make a lease.
LEMMA BoundType == \A l \in Leases : Bound(l) \in Leases
<1>1. TAKE l \in Leases
<1>2. DefaultLease \in Nat
  BY TimingAssumption
<1>3. \A n \in Nat : n \div 2 \in Nat /\ (n * 7) \div 8 \in Nat
  OBVIOUS
<1>. QED
  BY <1>2, <1>3 DEF Bound, Leases

\* Copying a reply's fields into the lease (DHCP.cpp:244-304) keeps it typed.
LEMMA ReplyLeaseType ==
  ASSUME TypeOK
  PROVE  /\ HasReply => Head(rx) \in Replies
         /\ ReplyLease \in Leases
<1>1. HasReply => Head(rx) \in Replies
  BY DEF TypeOK, HasReply
<1>2. CASE HasReply
  <2>1. Parsed(lease, Head(rx)) \in Leases
    BY <1>1, <1>2 DEF TypeOK, Parsed, Leases, Replies
  <2>. QED
    BY <1>1, <1>2, <2>1 DEF ReplyLease
<1>3. CASE ~HasReply
  BY <1>3 DEF TypeOK, ReplyLease, HasReply
<1>. QED
  BY <1>2, <1>3

\* Reading or flushing the RX buffer keeps it typed and within its bound.
LEMMA ConsumeReplyType ==
  ASSUME TypeOK, ConsumeReply
  PROVE  /\ rx' \in Seq(Replies) /\ Len(rx') <= RxCap
         /\ recv' \in BOOLEAN
<1>1. recv' \in BOOLEAN
  BY DEF ConsumeReply, TypeOK
<1>2. CASE HasReply
  <2>1. rx \in Seq(Replies) /\ rx # <<>> /\ rx' = Tail(rx) /\ Len(rx) <= RxCap
    BY <1>2 DEF ConsumeReply, TypeOK, HasReply
  <2>. QED
    BY <1>1, <2>1, TailFacts, SystemAssumption
<1>3. CASE ~HasReply
  <2>1. rx' = <<>>
    BY <1>3 DEF ConsumeReply
  <2>. QED
    BY <1>1, <2>1, SystemAssumption
<1>. QED
  BY <1>2, <1>3

\* Putting a message in flight keeps the messages in flight typed.
LEMMA SentWithType ==
  ASSUME NEW before \in SUBSET ClientMessages, NEW m \in ClientMessages,
         NEW after \in SentWith(before, m)
  PROVE  after \in SUBSET ClientMessages
BY DEF SentWith

\* What the client sends (DHCP.cpp:312) is a client message.
LEMMA MessageType ==
  ASSUME NEW x \in 0 .. XidMod - 1, NEW d \in Destinations, NEW l \in Leases
  PROVE  /\ DiscoverMessage(x, d) \in ClientMessages
         /\ RequestMessage(x, d, l) \in ClientMessages
BY DEF DiscoverMessage, RequestMessage, ClientMessages, Leases

\* Marking messages as sent by an earlier attempt keeps their type.
LEMMA OutdatedType ==
  /\ \A m \in ClientMessages : Outdated(m) \in ClientMessages
  /\ \A m \in Replies : Outdated(m) \in Replies
BY DEF Outdated, ClientMessages, Replies

(* Type correctness, action by action.                                     *)

\* The client starts with every variable typed.
LEMMA InitType == Init => TypeOK
<1>1. 0 \in 0 .. XidMod - 1
  BY XidAssumption
<1>2. [discover |-> DiscoverInterval + 1, request |-> RequestRetry + 1,
       first |-> RequestTimeout + 1, renew |-> -1, rebind |-> -1] \in TimerValues
  BY TimingAssumption DEF TimerValues, Deadlines
<1>3. Init => lease \in Leases
  BY DEF Init, ClientInit, Leases
<1>4. Init => xids \in [first : 0 .. XidMod - 1, last : 0 .. XidMod - 1]
  BY <1>1 DEF Init, ClientInit
<1>5. Init => rx \in Seq(Replies) /\ Len(rx) <= RxCap
  BY SystemAssumption DEF Init, ClientInit
<1>. QED
  BY <1>2, <1>3, <1>4, <1>5 DEF Init, ClientInit, TypeOK

\* The steps of State::START keep every variable typed.
LEMMA StartType ==
  ASSUME TypeOK, FsmStart \/ FsmStartFails, UNCHANGED granted
  PROVE  TypeOK'
<1>1. ResetLease \in Leases /\ ResetLease.ip \in Addresses
  BY DEF TypeOK, ResetLease, Leases
<1>2. CASE FsmStartFails
  BY <1>1, <1>2 DEF FsmStartFails, TypeOK
<1>3. CASE FsmStart
  <2>1. PICK x \in InitialXids :
          /\ xids' = [first |-> x, last |-> x]
          /\ fresh' = \A m \in InTransit : m.xid < x
          /\ uplink' \in SentWith({Outdated(m) : m \in uplink},
                                  DiscoverMessage(x, StartDest))
    BY <1>3 DEF FsmStart
  <2>2. x \in 0 .. XidMod - 1
    BY XidAssumption
  <2>3. StartDest \in Destinations
    BY DEF TypeOK, StartDest
  <2>4. {Outdated(m) : m \in uplink} \in SUBSET ClientMessages
    BY OutdatedType DEF TypeOK
  <2>5. DiscoverMessage(x, StartDest) \in ClientMessages
    BY <1>1, <2>2, <2>3, MessageType
  <2>6. uplink' \in SUBSET ClientMessages
    BY <2>1, <2>4, <2>5, SentWithType
  <2>7. downlink' \in SUBSET Replies
    BY <1>3, OutdatedType DEF FsmStart, TypeOK
  <2>8. rx' \in Seq(Replies) /\ Len(rx') <= RxCap
    <3>1. rx \in Seq(Replies) /\ Len(rx) <= RxCap
      BY DEF TypeOK
    <3>2. rx' = [i \in DOMAIN rx |-> Outdated(rx[i])]
      BY <1>3 DEF FsmStart
    <3>. QED
      BY <3>1, <3>2, OutdatedType
  <2>9. timers' \in TimerValues
    BY <1>3, TimersType DEF FsmStart, TypeOK
  <2>10. /\ state' = "DISCOVER" /\ pc' = pc /\ lease' = ResetLease
         /\ config' = ResetLease.ip /\ open' = TRUE /\ dest' = StartDest
         /\ recv' = recv /\ asked' = FALSE
    BY <1>3 DEF FsmStart
  <2>11. xids' \in [first : 0 .. XidMod - 1, last : 0 .. XidMod - 1]
    BY <2>1, <2>2
  <2>12. fresh' \in BOOLEAN
    BY <2>1
  <2>. QED
    BY <1>1, <2>3, <2>6, <2>7, <2>8, <2>9, <2>10, <2>11, <2>12 DEF TypeOK
<1>. QED
  BY <1>2, <1>3

\* The receiving half of a call of update() keeps what it changes typed.
LEMMA ReceiveType ==
  ASSUME TypeOK, NEW useful,
         NoUsefulReply(useful) \/ UsefulReply(useful)
  PROVE  /\ lease' \in Leases /\ pc' \in {"idle", "parse"}
         /\ rx' \in Seq(Replies) /\ Len(rx') <= RxCap
         /\ recv' \in BOOLEAN
<1>1. CASE pc = "idle" /\ ~recv /\ UNCHANGED <<pc, lease, rx, recv>>
  BY <1>1 DEF TypeOK
<1>2. CASE pc' = "idle" /\ lease' = ReplyLease /\ ConsumeReply
  BY <1>2, ReplyLeaseType, ConsumeReplyType
<1>. QED
  BY <1>1, <1>2 DEF NoUsefulReply, UsefulReply

\* _xid++ stays within its 32 bits.
LEMMA NextXidsType ==
  TypeOK => /\ NextXids \in [first : 0 .. XidMod - 1, last : 0 .. XidMod - 1]
            /\ NextXids.last \in 0 .. XidMod - 1
<1>1. SUFFICES ASSUME TypeOK
               PROVE  (xids.last + 1) % XidMod \in 0 .. XidMod - 1
  BY DEF NextXids, TypeOK
<1>. QED
  BY <1>1, XidAssumption DEF TypeOK

\* The steps of State::DISCOVER keep every variable typed.
LEMMA DiscoverType ==
  ASSUME TypeOK, FsmDiscoverOffer \/ FsmDiscoverWait, UNCHANGED granted
  PROVE  TypeOK'
<1>1. CASE FsmDiscoverOffer
  <2>1. UsefulReply("OFFER")
    BY <1>1 DEF FsmDiscoverOffer
  <2>2. /\ lease' \in Leases /\ pc' \in {"idle", "parse"}
        /\ rx' \in Seq(Replies) /\ Len(rx') <= RxCap
        /\ recv' \in BOOLEAN
    BY <2>1, ReceiveType
  <2>3. dest' \in Destinations
    BY <1>1, ReplyLeaseType DEF FsmDiscoverOffer, Leases
  <2>4. uplink' \in SUBSET ClientMessages
    <3>1. RequestMessage(xids.last, dest', ReplyLease) \in ClientMessages
      BY <2>3, ReplyLeaseType, MessageType DEF TypeOK
    <3>. QED
      BY <1>1, <3>1, SentWithType DEF FsmDiscoverOffer, TypeOK
  <2>5. timers' \in TimerValues
    BY <1>1, TimersType DEF FsmDiscoverOffer, TypeOK
  <2>. QED
    BY <1>1, <2>2, <2>3, <2>4, <2>5 DEF FsmDiscoverOffer, TypeOK
<1>2. CASE FsmDiscoverWait
  <2>1. NoUsefulReply({"OFFER"})
    BY <1>2 DEF FsmDiscoverWait
  <2>2. /\ lease' \in Leases /\ pc' \in {"idle", "parse"}
        /\ rx' \in Seq(Replies) /\ Len(rx') <= RxCap
        /\ recv' \in BOOLEAN
    BY <2>1, ReceiveType
  <2>3. /\ xids' \in [first : 0 .. XidMod - 1, last : 0 .. XidMod - 1]
        /\ uplink' \in SUBSET ClientMessages
        /\ timers' \in TimerValues
    <3>1. CASE DiscoverDue
      <4>1. DiscoverMessage(NextXids.last, dest) \in ClientMessages
        BY NextXidsType DEF TypeOK, DiscoverMessage, ClientMessages
      <4>. QED
        BY <1>2, <3>1, <4>1, NextXidsType, SentWithType, TimersType
        DEF FsmDiscoverWait, TypeOK
    <3>2. CASE ~DiscoverDue
      BY <1>2, <3>2 DEF FsmDiscoverWait, TypeOK
    <3>. QED
      BY <3>1, <3>2
  <2>. QED
    BY <1>2, <2>2, <2>3 DEF FsmDiscoverWait, TypeOK, histVars
<1>. QED
  BY <1>1, <1>2

\* The steps of State::REQUEST and State::RENEW keep every variable typed.
LEMMA RequestType ==
  ASSUME TypeOK, FsmRequestAck \/ FsmRequestNak \/ FsmRequestWait,
         UNCHANGED granted
  PROVE  TypeOK'
<1>1. CASE FsmRequestAck
  <2>1. lease' \in Leases
    BY <1>1, ReplyLeaseType, BoundType DEF FsmRequestAck
  <2>2. rx' \in Seq(Replies) /\ Len(rx') <= RxCap /\ recv' \in BOOLEAN
    BY <1>1, ConsumeReplyType DEF FsmRequestAck
  <2>3. timers' \in TimerValues
    BY <1>1, <2>1, ClockType, TimersType DEF FsmRequestAck, TypeOK, Leases
  <2>4. config' \in Addresses
    BY <1>1, <2>1 DEF FsmRequestAck, Leases
  <2>. QED
    BY <1>1, <2>1, <2>2, <2>3, <2>4 DEF FsmRequestAck, TypeOK, netVars
<1>2. CASE FsmRequestNak
  <2>1. UsefulReply("NAK")
    BY <1>2 DEF FsmRequestNak
  <2>2. /\ lease' \in Leases /\ pc' \in {"idle", "parse"}
        /\ rx' \in Seq(Replies) /\ Len(rx') <= RxCap
        /\ recv' \in BOOLEAN
    BY <2>1, ReceiveType
  <2>. QED
    BY <1>2, <2>2 DEF FsmRequestNak, TypeOK, netVars, histVars
<1>3. CASE FsmRequestWait
  <2>1. NoUsefulReply({"ACK", "NAK"})
    BY <1>3 DEF FsmRequestWait
  <2>2. /\ lease' \in Leases /\ pc' \in {"idle", "parse"}
        /\ rx' \in Seq(Replies) /\ Len(rx') <= RxCap
        /\ recv' \in BOOLEAN
    BY <2>1, ReceiveType
  <2>3. /\ uplink' \in SUBSET ClientMessages
        /\ timers' \in TimerValues
        /\ asked' \in BOOLEAN
    <3>1. CASE RequestDue
      <4>1. RequestMessage(xids.last, dest, lease') \in ClientMessages
        BY <2>2, MessageType DEF TypeOK
      <4>. QED
        BY <1>3, <3>1, <4>1, SentWithType, TimersType DEF FsmRequestWait, TypeOK
    <3>2. CASE ~RequestDue
      BY <1>3, <3>2 DEF FsmRequestWait, TypeOK
    <3>. QED
      BY <3>1, <3>2
  <2>4. state' \in States
    BY <1>3 DEF FsmRequestWait, TypeOK
  <2>. QED
    BY <1>3, <2>2, <2>3, <2>4 DEF FsmRequestWait, TypeOK
<1>. QED
  BY <1>1, <1>2, <1>3

\* A call of update() keeps every variable typed.
LEMMA UpdateType ==
  ASSUME TypeOK, Update, UNCHANGED granted
  PROVE  TypeOK'
<1>1. CASE TakeRecvFlag
  BY <1>1 DEF TakeRecvFlag, TypeOK, netVars, histVars
<1>2. CASE FsmLeasedRebind \/ FsmLeasedRenew
  BY <1>2 DEF FsmLeasedRebind, FsmLeasedRenew, TypeOK, chipVars, netVars, histVars
<1>. QED
  BY <1>1, <1>2, StartType, DiscoverType, RequestType DEF Update

\* What a server answers is a reply.
LEMMA ServerReplyType ==
  ASSUME NEW s \in Servers, NEW m \in ClientMessages, NEW l \in LeaseTimes,
         NEW type \in {"OFFER", "ACK", "NAK"}
  PROVE  Reply(type, s, m, l) \in Replies
<1>1. l \in Nat
  BY SystemAssumption
<1>2. m.xid \in 0 .. XidMod - 1 /\ m.cur \in BOOLEAN
  BY DEF ClientMessages
<1>. QED
  BY <1>1, <1>2 DEF Reply, Replies

\* A datagram that arrives leaves the RX buffer typed.
LEMMA ReceiveKeepsType ==
  ASSUME TypeOK, NEW m \in Replies, Receive(m)
  PROVE  rx' \in Seq(Replies) /\ Len(rx') <= RxCap /\ recv' \in BOOLEAN
<1>1. rx \in Seq(Replies) /\ Len(rx) <= RxCap /\ recv \in BOOLEAN
  BY DEF TypeOK
<1>2. CASE open /\ Len(rx) < RxCap
  BY <1>1, <1>2, SystemAssumption DEF Receive
<1>3. CASE ~(open /\ Len(rx) < RxCap)
  BY <1>1, <1>3 DEF Receive
<1>. QED
  BY <1>2, <1>3

\* Servers, network and clock keep every variable typed.
LEMMA EnvironmentType ==
  ASSUME TypeOK,
         \/ \E s \in Servers : ServerOffer(s) \/ ServerAck(s) \/ ServerNak(s)
         \/ Deliver \/ DeliverForeign \/ Lose \/ Tick
  PROVE  TypeOK'
<1>1. ASSUME NEW s \in Servers,
             ServerOffer(s) \/ ServerAck(s) \/ ServerNak(s)
      PROVE  TypeOK'
  <2>1. PICK request \in {"DISCOVER", "REQUEST"},
             type \in {"OFFER", "ACK", "NAK"} :
          ServerAnswers(s, request, type)
    BY <1>1 DEF ServerOffer, ServerAck, ServerNak
  <2>2. PICK m \in uplink, l \in LeaseTimes :
          /\ downlink' = downlink \cup {Reply(type, s, m, l)}
          /\ UNCHANGED <<clientVars, chipVars, uplink, histVars>>
    BY <2>1 DEF ServerAnswers
  <2>3. downlink' \in SUBSET Replies
    BY <2>2, ServerReplyType DEF TypeOK
  <2>4. granted' \in SUBSET Servers
    BY <1>1 DEF ServerOffer, ServerAck, ServerNak, TypeOK
  <2>. QED
    BY <2>2, <2>3, <2>4 DEF TypeOK, clientVars, chipVars, histVars
<1>2. CASE Deliver
  <2>1. PICK m \in downlink : downlink' = downlink \ {m} /\ Receive(m)
    BY <1>2 DEF Deliver
  <2>2. m \in Replies
    BY DEF TypeOK
  <2>3. rx' \in Seq(Replies) /\ Len(rx') <= RxCap /\ recv' \in BOOLEAN
    BY <2>1, <2>2, ReceiveKeepsType
  <2>. QED
    BY <1>2, <2>1, <2>3 DEF Deliver, TypeOK, clientVars, histVars
<1>3. CASE DeliverForeign
  <2>1. PICK s \in Servers : Receive(ForeignReply(s))
    BY <1>3 DEF DeliverForeign
  <2>2. ForeignReply(s) \in Replies
    BY XidAssumption DEF ForeignReply, Replies
  <2>3. rx' \in Seq(Replies) /\ Len(rx') <= RxCap /\ recv' \in BOOLEAN
    BY <2>1, <2>2, ReceiveKeepsType
  <2>. QED
    BY <1>3, <2>3 DEF DeliverForeign, TypeOK, clientVars, netVars, histVars
<1>4. CASE Lose
  BY <1>4 DEF Lose, TypeOK, clientVars, chipVars, histVars
<1>5. CASE Tick
  <2>1. /\ \A i \in Nat : \A a \in 0 .. i + 1 : Older(a, i) \in 0 .. i + 1
        /\ \A d \in Deadlines : Nearer(d) \in Deadlines
    BY DEF Older, Nearer, Deadlines
  <2>2. timers' \in TimerValues
    BY <1>5, <2>1, TimingAssumption DEF Tick, TypeOK, TimerValues
  <2>. QED
    BY <1>5, <2>2 DEF Tick, TypeOK, chipVars, netVars, histVars
<1>. QED
  BY <1>1, <1>2, <1>3, <1>4, <1>5

\* The variables of the client and the chip hold what their C++ types and the
\* RX buffer allow, in every execution.
THEOREM TypeCorrect == Spec => []TypeOK
<1>1. Init => TypeOK
  BY InitType
<1>2. TypeOK /\ [Next]_vars => TypeOK'
  <2>1. CASE UNCHANGED vars
    BY <2>1 DEF TypeOK, vars, clientVars, chipVars, netVars, histVars
  <2>2. CASE Next
    BY <2>2, UpdateType, EnvironmentType DEF Next, ClientStep
  <2>. QED
    BY <2>1, <2>2
<1>. QED
  BY <1>1, <1>2, PTL DEF Spec

-----------------------------------------------------------------------------
(* Where addresses come from.                                              *)

Pending == downlink \cup {rx[i] : i \in DOMAIN rx}

\* A reply to this client names the server's own address, and an ACK has been
\* recorded as granted.
RepliesBacked ==
  \A m \in Pending : m.ours =>
    /\ m.type # "NAK" => m.yiaddr = m.server
    /\ m.type = "ACK" => m.yiaddr \in granted

LeaseNamed ==
  state \in {"REQUEST", "LEASED", "RENEW"} =>
    lease.ip = lease.server /\ lease.ip # None

\* The inductive invariant: none of its parts is inductive without the others.
\* What the chip is given comes out of the lease, the lease out of the head of
\* the RX buffer, and that out of a server's answer to a request that named
\* an address of that server.
Provenance ==
  /\ RepliesBacked
  /\ LeaseNamed
  /\ AddressGranted
  /\ AddressMatchesPhase
  /\ RequestsWhatWasOffered

\* The datagram that is read next is one of those on their way.
LEMMA HeadIsPending ==
  ASSUME TypeOK, HasReply
  PROVE  /\ Head(rx) \in Pending /\ Head(rx) \in Replies /\ Head(rx).ours
         /\ rx # <<>>
<1>1. rx \in Seq(Replies) /\ rx # <<>> /\ Accepted(Head(rx))
  BY DEF TypeOK, HasReply
<1>2. 1 \in DOMAIN rx /\ Head(rx) = rx[1] /\ Head(rx) \in Replies
  BY <1>1
<1>. QED
  BY <1>1, <1>2 DEF Accepted, Pending

\* Reading or flushing the RX buffer puts no reply on its way.
LEMMA ConsumeShrinksPending ==
  ASSUME TypeOK, ConsumeReply, downlink' = downlink
  PROVE  Pending' \subseteq Pending
<1>1. rx \in Seq(Replies)
  BY DEF TypeOK
<1>2. CASE HasReply
  <2>1. rx # <<>> /\ rx' = Tail(rx)
    BY <1>2 DEF HasReply, ConsumeReply
  <2>2. \A i \in DOMAIN rx' : i + 1 \in DOMAIN rx /\ rx'[i] = rx[i + 1]
    BY <1>1, <2>1, TailFacts
  <2>. QED
    BY <2>2 DEF Pending
<1>3. CASE ~HasReply
  <2>1. rx' = <<>>
    BY <1>3 DEF ConsumeReply
  <2>. QED
    BY <2>1 DEF Pending
<1>. QED
  BY <1>2, <1>3

\* What the client makes of a reply that is not a NAK.
LEMMA ReplyNamed ==
  ASSUME TypeOK, RepliesBacked, HasReply, Head(rx).type # "NAK"
  PROVE  /\ ReplyLease.ip = ReplyLease.server /\ ReplyLease.ip # None
         /\ Head(rx).type = "ACK" => ReplyLease.ip \in granted
<1>1. Head(rx) \in Pending /\ Head(rx) \in Replies /\ Head(rx).ours
  BY HeadIsPending
<1>2. /\ Head(rx).yiaddr = Head(rx).server /\ Head(rx).server \in Servers
      /\ Head(rx).type = "ACK" => Head(rx).yiaddr \in granted
  BY <1>1 DEF RepliesBacked, Replies
<1>3. ReplyLease = Parsed(lease, Head(rx)) /\ lease \in Leases
  BY DEF ReplyLease, TypeOK
<1>4. /\ ReplyLease.ip = Head(rx).yiaddr
      /\ ReplyLease.server = Head(rx).server
  BY <1>3 DEF Parsed, Leases
<1>. QED
  BY <1>2, <1>4, ServersAssumption

\* A message in flight is the one just sent or was in flight before.
LEMMA SentWithMember ==
  ASSUME NEW before, NEW m, NEW after \in SentWith(before, m)
  PROVE  after \subseteq before \cup {m}
BY DEF SentWith

\* A request (DHCP.cpp:312) names what the lease record names.
LEMMA RequestNamed ==
  ASSUME NEW x, NEW d, NEW l, l.ip = l.server, l.ip # None,
         RequestsWhatWasOffered, uplink' \in SentWith(uplink, RequestMessage(x, d, l))
  PROVE  RequestsWhatWasOffered'
<1>1. \A m \in uplink' : m \in uplink \/ m = RequestMessage(x, d, l)
  BY SentWithMember
<1>. QED
  BY <1>1 DEF RequestsWhatWasOffered, RequestMessage

\* Receiving leaves the replies that are still pending as they were.
LEMMA ReceiveKeepsBacked ==
  ASSUME TypeOK, RepliesBacked, granted' = granted, downlink' = downlink,
         ConsumeReply \/ rx' = rx
  PROVE  RepliesBacked'
<1>1. Pending' \subseteq Pending
  BY ConsumeShrinksPending DEF Pending
<1>. QED
  BY <1>1 DEF RepliesBacked

\* The steps of State::START keep track of where addresses come from.
LEMMA StartProvenance ==
  ASSUME TypeOK, Provenance, FsmStart \/ FsmStartFails, UNCHANGED granted
  PROVE  Provenance'
<1>1. ResetLease.ip = None
  BY DEF TypeOK, Leases, ResetLease
<1>2. CASE FsmStartFails
  <2>1. Pending' = Pending
    BY <1>2 DEF FsmStartFails, Pending
  <2>. QED
    BY <1>1, <1>2, <2>1 DEF FsmStartFails, Provenance, RepliesBacked, LeaseNamed,
       AddressGranted, AddressMatchesPhase, RequestsWhatWasOffered
<1>3. CASE FsmStart
  <2>1. /\ \A m \in Pending' : \E n \in Pending : m = Outdated(n)
        /\ Pending \subseteq Replies
    BY <1>3 DEF FsmStart, Pending, TypeOK
  <2>2. \A n \in Replies : /\ Outdated(n).type = n.type
                           /\ Outdated(n).ours = n.ours
                           /\ Outdated(n).yiaddr = n.yiaddr
                           /\ Outdated(n).server = n.server
    BY DEF Outdated, Replies
  <2>3. RepliesBacked'
    BY <2>1, <2>2 DEF Provenance, RepliesBacked
  <2>4. RequestsWhatWasOffered'
    <3>1. PICK x \in InitialXids :
            uplink' \in SentWith({Outdated(m) : m \in uplink},
                                 DiscoverMessage(x, StartDest))
      BY <1>3 DEF FsmStart
    <3>2. \A m \in uplink' : \/ \E n \in uplink : m = Outdated(n)
                             \/ m = DiscoverMessage(x, StartDest)
      BY <3>1, SentWithMember
    <3>3. \A n \in ClientMessages : /\ Outdated(n).type = n.type
                                    /\ Outdated(n).ip = n.ip
                                    /\ Outdated(n).server = n.server
      BY DEF Outdated, ClientMessages
    <3>. QED
      BY <3>2, <3>3 DEF RequestsWhatWasOffered, Provenance, TypeOK, DiscoverMessage
  <2>. QED
    BY <1>1, <1>3, <2>3, <2>4
    DEF FsmStart, Provenance, LeaseNamed, AddressGranted, AddressMatchesPhase
<1>. QED
  BY <1>2, <1>3

\* So do the steps of State::DISCOVER.
LEMMA DiscoverProvenance ==
  ASSUME TypeOK, Provenance, FsmDiscoverOffer \/ FsmDiscoverWait,
         UNCHANGED granted
  PROVE  Provenance'
<1>1. CASE FsmDiscoverOffer
  <2>1. HasReply /\ Head(rx).type = "OFFER"
    BY <1>1 DEF FsmDiscoverOffer, UsefulReply, ReplyType
  <2>2. ReplyLease.ip = ReplyLease.server /\ ReplyLease.ip # None
    BY <2>1, ReplyNamed DEF Provenance
  <2>3. RequestsWhatWasOffered'
    BY <1>1, <2>2, RequestNamed DEF FsmDiscoverOffer, Provenance
  <2>4. RepliesBacked'
    BY <1>1, ReceiveKeepsBacked DEF FsmDiscoverOffer, UsefulReply, Provenance
  <2>. QED
    BY <1>1, <2>2, <2>3, <2>4 DEF FsmDiscoverOffer, UsefulReply, Provenance,
       LeaseNamed, AddressGranted, AddressMatchesPhase
<1>2. CASE FsmDiscoverWait
  <2>1. RequestsWhatWasOffered'
    <3>1. \A m \in uplink' : \/ m \in uplink
                             \/ m = DiscoverMessage(NextXids.last, dest)
      BY <1>2, SentWithMember DEF FsmDiscoverWait
    <3>. QED
      BY <3>1 DEF RequestsWhatWasOffered, Provenance, DiscoverMessage
  <2>2. RepliesBacked'
    BY <1>2, ReceiveKeepsBacked DEF FsmDiscoverWait, NoUsefulReply, Provenance
  <2>. QED
    BY <1>2, <2>1, <2>2 DEF FsmDiscoverWait, Provenance, LeaseNamed,
       AddressGranted, AddressMatchesPhase
<1>. QED
  BY <1>1, <1>2

\* So do the steps of State::REQUEST and State::RENEW.
LEMMA RequestProvenance ==
  ASSUME TypeOK, Provenance, FsmRequestAck \/ FsmRequestNak \/ FsmRequestWait,
         UNCHANGED granted
  PROVE  Provenance'
<1>1. CASE FsmRequestAck
  <2>1. HasReply /\ Head(rx).type = "ACK"
    BY <1>1 DEF FsmRequestAck, ReplyType
  <2>2. /\ ReplyLease.ip = ReplyLease.server /\ ReplyLease.ip # None
        /\ ReplyLease.ip \in granted
    BY <2>1, ReplyNamed DEF Provenance
  <2>3. lease'.ip = ReplyLease.ip /\ lease'.server = ReplyLease.server
    BY <1>1, ReplyLeaseType DEF FsmRequestAck, Bound, Leases
  <2>4. RepliesBacked'
    BY <1>1, ReceiveKeepsBacked DEF FsmRequestAck, netVars, Provenance
  <2>. QED
    BY <1>1, <2>2, <2>3, <2>4 DEF FsmRequestAck, netVars, Provenance, LeaseNamed,
       AddressGranted, AddressMatchesPhase, RequestsWhatWasOffered
<1>2. CASE FsmRequestNak
  <2>1. RepliesBacked'
    BY <1>2, ReceiveKeepsBacked DEF FsmRequestNak, UsefulReply, netVars, Provenance
  <2>. QED
    BY <1>2, <2>1 DEF FsmRequestNak, netVars, Provenance, LeaseNamed,
       AddressGranted, AddressMatchesPhase, RequestsWhatWasOffered
<1>3. CASE FsmRequestWait
  <2>1. lease'.ip = lease'.server /\ lease'.ip # None
    <3>1. CASE lease' = lease
      BY <1>3, <3>1 DEF FsmRequestWait, Provenance, LeaseNamed
    <3>2. CASE lease' = ReplyLease /\ HasReply /\ Head(rx).type # "NAK"
      BY <3>2, ReplyNamed DEF Provenance
    <3>3. CASE lease' = ReplyLease /\ ~HasReply
      BY <3>1, <3>3 DEF ReplyLease
    <3>. QED
      BY <1>3, <3>1, <3>2, <3>3 DEF FsmRequestWait, NoUsefulReply, ReplyType
  <2>2. RequestsWhatWasOffered'
    <3>1. CASE RequestDue
      BY <1>3, <2>1, <3>1, RequestNamed DEF FsmRequestWait, Provenance
    <3>2. CASE ~RequestDue
      BY <1>3, <3>2 DEF FsmRequestWait, Provenance, RequestsWhatWasOffered
    <3>. QED
      BY <3>1, <3>2
  <2>3. RepliesBacked'
    BY <1>3, ReceiveKeepsBacked DEF FsmRequestWait, NoUsefulReply, Provenance
  <2>. QED
    BY <1>3, <2>1, <2>2, <2>3 DEF FsmRequestWait, Provenance, LeaseNamed,
       AddressGranted, AddressMatchesPhase
<1>. QED
  BY <1>1, <1>2, <1>3

\* So does a call of update().
LEMMA UpdateProvenance ==
  ASSUME TypeOK, Provenance, Update, UNCHANGED granted
  PROVE  Provenance'
<1>1. CASE TakeRecvFlag \/ FsmLeasedRebind \/ FsmLeasedRenew
  <2>1. Pending' = Pending
    BY <1>1 DEF TakeRecvFlag, FsmLeasedRebind, FsmLeasedRenew, chipVars, netVars,
       Pending
  <2>. QED
    BY <1>1, <2>1 DEF TakeRecvFlag, FsmLeasedRebind, FsmLeasedRenew, chipVars,
       netVars, Provenance, RepliesBacked, LeaseNamed, AddressGranted,
       AddressMatchesPhase, RequestsWhatWasOffered
<1>. QED
  BY <1>1, StartProvenance, DiscoverProvenance, RequestProvenance DEF Update

\* Steps of the environment leave the client alone and take nothing back.
LEMMA EnvironmentProvenance ==
  ASSUME TypeOK, Provenance,
         \/ \E s \in Servers : ServerOffer(s) \/ ServerAck(s) \/ ServerNak(s)
         \/ Deliver \/ DeliverForeign \/ Lose \/ Tick
  PROVE  Provenance'
<1>1. ASSUME NEW s \in Servers,
             ServerOffer(s) \/ ServerAck(s) \/ ServerNak(s)
      PROVE  Provenance'
  <2>1. PICK request \in {"DISCOVER", "REQUEST"},
             type \in {"OFFER", "ACK", "NAK"} :
          /\ ServerAnswers(s, request, type)
          /\ type = "ACK" => granted' = granted \cup {s}
          /\ granted \subseteq granted'
    BY <1>1 DEF ServerOffer, ServerAck, ServerNak
  <2>2. PICK m \in uplink, l \in LeaseTimes :
          /\ downlink' = downlink \cup {Reply(type, s, m, l)}
          /\ UNCHANGED <<clientVars, chipVars, uplink, histVars>>
    BY <2>1 DEF ServerAnswers
  <2>3. \A n \in Pending' : n \in Pending \/ n = Reply(type, s, m, l)
    BY <2>2 DEF Pending, chipVars
  <2>4. RepliesBacked'
    BY <2>1, <2>3 DEF Provenance, RepliesBacked, Reply
  <2>. QED
    BY <2>1, <2>2, <2>4 DEF clientVars, chipVars, Provenance, LeaseNamed,
       AddressGranted, AddressMatchesPhase, RequestsWhatWasOffered
<1>2. ASSUME NEW m, Receive(m), m \in downlink \/ ~m.ours,
             downlink' \subseteq downlink,
             UNCHANGED <<clientVars, open, dest, config, uplink, histVars, granted>>
      PROVE  Provenance'
  <2>1. \A n \in Pending' : n \in Pending \/ n = m
    BY <1>2 DEF Receive, Pending, TypeOK
  <2>2. RepliesBacked'
    BY <1>2, <2>1 DEF Provenance, RepliesBacked, Pending
  <2>. QED
    BY <1>2, <2>2 DEF clientVars, Provenance, LeaseNamed,
       AddressGranted, AddressMatchesPhase, RequestsWhatWasOffered
<1>3. CASE Deliver
  BY <1>2, <1>3 DEF Deliver
<1>4. CASE DeliverForeign
  <2>1. PICK s \in Servers : Receive(ForeignReply(s)) /\ ~ForeignReply(s).ours
    BY <1>4 DEF DeliverForeign, ForeignReply
  <2>. QED
    BY <1>2, <1>4, <2>1 DEF DeliverForeign, netVars
<1>5. CASE Lose \/ Tick
  <2>1. /\ Pending' \subseteq Pending /\ uplink' \subseteq uplink
        /\ UNCHANGED <<state, lease, config, granted>>
    BY <1>5 DEF Lose, Tick, Pending, clientVars, chipVars, netVars
  <2>. QED
    BY <2>1 DEF Provenance, RepliesBacked, LeaseNamed,
       AddressGranted, AddressMatchesPhase, RequestsWhatWasOffered
<1>. QED
  BY <1>1, <1>3, <1>4, <1>5

\* Every address, in the chip, in the lease or in a message, can be traced to the
\* server that offered or acknowledged it.
LEMMA ProvenanceInvariant == Spec => [](TypeOK /\ Provenance)
<1>1. Init => TypeOK
  BY InitType
<1>2. Init => Provenance
  BY DEF Init, ClientInit, Provenance, RepliesBacked, Pending, LeaseNamed,
     AddressGranted, AddressMatchesPhase, RequestsWhatWasOffered
<1>3. TypeOK /\ Provenance /\ [Next]_vars => Provenance'
  <2>1. CASE UNCHANGED vars
    BY <2>1 DEF vars, clientVars, chipVars, netVars, Provenance, RepliesBacked,
       Pending, LeaseNamed, AddressGranted, AddressMatchesPhase,
       RequestsWhatWasOffered
  <2>2. CASE Next
    BY <2>2, UpdateProvenance, EnvironmentProvenance DEF Next, ClientStep
  <2>. QED
    BY <2>1, <2>2
<1>. QED
  BY <1>1, <1>2, <1>3, TypeCorrect, PTL DEF Spec

\* Whatever arrives and however late, the chip only ever uses an address that
\* a server has acknowledged to this client.
THEOREM OnlyGrantedAddresses == Spec => []AddressGranted
<1>1. Provenance => AddressGranted
  BY DEF Provenance
<1>. QED
  BY <1>1, ProvenanceInvariant, PTL

\* The chip has an address while the client is in LEASED or RENEW and none
\* while it is asking for one.
THEOREM AddressFollowsPhase == Spec => []AddressMatchesPhase
<1>1. Provenance => AddressMatchesPhase
  BY DEF Provenance
<1>. QED
  BY <1>1, ProvenanceInvariant, PTL

\* Every DHCPREQUEST names an address together with the server it came from.
THEOREM OnlyOffersRequested == Spec => []RequestsWhatWasOffered
<1>1. Provenance => RequestsWhatWasOffered
  BY DEF Provenance
<1>. QED
  BY <1>1, ProvenanceInvariant, PTL

-----------------------------------------------------------------------------
(* Late replies.                                                           *)

\* Once an attempt has started with a transaction id above every id in
\* transit, what is left of earlier attempts stays below the window.
LateOutside ==
  fresh => /\ \A m \in uplink  : ~m.cur => m.xid < xids.first
           /\ \A m \in Pending : m.ours /\ ~m.cur => m.xid < xids.first

\* A fresh random id leaves all earlier messages below the new window.
LEMMA StartLateOutside ==
  ASSUME TypeOK, FsmStart
  PROVE  LateOutside'
<1>1. SUFFICES ASSUME fresh'
               PROVE  /\ \A m \in uplink'  : ~m.cur => m.xid < xids'.first
                      /\ \A m \in Pending' : m.ours /\ ~m.cur => m.xid < xids'.first
  BY DEF LateOutside
<1>2. PICK x \in InitialXids :
        /\ xids' = [first |-> x, last |-> x]
        /\ fresh' = \A m \in InTransit : m.xid < x
        /\ uplink' \in SentWith({Outdated(m) : m \in uplink},
                                DiscoverMessage(x, StartDest))
  BY DEF FsmStart
<1>3. InTransit = uplink \cup Pending
  BY DEF InTransit, Pending
<1>4. \A m \in uplink' : \/ \E n \in uplink : m = Outdated(n)
                         \/ m = DiscoverMessage(x, StartDest)
  BY <1>2, SentWithMember
<1>5. \A m \in Pending' : \E n \in Pending : m = Outdated(n)
  BY DEF FsmStart, Pending
<1>6. \A n \in ClientMessages \cup Replies : Outdated(n).xid = n.xid
  BY DEF Outdated, ClientMessages, Replies
<1>7. uplink \subseteq ClientMessages /\ Pending \subseteq Replies
  BY DEF TypeOK, Pending
<1>8. xids'.first = x /\ \A m \in uplink \cup Pending : m.xid < x
  BY <1>1, <1>2, <1>3
<1>9. \A m \in uplink' : ~m.cur => m.xid < x
  BY <1>4, <1>6, <1>7, <1>8 DEF DiscoverMessage
<1>10. \A m \in Pending' : m.xid < x
  BY <1>5, <1>6, <1>7, <1>8
<1>. QED
  BY <1>8, <1>9, <1>10

\* The window only moves up until the next attempt, so they stay below it.
LEMMA NextLateOutside ==
  ASSUME TypeOK, LateOutside, [Next]_vars
  PROVE  LateOutside'
<1>1. CASE FsmStart
  BY <1>1, StartLateOutside
<1>2. ASSUME fresh' = fresh, xids'.first = xids.first,
             \A m \in uplink'  : m \in uplink \/ m.cur,
             \A m \in Pending' : \/ m \in Pending
                                 \/ ~m.ours
                                 \/ \E n \in uplink : m.xid = n.xid /\ m.cur = n.cur
      PROVE  LateOutside'
  BY <1>2 DEF LateOutside
<1>3. CASE Update /\ ~FsmStart
  <2>1. fresh' = fresh /\ xids'.first = xids.first
    BY <1>3 DEF Update, FsmStartFails, TakeRecvFlag, FsmDiscoverOffer,
       FsmDiscoverWait, NextXids, FsmRequestAck, FsmRequestNak, FsmRequestWait,
       FsmLeasedRebind, FsmLeasedRenew, histVars, TypeOK
  <2>2. \A m \in uplink' : m \in uplink \/ m.cur
    <3>1. \A x, d, l : DiscoverMessage(x, d).cur /\ RequestMessage(x, d, l).cur
      BY DEF DiscoverMessage, RequestMessage
    <3>2. CASE uplink' = uplink
      BY <3>2
    <3>3. CASE FsmDiscoverOffer
      BY <3>1, <3>3, SentWithMember DEF FsmDiscoverOffer
    <3>4. CASE FsmDiscoverWait
      BY <3>1, <3>4, SentWithMember DEF FsmDiscoverWait
    <3>5. CASE FsmRequestWait
      BY <3>1, <3>5, SentWithMember DEF FsmRequestWait
    <3>. QED
      BY <1>3, <3>2, <3>3, <3>4, <3>5 DEF Update, FsmStartFails, TakeRecvFlag,
         FsmRequestAck, FsmRequestNak, FsmLeasedRebind, FsmLeasedRenew, netVars
  <2>3. Pending' \subseteq Pending
    <3>1. downlink' = downlink /\ (ConsumeReply \/ rx' = rx)
      BY <1>3 DEF Update, FsmStartFails, TakeRecvFlag, FsmDiscoverOffer,
         FsmDiscoverWait, FsmRequestAck, FsmRequestNak, FsmRequestWait,
         FsmLeasedRebind, FsmLeasedRenew, UsefulReply, NoUsefulReply,
         chipVars, netVars
    <3>. QED
      BY <3>1, ConsumeShrinksPending DEF Pending
  <2>. QED
    BY <1>2, <2>1, <2>2, <2>3
<1>4. ASSUME NEW s \in Servers, ServerOffer(s) \/ ServerAck(s) \/ ServerNak(s)
      PROVE  LateOutside'
  <2>1. PICK m \in uplink, l \in LeaseTimes, type \in {"OFFER", "ACK", "NAK"} :
          /\ downlink' = downlink \cup {Reply(type, s, m, l)}
          /\ UNCHANGED <<clientVars, chipVars, uplink, histVars>>
    BY <1>4 DEF ServerOffer, ServerAck, ServerNak, ServerAnswers
  <2>2. Reply(type, s, m, l).xid = m.xid /\ Reply(type, s, m, l).cur = m.cur
    BY DEF Reply
  <2>. QED
    BY <1>2, <2>1, <2>2 DEF clientVars, chipVars, histVars, Pending
<1>5. CASE Deliver
  <2>1. PICK m \in downlink : Receive(m) /\ downlink' \subseteq downlink
    BY <1>5 DEF Deliver
  <2>2. Pending' \subseteq Pending
    BY <2>1 DEF Receive, Pending, TypeOK
  <2>. QED
    BY <1>2, <1>5, <2>2 DEF Deliver, clientVars, histVars
<1>6. CASE DeliverForeign
  <2>1. PICK s \in Servers : Receive(ForeignReply(s)) /\ ~ForeignReply(s).ours
    BY <1>6 DEF DeliverForeign, ForeignReply
  <2>2. \A m \in Pending' : m \in Pending \/ ~m.ours
    BY <1>6, <2>1 DEF DeliverForeign, netVars, Receive, Pending, TypeOK
  <2>. QED
    BY <1>2, <1>6, <2>2 DEF DeliverForeign, clientVars, netVars, histVars
<1>7. CASE Lose \/ Tick
  BY <1>2, <1>7 DEF Lose, Tick, clientVars, chipVars, netVars, histVars, Pending
<1>8. CASE UNCHANGED vars
  BY <1>2, <1>8 DEF vars, clientVars, chipVars, netVars, histVars, Pending
<1>. QED
  BY <1>1, <1>3, <1>4, <1>5, <1>6, <1>7, <1>8 DEF Next, ClientStep

\* The transaction id window keeps answers to earlier attempts out of a lease.
THEOREM LateRepliesRejected == Spec => LeaseFromThisAttempt
<1>1. Init => LateOutside
  BY DEF Init, ClientInit, LateOutside, Pending
<1>2. TypeOK /\ LateOutside /\ [Next]_vars
        => [state' = "LEASED" /\ state # "LEASED" /\ fresh => Head(rx).cur]_vars
  <2>1. SUFFICES ASSUME TypeOK, LateOutside, Next,
                        state' = "LEASED", state # "LEASED", fresh
                 PROVE  Head(rx).cur
    OBVIOUS
  <2>2. FsmRequestAck
    BY <2>1 DEF Next, ClientStep, Update, FsmStartFails, FsmStart, TakeRecvFlag,
       FsmDiscoverOffer, FsmDiscoverWait, FsmRequestNak, FsmRequestWait,
       FsmLeasedRebind, FsmLeasedRenew, ServerOffer, ServerAck, ServerNak,
       ServerAnswers, Deliver, DeliverForeign, Lose, Tick, clientVars
  <2>3. HasReply
    BY <2>2 DEF FsmRequestAck, ReplyType
  <2>4. /\ Head(rx) \in Pending /\ Head(rx).ours /\ Head(rx) \in Replies
        /\ xids.first <= Head(rx).xid
    BY <2>1, <2>3, HeadIsPending DEF HasReply, Accepted
  <2>. QED
    BY <2>1, <2>4 DEF LateOutside, Replies, TypeOK
<1>. QED
  BY <1>1, <1>2, NextLateOutside, TypeCorrect, PTL DEF Spec, LeaseFromThisAttempt

-----------------------------------------------------------------------------
(* The receive buffer.                                                     *)

\* A cleared flag never hides a full RX buffer, so a later datagram always
\* finds room and raises the flag again.
THEOREM ClearedFlagLeavesRoom == Spec => []RoomBehindClearedFlag
<1>1. Init => RoomBehindClearedFlag
  BY DEF Init, ClientInit, RoomBehindClearedFlag
<1>2. TypeOK /\ RoomBehindClearedFlag /\ [Next]_vars => RoomBehindClearedFlag'
  <2>1. SUFFICES ASSUME TypeOK, RoomBehindClearedFlag, [Next]_vars, RxCap > 0,
                        pc' = "idle", ~recv'
                 PROVE  Len(rx') < RxCap
    BY DEF RoomBehindClearedFlag
  <2>2. ASSUME UNCHANGED <<pc, recv, rx>>
        PROVE  Len(rx') < RxCap
    BY <2>1, <2>2 DEF RoomBehindClearedFlag
  <2>3. ASSUME ConsumeReply
        PROVE  Len(rx') < RxCap
    <3>1. rx \in Seq(Replies) /\ Len(rx) <= RxCap /\ RxCap \in Nat
      BY <2>1, SystemAssumption DEF TypeOK
    <3>2. CASE HasReply
      <4>1. rx # <<>> /\ rx' = Tail(rx)
        BY <2>3, <3>2 DEF ConsumeReply, HasReply
      <4>. QED
        BY <3>1, <4>1, TailFacts
    <3>3. CASE ~HasReply
      BY <2>1, <2>3, <3>3 DEF ConsumeReply
    <3>. QED
      BY <3>2, <3>3
  <2>4. CASE Update
    <3>1. CASE FsmStart
      <4>1. rx \in Seq(Replies) /\ rx' = [i \in DOMAIN rx |-> Outdated(rx[i])]
        BY <2>1, <3>1 DEF FsmStart, TypeOK
      <4>2. Len(rx') = Len(rx)
        BY <4>1
      <4>. QED
        BY <2>1, <3>1, <4>2 DEF FsmStart, RoomBehindClearedFlag
    <3>2. CASE FsmDiscoverOffer \/ FsmDiscoverWait \/ FsmRequestAck
                \/ FsmRequestNak \/ FsmRequestWait
      BY <2>2, <2>3, <3>2 DEF FsmDiscoverOffer, FsmDiscoverWait, FsmRequestAck,
         FsmRequestNak, FsmRequestWait, UsefulReply, NoUsefulReply
    <3>. QED
      BY <2>1, <2>2, <2>4, <3>1, <3>2 DEF Update, FsmStartFails, TakeRecvFlag,
         FsmLeasedRebind, FsmLeasedRenew, chipVars
  <2>5. ASSUME NEW s \in Servers, ServerOffer(s) \/ ServerAck(s) \/ ServerNak(s)
        PROVE  Len(rx') < RxCap
    BY <2>2, <2>5 DEF ServerOffer, ServerAck, ServerNak, ServerAnswers,
       clientVars, chipVars
  <2>6. CASE Deliver \/ DeliverForeign
    BY <2>1, <2>2, <2>6 DEF Deliver, DeliverForeign, Receive, clientVars
  <2>7. CASE Lose \/ Tick \/ UNCHANGED vars
    BY <2>2, <2>7 DEF Lose, Tick, vars, clientVars, chipVars
  <2>. QED
    BY <2>1, <2>4, <2>5, <2>6, <2>7 DEF Next, ClientStep
<1>. QED
  BY <1>1, <1>2, TypeCorrect, PTL DEF Spec

-----------------------------------------------------------------------------
(* The promise.                                                            *)

\* The client, with any servers on any network, implements AddressLease: every
\* step of the system is one of the promise or leaves its variables alone.
THEOREM PromiseKept == Spec => KeepsPromise
<1> USE DEF Promise!leaseVars
<1>1. Init => Promise!Init
  BY DEF Init, ClientInit, Promise!Init, Phase
<1>2. TypeOK /\ Provenance /\ Provenance' /\ [Next]_vars
        => [Promise!Next]_<<Phase, config, granted>>
  <2>1. SUFFICES ASSUME TypeOK, Provenance, Provenance', Next
                 PROVE  Promise!Next \/ UNCHANGED <<Phase, config, granted>>
    BY DEF vars, clientVars, chipVars, Phase
  <2>2. CASE Update /\ UNCHANGED granted
    <3>1. CASE FsmStart \/ FsmStartFails
      <4>1. ResetLease.ip = None
        BY <2>1 DEF TypeOK, Leases, ResetLease
      <4>2. Promise!Begin
        BY <2>2, <3>1, <4>1 DEF FsmStart, FsmStartFails, Promise!Begin, Phase
      <4>. QED
        BY <4>2 DEF Promise!Next
    <3>2. CASE TakeRecvFlag \/ FsmDiscoverOffer \/ FsmDiscoverWait
      BY <2>2, <3>2 DEF TakeRecvFlag, FsmDiscoverOffer, FsmDiscoverWait, Phase
    <3>3. CASE FsmRequestAck
      <4>1. /\ Phase \in {"asking", "renewing"} /\ Phase' = "bound"
            /\ state' = "LEASED"
        BY <3>3 DEF FsmRequestAck, Phase
      <4>2. config' \in granted /\ config' \in Servers
        BY <2>1, <2>2, <4>1 DEF Provenance, AddressGranted, AddressMatchesPhase,
           TypeOK
      <4>3. Promise!Bind(config')
        BY <2>2, <4>1, <4>2 DEF Promise!Bind
      <4>. QED
        BY <4>2, <4>3 DEF Promise!Next
    <3>4. CASE FsmRequestNak \/ FsmRequestWait \/ FsmLeasedRebind
      <4>1. Promise!Abandon \/ UNCHANGED <<Phase, config, granted>>
        BY <2>2, <3>4 DEF FsmRequestNak, FsmRequestWait, FsmLeasedRebind, Phase,
           chipVars, Promise!Abandon
      <4>. QED
        BY <4>1 DEF Promise!Next
    <3>5. CASE FsmLeasedRenew
      <4>1. Promise!Renew
        BY <2>2, <3>5 DEF FsmLeasedRenew, Phase, chipVars, Promise!Renew
      <4>. QED
        BY <4>1 DEF Promise!Next
    <3>. QED
      BY <2>2, <3>1, <3>2, <3>3, <3>4, <3>5 DEF Update
  <2>3. ASSUME NEW s \in Servers, ServerOffer(s) \/ ServerAck(s) \/ ServerNak(s)
        PROVE  Promise!Next \/ UNCHANGED <<Phase, config, granted>>
    <3>1. Promise!Grant(s) \/ UNCHANGED <<Phase, config, granted>>
      BY <2>3 DEF ServerOffer, ServerAck, ServerNak, ServerAnswers, clientVars,
         chipVars, Phase, Promise!Grant
    <3>. QED
      BY <3>1 DEF Promise!Next
  <2>4. CASE Deliver \/ DeliverForeign \/ Lose \/ Tick
    BY <2>4 DEF Deliver, DeliverForeign, Lose, Tick, clientVars, chipVars, Phase
  <2>. QED
    BY <2>1, <2>2, <2>3, <2>4 DEF Next, ClientStep
<1>. QED
  BY <1>1, <1>2, ProvenanceInvariant, PTL DEF Spec, KeepsPromise, Promise!Spec


-----------------------------------------------------------------------------
(* The algorithms where the system uses them.                              *)

\* A reply's header is parsed exactly whenever one is about to be parsed.
THEOREM HeaderParsing == Spec => []HeadersAreParsed
<1>1. HeadersAreParsed
  BY SamplesParsed DEF HeadersAreParsed
<1> QED
  BY <1>1, PTL

\* Its options are read as they are laid out.
THEOREM ReplyReading == Spec => []RepliesAreRead
<1>1. RepliesAreRead
  BY SampleRepliesRead DEF RepliesAreRead
<1> QED
  BY <1>1, PTL

\* What has been sent is a DHCP message.
THEOREM PacketWriting == Spec => []PacketsAreLegal
<1>1. PacketsAreLegal
  BY SamplePacketsWritten DEF PacketsAreLegal
<1> QED
  BY <1>1, PTL

=============================================================================
