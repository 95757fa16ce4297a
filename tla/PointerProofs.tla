--------------------------- MODULE PointerProofs ---------------------------
(***************************************************************************)
(* What holds of pointers into a ring for every size of the ring and every *)
(* width of the pointers, whether they wrap between two places or not.     *)
(***************************************************************************)
EXTENDS RingPointers, NumberProofs

-----------------------------------------------------------------------------
(* Pointers and places.                                                    *)

LEMMA Sizes ==
  /\ RingSize \in Nat \ {0} /\ PtrMod \in Nat \ {0}
  /\ PtrMod > RingSize /\ PtrMod % RingSize = 0
  BY PointerAssumption

LEMMA PointerType ==
  /\ \A p \in Pointers : p \in Int /\ 0 <= p /\ p < PtrMod
  /\ \A n \in Int : n % PtrMod \in Pointers
  BY Sizes, ModType DEF Pointers

LEMMA DistanceType ==
  ASSUME NEW a \in Pointers, NEW b \in Pointers
  PROVE  Distance(a, b) \in Nat /\ Distance(a, b) < PtrMod
<1>1. b - a \in Int
  BY PointerType
<1>2. (b - a) % PtrMod \in 0 .. PtrMod - 1
  BY <1>1, Sizes, ModType
<1>3. \A n \in 0 .. PtrMod - 1 : n \in Nat /\ n < PtrMod
  BY Sizes
<1> QED
  BY <1>2, <1>3 DEF Distance

\* Two pointers differ by their distance and some rounds.
LEMMA DistanceIs ==
  ASSUME NEW a \in Pointers, NEW b \in Pointers
  PROVE  \E q \in Int : b = a + PtrMod * q + Distance(a, b)
<1>1. b - a \in Int /\ a \in Int /\ b \in Int
  BY PointerType
<1>2. /\ (b - a) \div PtrMod \in Int
      /\ b - a = PtrMod * ((b - a) \div PtrMod) + ((b - a) % PtrMod)
  BY <1>1, Sizes, DivMod
<1> DEFINE q == (b - a) \div PtrMod
<1>3. (b - a) % PtrMod \in Int /\ PtrMod * q \in Int
  BY <1>1, <1>2, Sizes, ModType
<1>4. b = a + PtrMod * q + ((b - a) % PtrMod)
  <2> HIDE DEF q
  <2> DEFINE x == PtrMod * q  y == (b - a) % PtrMod
  <2>1. b - a = x + y /\ x \in Int /\ y \in Int
    BY <1>2, <1>3 DEF q
  <2> HIDE DEF x, y
  <2>2. b = a + x + y
    BY <1>1, <2>1
  <2> QED
    BY <2>2 DEF x, y
<1> QED
  BY <1>2, <1>4 DEF Distance

\* And conversely.
LEMMA IsDistance ==
  ASSUME NEW a \in Pointers, NEW b \in Pointers, NEW q \in Int,
         NEW n \in 0 .. PtrMod - 1, b = a + PtrMod * q + n
  PROVE  Distance(a, b) = n
<1>1. a \in Int /\ b \in Int /\ PtrMod * q \in Int /\ n \in Int
  BY PointerType, Sizes
<1>2. b - a = PtrMod * q + n
  BY <1>1
<1> QED
  BY <1>2, Sizes, ModExact DEF Distance

\* A pointer moved along, modulo its width.
LEMMA Moved ==
  ASSUME NEW a \in Pointers, NEW n \in Int
  PROVE  /\ (a + n) % PtrMod \in Pointers
         /\ \E q \in Int : (a + n) % PtrMod = a + n + PtrMod * q
<1>1. a + n \in Int /\ a \in Int
  BY PointerType
<1>2. (a + n) \div PtrMod \in Int
      /\ a + n = PtrMod * ((a + n) \div PtrMod) + ((a + n) % PtrMod)
  BY <1>1, Sizes, DivMod
<1>3. (a + n) % PtrMod \in Pointers
  BY <1>1, PointerType
<1> DEFINE k == (a + n) \div PtrMod  r == (a + n) % PtrMod
<1>4. r = a + n + PtrMod * (-k)
  <2>1. k \in Int /\ r \in Int /\ a + n = PtrMod * k + r
    BY <1>2, <1>3, PointerType
  <2> HIDE DEF k, r
  <2>2. PtrMod * (-k) = -(PtrMod * k) /\ PtrMod * k \in Int
    BY <2>1, Sizes
  <2> QED
    BY <1>1, <2>1, <2>2
<1>5. -k \in Int
  BY <1>2
<1> QED
  BY <1>3, <1>4, <1>5

\* Moving the nearer end of a distance forward shortens it.
LEMMA Approach ==
  ASSUME NEW a \in Pointers, NEW b \in Pointers, NEW n \in 0 .. Distance(a, b)
  PROVE  Distance((a + n) % PtrMod, b) = Distance(a, b) - n
<1> DEFINE d == Distance(a, b)  c == (a + n) % PtrMod
<1>1. d \in Nat /\ d < PtrMod /\ n \in Int /\ a \in Int /\ b \in Int
  BY DistanceType, PointerType
<1>2. PICK q \in Int : b = a + PtrMod * q + d
  BY DistanceIs
<1>3. PICK k \in Int : c = a + n + PtrMod * k
  BY <1>1, Moved
<1>4. c \in Pointers /\ c \in Int
  BY <1>1, Moved, PointerType
<1>5. n <= d /\ 0 <= n
  BY <1>1
<1> HIDE DEF d, c
<1>6. b = c + PtrMod * (q - k) + (d - n)
  <2>1. PtrMod * (q - k) = PtrMod * q - PtrMod * k /\ PtrMod * q \in Int /\ PtrMod * k \in Int
    BY <1>2, <1>3, Sizes
  <2> QED
    BY <1>1, <1>2, <1>3, <1>4, <2>1
<1>7. d - n \in 0 .. PtrMod - 1 /\ q - k \in Int
  BY <1>1, <1>2, <1>3, <1>5, Sizes
<1>8. Distance(c, b) = d - n
  BY <1>4, <1>6, <1>7, IsDistance
<1> QED
  BY <1>8 DEF c, d

\* Moving the farther end forward lengthens it.
LEMMA Depart ==
  ASSUME NEW a \in Pointers, NEW b \in Pointers, NEW n \in Nat,
         Distance(a, b) + n < PtrMod
  PROVE  Distance(a, (b + n) % PtrMod) = Distance(a, b) + n
<1> DEFINE d == Distance(a, b)  c == (b + n) % PtrMod
<1>1. d \in Nat /\ d + n < PtrMod /\ n \in Int /\ a \in Int /\ b \in Int
  BY DistanceType, PointerType
<1>2. PICK q \in Int : b = a + PtrMod * q + d
  BY DistanceIs
<1>3. PICK k \in Int : c = b + n + PtrMod * k
  BY <1>1, Moved
<1>4. c \in Pointers /\ c \in Int
  BY <1>1, Moved, PointerType
<1> HIDE DEF d, c
<1>6. c = a + PtrMod * (q + k) + (d + n)
  <2>1. PtrMod * (q + k) = PtrMod * q + PtrMod * k /\ PtrMod * q \in Int /\ PtrMod * k \in Int
    BY <1>2, <1>3, Sizes
  <2> QED
    BY <1>1, <1>2, <1>3, <1>4, <2>1
<1>7. d + n \in 0 .. PtrMod - 1 /\ q + k \in Int
  BY <1>1, <1>2, <1>3, Sizes
<1>8. Distance(a, c) = d + n
  BY <1>4, <1>6, <1>7, IsDistance
<1> QED
  BY <1>8 DEF c, d

LEMMA NoDistance ==
  ASSUME NEW a \in Pointers
  PROVE  Distance(a, a) = 0
<1>1. a - a = 0
  BY PointerType
<1> QED
  BY <1>1, Sizes, ModSmall DEF Distance

\* A pointer moved by a distance arrives.
LEMMA Arrived ==
  ASSUME NEW a \in Pointers, NEW b \in Pointers
  PROVE  b = (a + Distance(a, b)) % PtrMod
<1> DEFINE d == Distance(a, b)
<1>1. PICK q \in Int : b = a + PtrMod * q + d
  BY DistanceIs
<1>2. d \in Int /\ a \in Int /\ b \in 0 .. PtrMod - 1
  BY DistanceType, PointerType DEF Pointers
<1> HIDE DEF d
<1>3. a + d = PtrMod * (-q) + b /\ -q \in Int
  <2>1. PtrMod * (-q) = -(PtrMod * q) /\ PtrMod * q \in Int
    BY <1>1, Sizes
  <2> QED
    BY <1>1, <1>2, <2>1
<1>4. (a + d) % PtrMod = b
  BY <1>2, <1>3, Sizes, ModExact
<1> QED
  BY <1>4 DEF d

\* Inner remainders make no difference.
LEMMA RingMods ==
  ASSUME NEW n \in Int, NEW k \in Int
  PROVE  /\ ((n % RingSize) + k) % RingSize = (n + k) % RingSize
         /\ ((n % PtrMod) + k) % RingSize = (n + k) % RingSize
<1> DEFINE size == RingSize  many == PtrMod
<1>1. size \in Nat \ {0} /\ many \in Nat \ {0} /\ many % size = 0 /\ size % size = 0
  BY Sizes
<1> HIDE DEF size, many
<1>2. ((n % size) + k) % size = (n + k) % size /\ ((n % many) + k) % size = (n + k) % size
  BY <1>1, ModMod, Zenon
<1> QED
  BY <1>2, Zenon DEF size, many

\* Seen from one pointer, what is written at another one lies behind their
\* distance.
LEMMA PlaceIs ==
  ASSUME NEW read \in Pointers, NEW write \in Pointers, NEW k \in Int
  PROVE  (((read + k) % RingSize) - write) % RingSize = (k - Distance(read, write)) % RingSize
<1> DEFINE len == Distance(read, write)  c == PtrMod \div RingSize
<1>1. PICK q \in Int : write = read + PtrMod * q + len
  BY DistanceIs
<1>2. read \in Int /\ write \in Int /\ len \in Int
  BY PointerType, DistanceType
<1>3. c \in Int /\ PtrMod = RingSize * c
  <2>1. PtrMod = RingSize * c + (PtrMod % RingSize) /\ c \in Int
    BY Sizes, DivMod
  <2> HIDE DEF c
  <2> QED
    BY <2>1, Sizes
<1> HIDE DEF len, c
<1>4. (((read + k) % RingSize) - write) % RingSize = ((read + k) - write) % RingSize
  <2>1. RingSize % RingSize = 0
    BY Sizes
  <2>2. (((read + k) % RingSize) + (-write)) % RingSize = ((read + k) + (-write)) % RingSize
    <3>1. read + k \in Int /\ -write \in Int /\ RingSize \in Nat \ {0}
      BY <1>2, Sizes
    <3> DEFINE n == read + k  m == -write
    <3> HIDE DEF n, m
    <3>2. n \in Int /\ m \in Int => ((n % RingSize) + m) % RingSize = (n + m) % RingSize
      BY RingMods, Zenon
    <3> QED
      BY <3>1, <3>2 DEF n, m
  <2>3. (read + k) % RingSize \in Int
    BY <1>2, Sizes, ModType
  <2> DEFINE r == (read + k) % RingSize
  <2>4. r + (-write) = r - write /\ (read + k) + (-write) = (read + k) - write
    <3> HIDE DEF r
    <3> QED
      BY <1>2, <2>3 DEF r
  <2> QED
    BY <2>2, <2>4
<1>5. (read + k) - write = RingSize * (-(c * q)) + (k - len)
  <2>1. PtrMod * q = RingSize * (c * q)
    <3>1. (RingSize * c) * q = RingSize * (c * q)
      BY <1>3, Sizes
    <3> QED
      BY <1>3, <3>1
  <2>3. RingSize * (-(c * q)) = -(RingSize * (c * q))
    <3>1. c * q \in Int
      BY <1>3
    <3> DEFINE p == c * q
    <3> HIDE DEF p
    <3>2. p \in Int => RingSize * (-p) = -(RingSize * p)
      BY Sizes
    <3> QED
      BY <3>1, <3>2 DEF p
  <2>2. RingSize * (c * q) \in Int
    BY <1>1, <1>3, Sizes
  <2> QED
    BY <1>1, <1>2, <2>1, <2>2, <2>3
<1>6. (RingSize * (-(c * q)) + (k - len)) % RingSize = (k - len) % RingSize
  <2>1. -(c * q) \in Int /\ k - len \in Int
    BY <1>1, <1>2, <1>3
  <2> QED
    BY <2>1, Sizes, ModShift
<1> QED
  BY <1>4, <1>5, <1>6 DEF len

\* What lies before the place of writing stays clear of it, as long as
\* everything fits into the ring.
LEMMA PlaceBefore ==
  ASSUME NEW len \in Nat, NEW n \in Nat, len + n <= RingSize, NEW k \in 0 .. len - 1
  PROVE  (k - len) % RingSize >= n
<1>1. RingSize \in Nat \ {0} /\ k \in Int /\ len \in Int
  BY Sizes
<1> DEFINE r == (k - len) + RingSize
<1>2. r \in 0 .. RingSize - 1 /\ k - len = RingSize * (-1) + r /\ r >= n
  BY <1>1
<1> HIDE DEF r
<1>3. (RingSize * (-1) + r) % RingSize = r
  BY <1>1, <1>2, ModExact
<1> QED
  BY <1>2, <1>3

\* And what is written lies behind it, in order.
LEMMA PlaceBehind ==
  ASSUME NEW len \in Nat, NEW n \in Nat, len + n <= RingSize, NEW j \in 0 .. n - 1
  PROVE  ((len + j) - len) % RingSize = j
<1>1. j \in 0 .. RingSize - 1 /\ (len + j) - len = j
  BY Sizes
<1> QED
  BY <1>1, Sizes, ModSmall

-----------------------------------------------------------------------------
(* The bytes of a ring from a pointer on.                                  *)

Byte(buffer, from, k) == buffer[(from + k) % RingSize]

\* The bytes from a pointer that has moved are those from where it was.
LEMMA ByteMoved ==
  ASSUME NEW buffer, NEW from \in Pointers, NEW n \in Int, NEW k \in Int
  PROVE  Byte(buffer, (from + n) % PtrMod, k) = Byte(buffer, from, n + k)
<1>1. from \in Int /\ from + n \in Int
  BY PointerType
<1>2. (((from + n) % PtrMod) + k) % RingSize = ((from + n) + k) % RingSize
  BY <1>1, RingMods, Zenon
<1>3. (from + n) + k = from + (n + k)
  BY <1>1
<1> QED
  BY <1>2, <1>3 DEF Byte

=============================================================================
