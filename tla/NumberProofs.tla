---------------------------- MODULE NumberProofs ----------------------------
(***************************************************************************)
(* Induction over the natural numbers, for a set of them, functions that   *)
(* are defined by recursion on them, and quotients and remainders.         *)
(***************************************************************************)
EXTENDS Integers, WellFoundedInduction, TLAPS

-----------------------------------------------------------------------------
(* Induction.                                                              *)

Below == {pair \in Nat \X Nat : pair[1] < pair[2]}

LEMMA HasLeast ==
  ASSUME NEW S \in SUBSET Nat, S # {}
  PROVE  \E x \in S : \A y \in S : x <= y
<1>1. OpToRel(<, Nat) = Below
  BY DEF OpToRel, Below
<1>2. IsWellFoundedOn(Below, Nat)
  BY <1>1, NatLessThanWellFounded
<1>3. PICK x \in S : \A y \in S : <<y, x>> \notin Below
  BY <1>2, WFMin
<1>4. ASSUME NEW y \in S PROVE x <= y
  <2>1. x \in Nat /\ y \in Nat /\ <<y, x>> \notin Below
    BY <1>3
  <2> QED
    BY <2>1 DEF Below
<1> QED
  BY <1>4

\* A set that holds 0 and with each number its successor holds them all.
LEMMA Inductive ==
  ASSUME NEW S, 0 \in S, \A n \in Nat : n \in S => n + 1 \in S
  PROVE  \A n \in Nat : n \in S
<1> DEFINE Out == {n \in Nat : n \notin S}
<1>1. ASSUME Out # {} PROVE FALSE
  <2>1. PICK n \in Out : \A k \in Out : n <= k
    BY <1>1, HasLeast
  <2>2. n \in Nat /\ n \notin S /\ n # 0
    BY <2>1
  <2>3. n - 1 \in Nat /\ ~(n <= n - 1) /\ (n - 1) + 1 = n
    BY <2>2
  <2>4. n - 1 \in S
    BY <2>1, <2>3
  <2> QED
    BY <2>2, <2>3, <2>4
<1> QED
  BY <1>1

\* Below a bound there is a greatest one.
LEMMA Greatest ==
  ASSUME NEW top \in Nat, NEW S \in SUBSET (0 .. top), S # {}
  PROVE  \E k \in S : \A n \in S : n <= k
<1> DEFINE T == {m \in Nat : m <= top /\ top - m \in S}
<1>1. PICK n \in S : TRUE
  OBVIOUS
<1>2. top - n \in T
  <2>1. n \in Int /\ 0 <= n /\ n <= top
    OBVIOUS
  <2>2. top - n \in Nat /\ top - n <= top /\ top - (top - n) = n
    BY <2>1
  <2> QED
    BY <2>2
<1>3. PICK m \in T : \A y \in T : m <= y
  BY <1>2, HasLeast
<1>4. top - m \in S
  BY <1>3
<1>5. ASSUME NEW y \in S PROVE y <= top - m
  <2>1. y \in Int /\ 0 <= y /\ y <= top
    OBVIOUS
  <2>2. top - y \in Nat /\ top - y <= top /\ top - (top - y) = y
    BY <2>1
  <2>3. top - y \in T
    BY <2>2
  <2>4. m <= top - y /\ m \in Nat
    BY <1>3, <2>3
  <2> QED
    BY <2>1, <2>4
<1> QED
  BY <1>4, <1>5

\* A function on 0 .. top may be defined by its value at 0 and a step from each
\* value to the next.
Recursive(f, S, base, top, step) ==
  /\ f \in [0 .. top -> S] /\ f[0] = base
  /\ \A n \in 1 .. top : f[n] = step[n][f[n - 1]]

LEMMA Recursion ==
  ASSUME NEW S, NEW base \in S, NEW top \in Nat, NEW step \in [1 .. top -> [S -> S]]
  PROVE  \E f : Recursive(f, S, base, top, step)
<1> DEFINE Good(f, m) == /\ f \in [0 .. m -> S] /\ f[0] = base
                         /\ \A n \in 1 .. m : f[n] = step[n][f[n - 1]]
           Bounds == {m \in Nat : m <= top => \E f : Good(f, m)}
<1>1. 0 \in Bounds
  <2>1. Good([n \in 0 .. 0 |-> base], 0)
    OBVIOUS
  <2>2. \E f : Good(f, 0)
    BY <2>1
  <2> HIDE DEF Good
  <2> QED
    BY <2>2
<1>2. ASSUME NEW m \in Nat, m \in Bounds PROVE m + 1 \in Bounds
  <2>1. CASE m + 1 <= top
    <3>1. m <= top /\ m + 1 \in 1 .. top
      BY <2>1
    <3>2. PICK f : Good(f, m)
      BY <1>2, <3>1
    <3> DEFINE g == [n \in 0 .. m + 1 |-> IF n <= m THEN f[n] ELSE step[m + 1][f[m]]]
    <3>3. \A n \in 0 .. m : f[n] \in S /\ g[n] = f[n]
      BY <3>2
    <3>4. g[m + 1] = step[m + 1][f[m]] /\ step[m + 1][f[m]] \in S
      <4>1. m \in 0 .. m
        OBVIOUS
      <4>2. f[m] \in S
        BY <3>2, <4>1
      <4> QED
        BY <3>1, <4>2
    <3>5. g \in [0 .. m + 1 -> S]
      <4>1. \A n \in 0 .. m + 1 : n <= m => n \in 0 .. m
        OBVIOUS
      <4>2. \A n \in 0 .. m + 1 : (IF n <= m THEN f[n] ELSE step[m + 1][f[m]]) \in S
        BY <3>3, <3>4, <4>1
      <4> QED
        BY <4>2
    <3> HIDE DEF g
    <3>6. ASSUME NEW n \in 1 .. m + 1 PROVE g[n] = step[n][g[n - 1]]
      <4>1. CASE n \in 1 .. m
        <5>1. n \in 0 .. m /\ n - 1 \in 0 .. m
          BY <4>1
        <5>2. f[n] = step[n][f[n - 1]]
          BY <3>2, <4>1
        <5> QED
          BY <3>3, <5>1, <5>2
      <4>2. CASE n = m + 1
        <5>1. n - 1 = m /\ m \in 0 .. m
          BY <4>2
        <5> QED
          BY <3>3, <3>4, <4>2, <5>1
      <4> QED
        BY <4>1, <4>2
    <3>7. g[0] = base
      <4>1. 0 \in 0 .. m /\ f[0] = base
        BY <3>2
      <4> QED
        BY <3>3, <4>1
    <3>8. \E h : Good(h, m + 1)
      BY <3>5, <3>6, <3>7
    <3> HIDE DEF Good
    <3> QED
      BY <3>8
  <2>2. CASE ~(m + 1 <= top)
    BY <2>2
  <2> QED
    BY <2>1, <2>2
<1> HIDE DEF Bounds
<1>3. top \in Bounds
  BY <1>1, <1>2, Inductive
<1>4. \E f : Good(f, top)
  BY <1>3 DEF Bounds
<1> QED
  BY <1>4, Zenon DEF Recursive

-----------------------------------------------------------------------------
(* Quotients and remainders.                                               *)

LEMMA ModType ==
  ASSUME NEW d \in Nat \ {0}, NEW n \in Int
  PROVE  n % d \in 0 .. d - 1 /\ n % d \in Int
  OBVIOUS

LEMMA DivMod ==
  ASSUME NEW d \in Nat \ {0}, NEW n \in Int
  PROVE  n \div d \in Int /\ n = d * (n \div d) + (n % d)
  OBVIOUS

LEMMA ModSmall ==
  ASSUME NEW d \in Nat \ {0}, NEW n \in 0 .. d - 1
  PROVE  n % d = n
  OBVIOUS

LEMMA ModExact ==
  ASSUME NEW d \in Nat \ {0}, NEW q \in Int, NEW r \in 0 .. d - 1
  PROVE  (d * q + r) % d = r
  OBVIOUS

LEMMA ModBelow ==
  ASSUME NEW d \in Nat \ {0}, NEW n \in 0 .. d - 1
  PROVE  (n - d) % d = n
  OBVIOUS

LEMMA ModAbove ==
  ASSUME NEW d \in Nat \ {0}, NEW n \in 0 .. d - 1
  PROVE  (n + d) % d = n
  OBVIOUS

LEMMA DivType ==
  ASSUME NEW d \in Nat \ {0}, NEW n \in Nat
  PROVE  n \div d \in Nat
  OBVIOUS

LEMMA DivExact ==
  ASSUME NEW d \in Nat \ {0}, NEW q \in Nat, NEW r \in 0 .. d - 1
  PROVE  (d * q + r) \div d = q
  OBVIOUS

LEMMA DivGrows ==
  ASSUME NEW d \in Nat \ {0}, NEW n \in Nat
  PROVE  n \div d <= (n + 1) \div d
  OBVIOUS

\* A multiple of the divisor does not count.
LEMMA ModShift ==
  ASSUME NEW d \in Nat \ {0}, NEW n \in Int, NEW q \in Int
  PROVE  (d * q + n) % d = n % d
<1> DEFINE k == n \div d  r == n % d
<1>1. k \in Int /\ r \in 0 .. d - 1 /\ n = d * k + r
  BY DivMod, ModType
<1> HIDE DEF k, r
<1>2. d * q + n = d * (q + k) + r
  <2>1. d * (q + k) = d * q + d * k
    BY <1>1
  <2> QED
    BY <1>1, <2>1
<1>3. (d * (q + k) + r) % d = r
  BY <1>1, ModExact
<1> QED
  BY <1>2, <1>3 DEF r

\* A remainder may be taken first, if its divisor is a multiple.
LEMMA ModMod ==
  ASSUME NEW d \in Nat \ {0}, NEW m \in Nat \ {0}, m % d = 0,
         NEW n \in Int, NEW k \in Int
  PROVE  ((n % m) + k) % d = (n + k) % d
<1> DEFINE c == m \div d  q == n \div m
<1>1. /\ c \in Int /\ m = d * c
      /\ q \in Int /\ n % m \in Int /\ n = m * q + (n % m)
  BY DivMod, ModType
<1> HIDE DEF c, q
<1>2. n + k = d * (c * q) + ((n % m) + k)
  <2>1. m * q = d * (c * q)
    BY <1>1
  <2> QED
    BY <1>1, <2>1
<1>3. c * q \in Int /\ (n % m) + k \in Int
  BY <1>1
<1>4. (d * (c * q) + ((n % m) + k)) % d = ((n % m) + k) % d
  BY <1>3, ModShift
<1> QED
  BY <1>2, <1>4

=============================================================================
