------------------------------ MODULE BusRandom ------------------------------
(***************************************************************************)
(* The pseudo random numbers of Bus::random() (Bus.hpp), from which the    *)
(* DHCP client takes its transaction ids.  The register shifts to the      *)
(* right and is fed from its upper end, where the taps are as well.        *)
(*                                                                         *)
(* A register is a function from bit numbers to 0 and 1.                   *)
(***************************************************************************)
EXTENDS Integers

Width     == 64
Positions == 0 .. Width - 1
Registers == [Positions -> {0, 1}]

\* 0xD800000000000000
Taps == {63, 62, 60, 59}

TapXorInverted(state) == (5 - (state[63] + state[62] + state[60] + state[59])) % 2

\* popcnt_taps less the bits that are set under the taps, its lowest bit.
TapXor(state) == (4 - (state[63] + state[62] + state[60] + state[59])) % 2

\* Bus::random
Random(state) ==
  [i \in Positions |-> IF i = Width - 1 THEN TapXor(state) ELSE state[i + 1]]

-----------------------------------------------------------------------------

\* The bits that the next ones are made from.
Alive(state) == \E i \in 59 .. 63 : state[i] = 1

\* The initial state is -1; init() replaces it by the time in milliseconds,
\* whose upper bits are 0 for the next eighteen million years.
Unseeded == [i \in Positions |-> 1]

\* Whether the generator goes on producing bits is decided by the upper five
\* bits of its seed: it never stops when one of them is set, and when none is,
\* it only shifts the seed out and ends at 0.
FateIsSealed ==
  \A top \in [59 .. 63 -> {0, 1}] :
    LET state == [i \in Positions |-> IF i < 59 THEN 1 ELSE top[i]]
    IN  Alive(Random(state)) <=> Alive(state)

=============================================================================
