---------------------------- MODULE RingPointers ----------------------------
(***************************************************************************)
(* The pointers into a socket's RX and TX ring: 16 bit registers of the    *)
(* chip, which W5500.cpp computes with in uint16_t.  The bits above those  *)
(* of the ring count rounds, so that two pointers tell full from empty.    *)
(***************************************************************************)
EXTENDS Integers

CONSTANTS
  RingSize, \* bytes of a socket's buffer: 2048
  PtrMod    \* width of the pointers: 2^16

ASSUME PointerAssumption ==
  /\ RingSize \in Nat \ {0}
  /\ PtrMod \in Nat /\ PtrMod > RingSize /\ PtrMod % RingSize = 0

Pointers == 0 .. PtrMod - 1

Distance(from, to) == (to - from) % PtrMod

=============================================================================
