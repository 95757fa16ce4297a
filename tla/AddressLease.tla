---------------------------- MODULE AddressLease ----------------------------
(***************************************************************************)
(* What the DHCP client promises, whatever the network does: the chip uses *)
(* no address but one that a server has granted, and gives its address up  *)
(* before it asks for another.                                             *)
(***************************************************************************)
CONSTANTS Addresses, None

VARIABLES
  phase,    \* "idle", "asking", "bound" or "renewing"
  address,  \* the address in use, or None
  granted   \* the addresses some server has granted

leaseVars == <<phase, address, granted>>

Init == phase = "idle" /\ address = None /\ granted = {}

Grant(a) ==
  /\ granted' = granted \cup {a}
  /\ UNCHANGED <<phase, address>>

\* An attempt may fail to start: the address is given up all the same.
Begin ==
  /\ phase = "idle"
  /\ phase' \in {"idle", "asking"}
  /\ address' = None
  /\ UNCHANGED granted

Bind(a) ==
  /\ phase \in {"asking", "renewing"}
  /\ a \in granted
  /\ phase' = "bound"
  /\ address' = a
  /\ UNCHANGED granted

Renew ==
  /\ phase = "bound"
  /\ phase' = "renewing"
  /\ UNCHANGED <<address, granted>>

Abandon ==
  /\ phase # "idle"
  /\ phase' = "idle"
  /\ UNCHANGED <<address, granted>>

Next ==
  \/ Begin
  \/ Renew
  \/ Abandon
  \/ \E a \in Addresses : Grant(a) \/ Bind(a)

Spec == Init /\ [][Next]_leaseVars

=============================================================================
