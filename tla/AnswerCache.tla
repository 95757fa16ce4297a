----------------------------- MODULE AnswerCache -----------------------------
(***************************************************************************)
(* What a cache of name server answers promises, whatever its layout: an   *)
(* answer is served until its life is over and never afterwards, a lookup  *)
(* finds an answer when there is one, and an answer that still lives gives *)
(* way only when every place is taken, and then the first to expire.       *)
(***************************************************************************)
EXTENDS Integers

CONSTANTS
  Ids,     \* query ids
  Ips,     \* addresses
  Size,    \* answers the cache can hold
  MaxLife, \* the longest life of an answer
  NoAnswer \* the outcome of a lookup that finds nothing

VARIABLES
  held,  \* the answers that live, by the place that holds them
  found  \* what the last lookup returned

Places  == 1 .. Size
Answers == [id : Ids, ip : Ips, left : 0 .. MaxLife]

-----------------------------------------------------------------------------

Init == held = [p \in {} |-> NoAnswer] /\ found = NoAnswer

Holding(id) == {p \in DOMAIN held : held[p].id = id}

Get(id) ==
  /\ \/ Holding(id) = {} /\ found' = NoAnswer
     \/ \E p \in Holding(id) : found' = held[p].ip
  /\ UNCHANGED held

\* The places an answer may be put into.
Room ==
  IF DOMAIN held = Places
  THEN {p \in Places : \A q \in Places : held[p].left <= held[q].left}
  ELSE Places \ DOMAIN held

\* Some answer goes to one of them, and the others stay.
Store ==
  /\ \E p \in Room :
       /\ DOMAIN held' = DOMAIN held \cup {p}
       /\ held'[p] \in Answers
       /\ \A q \in DOMAIN held \ {p} : held'[q] = held[q]
  /\ UNCHANGED found

Tick ==
  /\ held' = [p \in {q \in DOMAIN held : held[q].left > 0} |->
                [held[p] EXCEPT !.left = @ - 1]]
  /\ UNCHANGED found

Next ==
  \/ \E id \in Ids : Get(id)
  \/ Store
  \/ Tick

Spec == Init /\ [][Next]_<<held, found>>

=============================================================================
