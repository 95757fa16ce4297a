------------------------------- MODULE DnsCache -------------------------------
(***************************************************************************)
(* The answer cache of W5500::Protocols::DNS (DNSCache in DNS.hpp): an     *)
(* array of slots.  is_filled() empties an expired slot when it comes      *)
(* across one, so that every loop over the slots writes to them, as far    *)
(* as it gets.                                                             *)
(*                                                                         *)
(* An expiry time is kept as the time left until it, -1 once it is over.   *)
(***************************************************************************)
EXTENDS Integers, FiniteSetsExt

CONSTANTS
  Ids,     \* query ids
  Ips,     \* addresses
  Size,    \* DNSCache::size: 8
  MaxLife, \* the longest life of an answer
  NoAnswer \* an unfilled slot, and the outcome of a lookup that fails

Places  == 1 .. Size
Answers == [id : Ids, ip : Ips, left : 0 .. MaxLife]
Slots   == [id : Ids, ip : Ips, left : -1 .. MaxLife] \cup {NoAnswer}

ASSUME CacheAssumption ==
  /\ Size \in Nat \ {0} /\ MaxLife \in Nat
  /\ NoAnswer \notin Ips
  /\ NoAnswer \notin [id : Ids, ip : Ips, left : -1 .. MaxLife]

VARIABLES
  slots, \* _entries
  found  \* what the last get() wrote to its ip, NoAnswer if it returned false

-----------------------------------------------------------------------------

LiveTooLong(slot) == slot # NoAnswer

\* DNSCacheEntry::is_filled
Live(slot) == slot # NoAnswer /\ slot.left >= 0

\* The slots after a loop that has looked at the first reach of them.
Swept(reach) ==
  [i \in Places |-> IF i <= reach /\ ~Live(slots[i]) THEN NoAnswer ELSE slots[i]]

\* Where a loop over the slots ends that stops at the first one in S.
Reach(S) == IF S = {} THEN Size ELSE Min(S)

Matches(id) == {i \in Places : Live(slots[i]) /\ slots[i].id = id}

HasEntry(id) == Matches(id) # {}

\* DNSCache::has_entry
LookFor(id) == slots' = Swept(Reach(Matches(id)))

\* DNSCache::get
CacheGet(id) ==
  /\ LookFor(id)
  /\ found' = IF HasEntry(id) THEN slots[Min(Matches(id))].ip ELSE NoAnswer

Unfilled == {i \in Places : ~Live(slots[i])}
Soonest  == {i \in Places : \A j \in Places : slots[i].left <= slots[j].left}
Latest   == {i \in Places : \A j \in Places : slots[i].left >= slots[j].left}

PlaceEvictingLatest == IF Unfilled # {} THEN Min(Unfilled) ELSE Min(Latest)

\* The first open slot, or else the one that is the first to expire.
Place == IF Unfilled # {} THEN Min(Unfilled) ELSE Min(Soonest)

\* DNSCache::store
CacheStore(answer) ==
  slots' = [Swept(Reach(Unfilled)) EXCEPT ![Place] = answer]

Aged(slot) ==
  IF Live(slot) THEN [slot EXCEPT !.left = @ - 1] ELSE slot

CacheTick == slots' = [i \in Places |-> Aged(slots[i])]

CacheInit == slots = [i \in Places |-> NoAnswer] /\ found = NoAnswer

CacheTypeOK == slots \in [Places -> Slots] /\ found \in Ips \cup {NoAnswer}

-----------------------------------------------------------------------------

\* The answers that live, whatever is_filled() has not come across yet.
Held == [i \in {j \in Places : Live(slots[j])} |-> slots[i]]

Promise == INSTANCE AnswerCache WITH held <- Held

\* The slots, emptied only when somebody looks at them, and always searched
\* from the front, keep the promise of a cache.
KeepsCachePromise == Promise!Spec

=============================================================================
