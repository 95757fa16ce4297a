---------------------------- MODULE DatagramQueue ----------------------------
(***************************************************************************)
(* What a UdpSocket promises its client: a queue of datagrams, read one at *)
(* a time from front to back, and a flush that discards what was there     *)
(* when it was called and nothing that arrives in the meantime.            *)
(***************************************************************************)
EXTENDS Integers, Sequences

CONSTANT Payloads

VARIABLES
  queue,  \* payload sizes of the datagrams not yet begun, oldest first
  rest,   \* bytes left of the datagram being read
  doomed  \* datagrams a flush in progress discards; NoFlush if there is none

queueVars == <<queue, rest, doomed>>

NoFlush == -1

Init == queue = <<>> /\ rest = 0 /\ doomed = NoFlush

Arrive(payload) ==
  /\ queue' = Append(queue, payload)
  /\ UNCHANGED <<rest, doomed>>

Begin ==
  /\ queue # <<>> /\ rest = 0 /\ doomed = NoFlush
  /\ rest' = Head(queue)
  /\ queue' = Tail(queue)
  /\ UNCHANGED doomed

Take(n) ==
  /\ doomed = NoFlush
  /\ rest' = rest - n
  /\ UNCHANGED <<queue, doomed>>

CallFlush ==
  /\ doomed = NoFlush
  /\ doomed' = Len(queue)
  /\ UNCHANGED <<queue, rest>>

Flush ==
  /\ doomed # NoFlush
  /\ queue' = SubSeq(queue, doomed + 1, Len(queue))
  /\ rest' = 0
  /\ doomed' = NoFlush

Next ==
  \/ \E payload \in Payloads : Arrive(payload)
  \/ Begin
  \/ \E n \in 1 .. rest : Take(n)
  \/ CallFlush
  \/ Flush

Spec == Init /\ [][Next]_queueVars

==============================================================================
