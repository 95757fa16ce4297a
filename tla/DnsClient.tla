------------------------------- MODULE DnsClient -------------------------------
(***************************************************************************)
(* The DNS client of W5500::Protocols::DNS (Protocols/DNS.cpp) on its      *)
(* cache, with an application that asks for names and the name servers     *)
(* around it.  update() is split where the network can get in: between     *)
(* taking the RECV flag and parsing each packet.  The calls of the         *)
(* application are single steps: only the socket's registers change under  *)
(* them, and query() reads none.                                           *)
(***************************************************************************)
EXTENDS DnsCache, Sequences

CONSTANTS
  Servers,    \* addresses set_server_ip() may be given
  Names,      \* host names the application asks for
  IdOf(_),    \* the query id of a name: CRC16::of
  Askable(_), \* has the name no label that makes query() give up?
  Replies(_), \* the replies that servers may send to the query of a name
  Parsed(_),  \* what parse_packet() has the cache store for a reply
  Said(_),    \* for reference: what the reply says
  RxCap       \* datagrams that fit into the socket's RX buffer

AllReplies == UNION {Replies(name) : name \in Names}

ASSUME ClientAssumption ==
  /\ \A name \in Names : IdOf(name) \in Ids
  /\ \A reply \in AllReplies : Parsed(reply) \in Answers \cup {NoAnswer}
  /\ RxCap \in Nat

VARIABLES
  server,  \* _ip
  pc,      \* where in update() the client is
  residue, \* is _write_offset other than 0?
  open,    \* is the chip's socket in UDP mode?
  dest,    \* Sn_DIPR
  recv,    \* Sn_IR(RECV)
  rx,      \* replies in the RX buffer, oldest first
  asked    \* names whose query has reached a server that has not forgotten it

cacheVars == <<slots, found>>
chipVars  == <<open, dest, recv, rx>>
vars      == <<cacheVars, server, pc, residue, chipVars, asked>>

-----------------------------------------------------------------------------
(* Client::update.                                                         *)

\* The socket is not ready and init() does not open it.
UpdateFails ==
  /\ pc = "idle" /\ ~open
  /\ UNCHANGED vars

\* A socket that was not open is opened and configured first.
UpdateBegin ==
  /\ pc = "idle"
  /\ open' = TRUE
  /\ dest' = IF open THEN dest ELSE server
  /\ recv' = FALSE
  /\ pc' = IF recv THEN "parse" ELSE "idle"
  /\ UNCHANGED <<cacheVars, server, residue, rx, asked>>

ParseOnePacket ==
  /\ pc = "parse"
  /\ pc' = "idle"
  /\ rx' = IF rx = <<>> THEN rx ELSE Tail(rx)
  /\ IF rx = <<>> \/ Parsed(Head(rx)) = NoAnswer THEN UNCHANGED slots
                                                 ELSE CacheStore(Parsed(Head(rx)))
  /\ UNCHANGED <<found, server, residue, open, dest, recv, asked>>

\* One round of while (parse_packet()).
ParsePacket ==
  /\ pc = "parse"
  /\ IF rx = <<>>
     THEN pc' = "idle" /\ UNCHANGED <<slots, rx>>
     ELSE /\ pc' = pc
          /\ rx' = Tail(rx)
          /\ IF Parsed(Head(rx)) = NoAnswer THEN UNCHANGED slots
                                            ELSE CacheStore(Parsed(Head(rx)))
  /\ UNCHANGED <<found, server, residue, open, dest, recv, asked>>

-----------------------------------------------------------------------------
(* The application.                                                        *)

\* Client::query finds the name in the cache and does nothing.
QueryCached(name) ==
  /\ pc = "idle" /\ HasEntry(IdOf(name))
  /\ LookFor(IdOf(name))
  /\ UNCHANGED <<found, server, pc, residue, chipVars, asked>>

QuerySentKeepingOffset(name) ==
  /\ pc = "idle" /\ ~HasEntry(IdOf(name)) /\ Askable(name)
  /\ LookFor(IdOf(name))
  /\ \/ asked' = asked \cup {name}
        /\ open /\ dest = server /\ ~residue
     \/ UNCHANGED asked
  /\ UNCHANGED <<found, server, pc, residue, chipVars>>

\* It writes a query and sends it.  Only a whole query that leaves an open
\* socket for the server is understood there; a query behind the residue of
\* one that was given up is not, and any query can get lost.
QuerySent(name) ==
  /\ pc = "idle" /\ ~HasEntry(IdOf(name)) /\ Askable(name)
  /\ LookFor(IdOf(name))
  /\ residue' = FALSE
  /\ \/ asked' = asked \cup {name}
        /\ open /\ dest = server /\ ~residue
     \/ UNCHANGED asked
  /\ UNCHANGED <<found, server, pc, chipVars>>

CloseSocket ==
  /\ open' = FALSE /\ rx' = <<>>
  /\ recv' \in {recv, FALSE}

\* It gives up in the middle: the socket is closed, what was written stays.
QueryGivenUp(name) ==
  /\ pc = "idle" /\ ~HasEntry(IdOf(name)) /\ ~Askable(name)
  /\ LookFor(IdOf(name))
  /\ residue' = TRUE
  /\ CloseSocket
  /\ UNCHANGED <<found, server, pc, dest, asked>>

Query(name) == QueryCached(name) \/ QuerySent(name) \/ QueryGivenUp(name)

\* Client::get
Get(id) ==
  /\ pc = "idle"
  /\ CacheGet(id)
  /\ UNCHANGED <<server, pc, residue, chipVars, asked>>

SetServerIp(s) ==
  /\ pc = "idle"
  /\ server' = s
  /\ dest' = IF open THEN s ELSE dest
  /\ UNCHANGED <<cacheVars, pc, residue, open, recv, rx, asked>>

\* Socket::close by the application, or a reset of the chip.
Close ==
  /\ pc = "idle" /\ open
  /\ CloseSocket
  /\ UNCHANGED <<cacheVars, server, pc, residue, dest, asked>>

-----------------------------------------------------------------------------
(* The network, the name servers and the clock.                            *)

\* A server answers; the reply may come again as long as it remembers asking.
Answer(reply) ==
  /\ \E name \in asked : reply \in Replies(name)
  /\ open /\ Len(rx) < RxCap
  /\ rx' = Append(rx, reply)
  /\ recv' = TRUE
  /\ UNCHANGED <<cacheVars, server, pc, residue, open, dest, asked>>

\* A query or all its replies are lost, or the last copy has been delivered.
Forget(name) ==
  /\ name \in asked
  /\ asked' = asked \ {name}
  /\ UNCHANGED <<cacheVars, server, pc, residue, chipVars>>

Tick ==
  /\ CacheTick
  /\ UNCHANGED <<found, server, pc, residue, chipVars, asked>>

-----------------------------------------------------------------------------

Init ==
  /\ CacheInit
  /\ server \in Servers
  /\ pc = "idle" /\ residue = FALSE
  /\ open = FALSE /\ dest = server /\ recv = FALSE /\ rx = <<>>
  /\ asked = {}

Update == UpdateFails \/ UpdateBegin \/ ParsePacket

Next ==
  \/ Update
  \/ \E name \in Names : Query(name)
  \/ \E id \in Ids : Get(id)
  \/ \E s \in Servers : SetServerIp(s)
  \/ Close
  \/ \E reply \in AllReplies : Answer(reply)
  \/ \E name \in Names : Forget(name)
  \/ Tick

Spec == Init /\ [][Next]_vars

Useful(name) == {reply \in Replies(name) : Said(reply) # NoAnswer}

\* The application calls update() and repeats its queries (query() itself never
\* does), a socket that is opened again and again opens, and a question that is
\* asked again and again reaches its server, also while there is room for the
\* reply, and brings a useful one.  The replies to one query come to an end: the
\* loop that parses packets has no other bound.
LiveSpec ==
  /\ Spec
  /\ WF_vars(UpdateBegin) /\ WF_vars(ParsePacket)
  /\ \A name \in Names :
       /\ WF_vars(QueryCached(name) \/ QuerySent(name))
       /\ SF_vars(QuerySent(name) /\ name \in asked' /\ Len(rx) < RxCap)
       /\ SF_vars(\E reply \in Useful(name) : Answer(reply))
       /\ WF_vars(Forget(name))

-----------------------------------------------------------------------------
(* Correctness.                                                            *)

\* Every variable keeps its type.
TypeOK ==
  /\ CacheTypeOK
  /\ server \in Servers /\ dest \in Servers
  /\ pc \in {"idle", "parse"}
  /\ residue \in BOOLEAN /\ open \in BOOLEAN /\ recv \in BOOLEAN
  /\ rx \in Seq(AllReplies) /\ Len(rx) <= RxCap
  /\ asked \subseteq Names

\* No reply is left behind unseen: outside update() a packet in the buffer
\* always has its RECV flag up.
NoLostWakeup == pc = "idle" /\ rx # <<>> => recv

\* "If this answer wasn't satisfactory, keep looping and hope we get a good
\* one" (DNS.cpp:146): of every reply that carries an address, the first one
\* is in the cache when parse_packet() returns, under the id of its query.
CachesWhatWasSaid ==
  [][pc = "parse" /\ rx # <<>> /\ rx' = Tail(rx) =>
       LET said == Said(Head(rx))
       IN  IF said = NoAnswer THEN slots' = slots
                              ELSE \E i \in Places : slots'[i] = said]_vars

\* As long as queries are not given up and the socket is not closed for ever,
\* a name that the application keeps asking for is resolved again and again,
\* whatever expired, got lost or was given up before.
Resolves ==
  <>[][~Close /\ \A name \in Names : ~QueryGivenUp(name)]_vars =>
    \A name \in Names : Askable(name) => []<>HasEntry(IdOf(name))

=============================================================================
