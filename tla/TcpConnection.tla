---------------------------- MODULE TcpConnection ----------------------------
(***************************************************************************)
(* A TCP connection that check_connection() of the README keeps up with a  *)
(* TcpSocket (TcpSocket.cpp).  Every register it reads or writes is a step *)
(* of its own, and between any two of them the chip may change the state   *)
(* of the socket and raise flags.                                          *)
(*                                                                         *)
(* The chip is modelled from the comments of Registers.hpp.  The code only *)
(* ever asks for a client connection, so there is no LISTEN or SYN_RECV,   *)
(* and it never sends DISCONNECT, so there is no FIN_WAIT and the like.    *)
(***************************************************************************)
EXTENDS Integers

CONSTANTS
  Backoff, \* _connect_backoff_ms
  MaxAge,  \* bound of the model: ages are not told apart beyond it
  PortMod  \* width of the 16 bit _ephemeral_port: 2^16

ASSUME BackoffAssumption ==
  /\ Backoff \in Nat /\ MaxAge \in Nat /\ Backoff < MaxAge
  /\ PortMod \in Nat \ {0, 1}

VARIABLES
  link,    \* LINK_STATUS of the PHY
  status,  \* Sn_SR
  flags,   \* Sn_IR
  pc,      \* what check_connection() does next
  seen,    \* its copy of the flags
  age,     \* time since _last_connect_attempt
  port,    \* _ephemeral_port
  unannounced \* history: has a connection been established since the last
              \* handle_connect()?

chipVars == <<link, status, flags>>
loopVars == <<pc, seen, age, port>>
vars     == <<chipVars, loopVars, unannounced>>

Statuses == {"CLOSED", "INIT", "SYN_SENT", "ESTABLISHED", "CLOSE_WAIT"}
Flags    == {"CONNECT", "DISCONNECT", "TIMEOUT"}
Steps == {"idle", "linkDown", "linkClose", "flags", "connect", "disconnect",
          "clearDisconnect", "timeout", "clearTimeout", "connected", "ready",
          "open", "opened", "giveUp", "connecting", "dial"}

\* TcpSocket::ready
Ready == status \in {"INIT", "SYN_SENT", "ESTABLISHED"}

-----------------------------------------------------------------------------
(* check_connection                                                        *)

GoTo(step) ==
  /\ pc' = step
  /\ seen' = IF step = "idle" THEN {} ELSE seen
  /\ UNCHANGED <<link, age, port>>

\* A step that only reads the socket's status.
Decide(step, then) ==
  /\ pc = step /\ GoTo(then)
  /\ UNCHANGED <<status, flags, unannounced>>

CheckLink == Decide("idle", IF link THEN "flags" ELSE "linkDown")

CheckStillConnected ==
  Decide("linkDown", IF status = "ESTABLISHED" THEN "linkClose" ELSE "idle")

\* Socket::close
CloseAt(step, then) ==
  /\ pc = step /\ GoTo(then)
  /\ status' = "CLOSED"
  /\ UNCHANGED <<flags, unannounced>>

CloseOnLinkDown == CloseAt("linkClose", "idle")

ReadFlags ==
  /\ pc = "flags" /\ pc' = "connect"
  /\ seen' = flags
  /\ UNCHANGED <<chipVars, age, port, unannounced>>

HandleConnectLeavingFlag ==
  /\ pc = "connect" /\ "CONNECT" \in seen /\ GoTo("disconnect")
  /\ unannounced' = FALSE
  /\ UNCHANGED <<status, flags>>

\* The CONNECT flag is cleared and handle_connect() called.
HandleConnect ==
  /\ pc = "connect" /\ "CONNECT" \in seen /\ GoTo("disconnect")
  /\ flags' = flags \ {"CONNECT"}
  /\ unannounced' = FALSE
  /\ UNCHANGED status

SkipConnectClearingFlag ==
  /\ pc = "connect" /\ "CONNECT" \notin seen /\ GoTo("disconnect")
  /\ flags' = flags \ {"CONNECT"}
  /\ UNCHANGED <<status, unannounced>>

SkipConnect == "CONNECT" \notin seen /\ Decide("connect", "disconnect")

\* After DISCONNECT and after TIMEOUT the socket is closed and the flag cleared.
CloseOnFlag(flag, step, clear, then) ==
  IF flag \in seen THEN CloseAt(step, clear) ELSE Decide(step, then)

ClearFlagForgotten(flag, clear, then) == Decide(clear, then)

ClearFlag(flag, clear, then) ==
  /\ pc = clear /\ GoTo(then)
  /\ flags' = flags \ {flag}
  /\ UNCHANGED <<status, unannounced>>

CloseOnDisconnect == CloseOnFlag("DISCONNECT", "disconnect", "clearDisconnect", "timeout")
ClearDisconnect   == ClearFlag("DISCONNECT", "clearDisconnect", "timeout")
CloseOnTimeout    == CloseOnFlag("TIMEOUT", "timeout", "clearTimeout", "connected")
ClearTimeout      == ClearFlag("TIMEOUT", "clearTimeout", "connected")

CheckConnected ==
  Decide("connected", IF status = "ESTABLISHED" THEN "idle" ELSE "ready")

CheckReady == Decide("ready", IF Ready THEN "connecting" ELSE "open")

\* TcpSocket::init.  Whether OPEN clears the flags, and whether the chip opens a
\* socket that is not closed, the code does not depend on.
Opens ==
  /\ pc = "open" /\ GoTo("opened")
  /\ status' = "INIT"
  /\ flags' \in {flags, {}}
  /\ UNCHANGED unannounced

OpensNot    == Decide("open", "opened")
OpenFails   == status = "CLOSED" /\ OpensNot
OpenIgnored == status # "CLOSED" /\ OpensNot

CheckOpened == Decide("opened", IF Ready THEN "connecting" ELSE "giveUp")

GiveUp == CloseAt("giveUp", "idle")

CheckConnecting ==
  Decide("connecting",
         IF age > Backoff /\ status # "SYN_SENT" THEN "dial" ELSE "idle")

\* TcpSocket::connect.  CONNECT means something to an opened socket only.
DialUnwrapped ==
  /\ pc = "dial" /\ pc' = "idle" /\ seen' = {}
  /\ age' = 0
  /\ port' = port + 1
  /\ status' = IF status = "INIT" THEN "SYN_SENT" ELSE status
  /\ UNCHANGED <<link, flags, unannounced>>

Dial ==
  /\ pc = "dial" /\ pc' = "idle" /\ seen' = {}
  /\ age' = 0
  /\ port' = (port + 1) % PortMod
  /\ status' = IF status = "INIT" THEN "SYN_SENT" ELSE status
  /\ UNCHANGED <<link, flags, unannounced>>

CheckConnection ==
  \/ CheckLink \/ CheckStillConnected \/ CloseOnLinkDown
  \/ ReadFlags \/ HandleConnect \/ SkipConnect
  \/ CloseOnDisconnect \/ ClearDisconnect \/ CloseOnTimeout \/ ClearTimeout
  \/ CheckConnected \/ CheckReady \/ Opens \/ OpenIgnored \/ CheckOpened \/ GiveUp
  \/ CheckConnecting \/ Dial

-----------------------------------------------------------------------------
(* The chip, the wire and the peer.                                        *)

Establish ==
  /\ status = "SYN_SENT" /\ link
  /\ status' = "ESTABLISHED"
  /\ flags' = flags \cup {"CONNECT"}
  /\ unannounced' = TRUE
  /\ UNCHANGED <<link, loopVars>>

\* The peer has sent a FIN.
HalfClose ==
  /\ status = "ESTABLISHED" /\ link
  /\ status' = "CLOSE_WAIT"
  /\ flags' = flags \cup {"DISCONNECT"}
  /\ UNCHANGED <<link, loopVars, unannounced>>

\* The peer resets the connection or refuses it, or nothing is acknowledged.
Drop(flag) ==
  /\ status \in {"SYN_SENT", "ESTABLISHED", "CLOSE_WAIT"}
  /\ status' = "CLOSED"
  /\ flags' = flags \cup {flag}
  /\ UNCHANGED <<link, loopVars, unannounced>>

LinkUp   == ~link /\ link' = TRUE  /\ UNCHANGED <<status, flags, loopVars, unannounced>>
LinkDown == link  /\ link' = FALSE /\ UNCHANGED <<status, flags, loopVars, unannounced>>

\* The application resets the chip between two calls.
ChipReset ==
  /\ pc = "idle"
  /\ status' = "CLOSED" /\ flags' = {}
  /\ UNCHANGED <<link, loopVars, unannounced>>

Disturbance ==
  \/ HalfClose
  \/ Drop("DISCONNECT") \/ Drop("TIMEOUT")
  \/ LinkDown
  \/ ChipReset
  \/ OpenFails

Tick ==
  /\ age' = IF age < MaxAge THEN age + 1 ELSE age
  /\ UNCHANGED <<chipVars, pc, seen, port, unannounced>>

-----------------------------------------------------------------------------

Init ==
  /\ link \in BOOLEAN
  /\ status = "CLOSED" /\ flags = {}
  /\ pc = "idle" /\ seen = {}
  /\ age \in 0 .. MaxAge
  /\ port = 1
  /\ unannounced = FALSE

Next == CheckConnection \/ Establish \/ LinkUp \/ Disturbance \/ Tick

Spec == Init /\ [][Next]_vars

\* The application calls check_connection() "periodically" (README.md:103), a
\* link that is down comes up again, a peer that is asked again and again
\* accepts, and time passes.
LiveSpec ==
  /\ Spec
  /\ WF_vars(CheckConnection) /\ WF_vars(LinkUp) /\ WF_vars(Tick)
  /\ SF_vars(Establish)

-----------------------------------------------------------------------------
(* Correctness.                                                            *)

\* Every variable keeps its type.
TypeOK ==
  /\ link \in BOOLEAN
  /\ status \in Statuses
  /\ flags \subseteq Flags
  /\ pc \in Steps /\ seen \subseteq Flags
  /\ age \in 0 .. MaxAge
  /\ port \in 0 .. PortMod - 1
  /\ unannounced \in BOOLEAN

\* A connection that handle_connect() has not been told of is about to be
\* announced: its CONNECT flag is up or the loop holds a copy of it, whatever
\* the chip did between reading the flags and clearing one.
ConnectionIsAnnounced ==
  status = "ESTABLISHED" /\ unannounced =>
    "CONNECT" \in flags \/ (pc = "connect" /\ "CONNECT" \in seen)

\* handle_connect() is called at most once for a connection, also when a flag
\* outlives it: a socket closed because the link is down keeps its flags.
AnnouncedOnce == [][HandleConnect => unannounced]_vars

\* When disturbances come to an end, so do the attempts to connect: stale
\* flags may close new attempts, but not for ever, and then a connection stays
\* and the application knows of it.
Reconnects ==
  <>[][~Disturbance]_vars => <>[](status = "ESTABLISHED" /\ ~unannounced)

=============================================================================
