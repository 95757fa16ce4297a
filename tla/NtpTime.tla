------------------------------- MODULE NtpTime -------------------------------
(***************************************************************************)
(* The time that parse_packet() of Protocols/NTP.cpp makes of a server's   *)
(* time stamp: seconds since 1900 and a fraction, each in 32 bits.         *)
(***************************************************************************)
EXTENDS Integers

CONSTANTS
  U32,            \* width of a 32 bit number: 2^32
  SeventyYears,   \* seconds from 1900 to 1970: 2208988800
  MillisPerSecond \* 1000

\* The whole milliseconds that a fraction is divided into fill the second: true
\* of 2^32 and 1000.
ASSUME TimeAssumption ==
  /\ U32 \in Nat /\ MillisPerSecond \in Nat \ {0}
  /\ SeventyYears \in 0 .. U32 - 1
  /\ MillisPerSecond < U32
  /\ (U32 - 1) % MillisPerSecond < (U32 - 1) \div MillisPerSecond

Words == 0 .. U32 - 1

-----------------------------------------------------------------------------

UnixSecondsUnwrapped(stamp) ==
  IF stamp >= SeventyYears THEN stamp - SeventyYears ELSE 0

\* unix_ts, computed in 32 bits.
UnixSeconds(stamp) == (stamp - SeventyYears) % U32

\* milliseconds
Millis(fraction) == fraction \div ((U32 - 1) \div MillisPerSecond)

\* *current_time_ms
UnixMillis(stamp, fraction) ==
  UnixSeconds(stamp) * MillisPerSecond + Millis(fraction)

-----------------------------------------------------------------------------

\* The first second whose number does not fit into 32 bits: in 2106.
EndOfTime == (SeventyYears - 1) % U32

\* What a server sends u seconds after 1970.
StampOf(u) == (u + SeventyYears) % U32

\* A time stamp becomes the time it stands for, also after 2036, when the
\* seconds since 1900 have started again from 0.
SecondsAreExact == \A u \in Words : UnixSeconds(StampOf(u)) = u

\* The time never runs backwards from one time stamp to the next, although the
\* last fractions of a second give a thousand milliseconds.
TimeKeepsOrder ==
  \A stamp \in Words :
    /\ \A fraction \in 0 .. U32 - 2 :
         UnixMillis(stamp, fraction) <= UnixMillis(stamp, fraction + 1)
    /\ stamp # EndOfTime =>
         UnixMillis(stamp, U32 - 1) <= UnixMillis((stamp + 1) % U32, 0)

=============================================================================
