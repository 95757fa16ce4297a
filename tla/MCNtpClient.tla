---------------------------- MODULE MCNtpClient ----------------------------
(***************************************************************************)
(* NtpClient with intervals of a few ticks, one shorter and one longer     *)
(* than the interval between requests, as on the wire, and NtpTime with    *)
(* words of six bits and five "milliseconds" in a second.                  *)
(***************************************************************************)
EXTENDS NtpClient

Doubled(p) == 2 ^ p

=============================================================================
