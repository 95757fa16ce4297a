---------------------------- MODULE MCUdpReceive ----------------------------
(***************************************************************************)
(* UdpReceive on a ring of a few bytes: two or three datagrams fit, and    *)
(* the pointers wrap after two rounds.                                     *)
(***************************************************************************)
EXTENDS UdpReceive
=============================================================================
