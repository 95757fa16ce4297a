---------------------------- MODULE MCSocketSend ----------------------------
(***************************************************************************)
(* SocketSend on a ring of a few bytes.                                    *)
(***************************************************************************)
EXTENDS SocketSend
=============================================================================
