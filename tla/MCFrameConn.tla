---------------------------- MODULE MCFrameConn -----------------------------
(* FrameConn for TLC: two senders. *)
EXTENDS FrameConn

CONSTANTS k1, k2

MCSenders == {k1, k2}
=============================================================================
