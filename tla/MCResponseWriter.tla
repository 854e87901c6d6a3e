-------------------------- MODULE MCResponseWriter --------------------------
(* Instances of ResponseWriter for TLC: the sizes are scaled down and keep   *)
(* their order, ResponseReadSize < ResponseSizeLimit < MaxReceiveSize, with  *)
(* pooled buffers below, at and beyond each of them.  MaxReceiveSize is the  *)
(* least that SizesFit allows, so that growBuf refuses reads too.            *)
EXTENDS ResponseWriter

Caps == {0, 1, 3, 4, 5, 6, 8, 20}
=============================================================================
