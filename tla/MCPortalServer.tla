--------------------------- MODULE MCPortalServer ----------------------------
(* PortalServer for TLC: two hosts; requests with and without depth header. *)
EXTENDS PortalServer

CONSTANTS a, b

MCHosts == {a, b}
MCRequests == {[host |-> a, deep |-> 0, from |-> NoHost],
               [host |-> a, deep |-> MaxPortalDeep, from |-> a],
               [host |-> a, deep |-> MaxPortalDeep, from |-> b]}
==============================================================================
