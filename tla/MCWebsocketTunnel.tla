------------------------- MODULE MCWebsocketTunnel --------------------------
(* Instances of WebsocketTunnel for TLC. *)
EXTENDS WebsocketTunnel

CONSTANTS b1, b2, b3, r1, r2, r3

MCFromBrowser == <<b1, b2, b3>>
MCFromRemote == <<r1, r2, r3>>
=============================================================================
