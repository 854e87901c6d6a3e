------------------------------- MODULE Duplex -------------------------------
(***************************************************************************)
(* What a websocket request promises browser and remote server: either     *)
(* hears what the other one has said, in order, without a hole, and        *)
(* nothing else; or the browser hears an error and the remote server       *)
(* nothing at all.  Either stream may stop anywhere.                       *)
(***************************************************************************)
EXTENDS Naturals, Sequences

CONSTANTS
    FromBrowser, \* what the browser has to say, a sequence
    FromRemote   \* what the remote server has to say, the 101 first

VARIABLES
    browserSent, \* how many messages the browser has sent
    remoteGot,   \* what the remote server received
    remoteSent,  \* how many messages the remote server has sent
    browserGot   \* what the browser received

vars == <<browserSent, remoteGot, remoteSent, browserGot>>

Refused == browserGot = <<"error">>

Init ==
    /\ browserSent = 0
    /\ remoteGot = <<>>
    /\ remoteSent = 0
    /\ browserGot = <<>>

\* The browser speaks when it has the 101.
BrowserSends ==
    /\ browserGot # <<>> /\ ~Refused
    /\ browserSent < Len(FromBrowser)
    /\ browserSent' = browserSent + 1
    /\ UNCHANGED <<remoteGot, remoteSent, browserGot>>

RemoteSends ==
    /\ ~Refused
    /\ remoteSent < Len(FromRemote)
    /\ remoteSent' = remoteSent + 1
    /\ UNCHANGED <<browserSent, remoteGot, browserGot>>

ToRemote ==
    /\ Len(remoteGot) < browserSent
    /\ remoteGot' = Append(remoteGot, FromBrowser[Len(remoteGot) + 1])
    /\ UNCHANGED <<browserSent, remoteSent, browserGot>>

ToBrowser ==
    /\ Len(browserGot) < remoteSent
    /\ browserGot' = Append(browserGot, FromRemote[Len(browserGot) + 1])
    /\ UNCHANGED <<browserSent, remoteGot, remoteSent>>

\* The agent could not reach the remote server.
Refuse ==
    /\ browserGot = <<>>
    /\ remoteSent = 0
    /\ browserGot' = <<"error">>
    /\ UNCHANGED <<browserSent, remoteGot, remoteSent>>

Next == BrowserSends \/ RemoteSends \/ ToRemote \/ ToBrowser \/ Refuse

Spec == Init /\ [][Next]_vars

=============================================================================
