-------------------------- MODULE WebsocketTunnel ---------------------------
(***************************************************************************)
(* One websocket request.  The agent answers it by dialling the server     *)
(* once more: Login with RespSeq hands the new connection, "the tunnel",   *)
(* to the DoRequest that waits for that number, and from then on two       *)
(* goroutines at the server and two at the agent copy bytes between the    *)
(* browser, the tunnel and the remote websocket server.                    *)
(*                                                                         *)
(* No write has a deadline.  One into the tunnel waits while the tunnel is *)
(* full, one to the browser or the remote server until that end takes it;  *)
(* and a goroutine that waits there sees nothing of what happens           *)
(* elsewhere.  A write to a connection whose other end is closed may be    *)
(* accepted and lost, or fail.  The browser speaks after it has seen the   *)
(* remote's first message, the 101.  Either process may end at any time.   *)
(***************************************************************************)
EXTENDS Naturals, Sequences, SequencesExt

CONSTANTS
    FromBrowser, \* what the browser has to say, a sequence
    FromRemote,  \* what the remote server has to say, the 101 first
    Window       \* how much the tunnel holds in either direction, with what
                 \* its reader has in hand

ASSUME StreamsType ==
    /\ FromBrowser \in Seq(ToSet(FromBrowser))
    /\ FromRemote \in Seq(ToSet(FromRemote))

ASSUME WindowType == Window \in Nat \ {0}

ASSUME Remote101 == FromRemote # <<>> /\ FromRemote[1] # "error"

VARIABLES
    request,       \* where DoRequest is, or how it ended
    handler,       \* where keepConnection of the tunnel is
    agent,         \* the agent's goroutine: httpRequest, then ServeWebSocket
    upstream,      \* the agent's goroutine that copies to the remote server
    writer,        \* the server's goroutine that copies from the browser
    broken,        \* the server's brokenConn is closed
    closed,        \* the ends of the tunnel that are closed
    cut,           \* the network has cut the tunnel
    down, up,      \* the tunnel's bytes to the agent, to the server; the head
                   \* may be in its reader's hand
    browser,       \* "open" or "gone"
    browserSent,   \* how many messages the browser has sent,
    browserPassed, \* and the server has passed into the tunnel of these
    browserGot,    \* what the browser received
    remote,        \* the connection to the remote server
    remoteSent,    \* how many messages the remote server has sent,
    remotePassed,  \* and the agent has passed into the tunnel of these
    remoteGot,     \* what the remote server received
    stopped        \* the agent has ended

browserVars == <<browser, browserSent, browserPassed, browserGot>>
remoteVars == <<remote, remoteSent, remotePassed, remoteGot, stopped>>
tunnel == <<closed, cut, down, up>>
server == <<request, handler, writer, broken>>
vars == <<server, agent, upstream, tunnel, browserVars, remoteVars>>

Ended == {"gatewayTimeout", "badGateway", "done"}

TypeOK ==
    /\ request \in {"sent", "wait", "tunnel", "write"} \cup Ended
    /\ handler \in {"none", "login", "grant", "refuse", "end", "failed"}
    /\ agent \in {"start", "login", "serve", "copy", "write", "end", "error",
                 "failed"}
    /\ upstream \in {"none", "run", "write", "end"}
    /\ writer \in {"none", "run", "write", "end"}
    /\ broken \in BOOLEAN
    /\ closed \subseteq {"agent", "server"}
    /\ cut \in BOOLEAN
    /\ down \in Seq(ToSet(FromBrowser) \cup {"ack", "nack"})
    /\ up \in Seq(ToSet(FromRemote) \cup {"error"})
    /\ Len(down) <= Window /\ Len(up) <= Window
    /\ browser \in {"open", "gone"}
    /\ browserSent \in 0 .. Len(FromBrowser)
    /\ browserPassed \in 0 .. browserSent
    /\ browserGot \in Seq(ToSet(FromRemote) \cup {"error"})
    /\ remote \in {"none", "open", "closed"}
    /\ remoteSent \in 0 .. Len(FromRemote)
    /\ remotePassed \in 0 .. remoteSent
    /\ remoteGot \in Seq(ToSet(FromBrowser))
    /\ stopped \in BOOLEAN

Init ==
    /\ request = "sent"
    /\ handler = "none"
    /\ agent = "start"
    /\ upstream = "none"
    /\ writer = "none"
    /\ broken = FALSE
    /\ closed = {}
    /\ cut = FALSE
    /\ down = <<>>
    /\ up = <<>>
    /\ browser = "open"
    /\ browserSent = 0
    /\ browserPassed = 0
    /\ browserGot = <<>>
    /\ remote = "none"
    /\ remoteSent = 0
    /\ remotePassed = 0
    /\ remoteGot = <<>>
    /\ stopped = FALSE

\* Neither end can send to the other.
Severed == cut \/ closed # {}

\* A write into the tunnel returns; until then its goroutine has a message in
\* hand.
Returns(bytes) == Severed \/ Len(bytes) < Window

Written(bytes, message) ==
    IF Severed THEN bytes ELSE Append(bytes, message)

\* transportDirect runs: "tunnel" while it waits for the tunnel, "write" while
\* it has a message for the browser in hand.
Copying == request \in {"tunnel", "write"}

-----------------------------------------------------------------------------
(* DoRequest before the tunnel *)

Select ==
    /\ request = "sent"
    /\ request' = "wait"
    /\ UNCHANGED <<handler, writer, broken, agent, upstream, tunnel,
                   browserVars, remoteVars>>

\* The timeout, or the context of a request whose browser has left.
Timeout ==
    /\ request = "wait"
    /\ request' = "gatewayTimeout"
    /\ UNCHANGED <<handler, writer, broken, agent, upstream, tunnel,
                   browserVars, remoteVars>>

\* The agent's error response, dropped unless DoRequest waits for one.
ErrorResponse ==
    /\ agent = "error"
    /\ agent' = "failed"
    /\ request' = IF request = "wait" THEN "badGateway" ELSE request
    /\ UNCHANGED <<handler, writer, broken, upstream, tunnel, browserVars,
                   remoteVars>>

-----------------------------------------------------------------------------
(* The agent: handleWebsocketRequest *)

\* No handler, a bad request, no connection.
Refuse ==
    /\ agent = "start"
    /\ agent' = "error"
    /\ UNCHANGED <<server, upstream, tunnel, browserVars, remoteVars>>

Connect ==
    /\ agent = "start"
    /\ "server" \notin closed
    /\ agent' = "login"
    /\ handler' = "login"
    /\ UNCHANGED <<request, writer, broken, upstream, tunnel, browserVars,
                   remoteVars>>

\* Mutant of LoginReply: the reply is not waited for.
LoginReplyIgnored ==
    /\ agent = "login"
    /\ agent' = "serve"
    /\ UNCHANGED <<server, upstream, tunnel, browserVars, remoteVars>>

\* A refusal, and a read that fails, leave the connection open.
LoginReply ==
    /\ agent = "login"
    /\ \/ /\ down # <<>>
          /\ down' = Tail(down)
          /\ agent' = IF Head(down) = "ack" THEN "serve" ELSE "error"
       \/ /\ down = <<>> /\ Severed
          /\ agent' = "error"
          /\ UNCHANGED down
    /\ UNCHANGED <<server, upstream, closed, cut, up, browserVars, remoteVars>>

\* Mutant of ServeError: after the error the copying starts all the same.
ServeErrorGoesOn ==
    /\ agent = "serve"
    /\ agent' = "copy"
    /\ up' = Written(up, "error")
    /\ remote' = "open"
    /\ upstream' = "run"
    /\ UNCHANGED <<server, closed, cut, down, browserVars, remoteSent,
                   remotePassed, remoteGot, stopped>>

\* Written into the tunnel, instead of what the remote server has to say: the
\* handshake callback or the dial failed.
ServeError ==
    /\ agent = "serve"
    /\ agent' = "end"
    /\ up' = Written(up, "error")
    /\ closed' = closed \cup {"agent"}
    /\ UNCHANGED <<server, upstream, cut, down, browserVars, remoteVars>>

Serve ==
    /\ agent = "serve"
    /\ agent' = "copy"
    /\ remote' = "open"
    /\ upstream' = "run"
    /\ UNCHANGED <<server, tunnel, browserVars, remoteSent, remotePassed,
                   remoteGot, stopped>>

-----------------------------------------------------------------------------
(* The agent: WebsocketHandler.ServeHTTP *)

\* Mutants of FromRemoteEnds: what is unread is given up; the tunnel stays open.
FromRemoteEndsEarly ==
    /\ agent = "copy"
    /\ remote = "closed"
    /\ closed' = closed \cup {"agent"}

FromRemoteEndsOpen ==
    /\ agent = "copy"
    /\ remote = "closed"
    /\ remotePassed = remoteSent
    /\ UNCHANGED closed

\* A read from the remote server or a write into the tunnel fails: ReadFrom
\* returns, and ServeWebSocket closes the tunnel.  Nobody closes the remote
\* connection, and the other goroutine is not told.
FromRemoteEnds ==
    /\ \/ agent = "copy" /\ remote = "closed" /\ remotePassed = remoteSent
       \/ agent = "write" /\ Severed
    /\ closed' = closed \cup {"agent"}

CopyEnds ==
    /\ FromRemoteEnds
    /\ agent' = "end"
    /\ UNCHANGED <<server, upstream, cut, down, up, browserVars, remoteVars>>

ReadFromRemote ==
    /\ agent = "copy"
    /\ remotePassed < remoteSent
    /\ agent' = "write"
    /\ UNCHANGED <<server, upstream, tunnel, browserVars, remoteVars>>

CopyFromRemote ==
    /\ agent = "write"
    /\ Returns(up)
    /\ agent' = "copy"
    /\ remotePassed' = remotePassed + 1
    /\ up' = Written(up, FromRemote[remotePassed'])
    /\ UNCHANGED <<server, upstream, closed, cut, down, browserVars, remote,
                   remoteSent, remoteGot, stopped>>

ReadForRemote ==
    /\ upstream = "run"
    /\ "agent" \notin closed
    /\ down # <<>>
    /\ upstream' = "write"
    /\ UNCHANGED <<server, agent, tunnel, browserVars, remoteVars>>

\* The write to a remote server that has closed: accepted and lost, or failed.
CopyToClosed ==
    /\ upstream = "write"
    /\ remote = "closed"
    /\ down' = Tail(down)
    /\ upstream' \in {"run", "end"}
    /\ UNCHANGED <<server, agent, closed, cut, up, browserVars, remoteVars>>

\* The read from the tunnel fails.  The other goroutine is not told: it reads on
\* from the remote server.
CopyToRemoteEnds ==
    /\ upstream = "run"
    /\ "agent" \in closed \/ (down = <<>> /\ Severed)
    /\ upstream' = "end"
    /\ UNCHANGED <<server, agent, tunnel, browserVars, remoteVars>>

-----------------------------------------------------------------------------
(* The server: keepConnection of the tunnel *)

\* Login: the handover succeeds only while DoRequest waits, and while the agent
\* is still registered.
Login ==
    /\ handler = "login"
    /\ ~cut
    /\ \/ /\ request = "wait"
          /\ request' = "tunnel"
          /\ handler' = "grant"
          /\ writer' = "run"
       \/ /\ handler' = "refuse"
          /\ UNCHANGED <<request, writer>>
    /\ UNCHANGED <<broken, agent, upstream, tunnel, browserVars, remoteVars>>

ReceiveFails ==
    /\ handler = "login"
    /\ cut \/ "agent" \in closed
    /\ handler' = "end"
    /\ closed' = closed \cup {"server"}
    /\ UNCHANGED <<request, writer, broken, agent, upstream, cut, down, up,
                   browserVars, remoteVars>>

\* Mutant of Reply: as for other logins, a refusal has no reply.
ReplyToGrant ==
    /\ handler \in {"grant", "refuse"}
    /\ handler' = "end"
    /\ down' = IF Severed \/ handler = "refuse" THEN down
               ELSE Append(down, "ack")
    /\ UNCHANGED <<request, writer, broken, agent, upstream, closed, cut, up,
                   browserVars, remoteVars>>

\* The send may fail; keepConnection does not close the tunnel.
Reply ==
    /\ handler \in {"grant", "refuse"}
    /\ \/ /\ ~Severed
          /\ handler' = "end"
          /\ down' = Append(down, IF handler = "grant" THEN "ack" ELSE "nack")
       \/ /\ handler' = IF Severed THEN "end" ELSE "failed"
          /\ UNCHANGED down
    /\ UNCHANGED <<request, writer, broken, agent, upstream, closed, cut, up,
                   browserVars, remoteVars>>

-----------------------------------------------------------------------------
(* The server: transportDirect *)

ReadFromBrowser ==
    /\ writer = "run"
    /\ Copying
    /\ browserPassed < browserSent
    /\ writer' = "write"
    /\ UNCHANGED <<request, handler, broken, agent, upstream, tunnel,
                   browserVars, remoteVars>>

CopyFromBrowser ==
    /\ writer = "write"
    /\ Returns(down)
    /\ writer' = "run"
    /\ browserPassed' = browserPassed + 1
    /\ down' = Written(down, FromBrowser[browserPassed'])
    /\ UNCHANGED <<request, handler, broken, agent, upstream, closed, cut, up,
                   browser, browserSent, browserGot, remoteVars>>

\* Mutant of BrowserEnds: nobody is told.
BrowserEndsSilently == writer' = "end" /\ UNCHANGED broken

BrowserEnds == writer' = "end" /\ broken' = TRUE

\* The browser has left or been closed, or a write into the tunnel fails.
CopyFromBrowserEnds ==
    /\ \/ writer = "run" /\ (browser = "gone" \/ request = "done")
       \/ writer = "write" /\ Severed
    /\ BrowserEnds
    /\ UNCHANGED <<request, handler, agent, upstream, tunnel, browserVars,
                   remoteVars>>

\* The goroutine that waits for brokenConn.
ClosePortalConn ==
    /\ broken
    /\ "server" \notin closed
    /\ closed' = closed \cup {"server"}
    /\ UNCHANGED <<server, agent, upstream, cut, down, up, browserVars,
                   remoteVars>>

ReadForBrowser ==
    /\ request = "tunnel"
    /\ "server" \notin closed
    /\ up # <<>>
    /\ request' = "write"
    /\ UNCHANGED <<handler, writer, broken, agent, upstream, tunnel,
                   browserVars, remoteVars>>

\* The write to a browser that has left is accepted and lost.
CopyToGone ==
    /\ request = "write"
    /\ browser = "gone"
    /\ request' = "tunnel"
    /\ up' = Tail(up)
    /\ UNCHANGED <<handler, writer, broken, agent, upstream, closed, cut, down,
                   browserVars, remoteVars>>

\* The read from the tunnel or the write to the browser fails: transportDirect
\* returns and closes both connections.
CopyToBrowserEnds ==
    /\ \/ request = "tunnel" /\ ("server" \in closed \/ (up = <<>> /\ Severed))
       \/ request = "write" /\ browser = "gone"
    /\ request' = "done"
    /\ broken' = TRUE
    /\ closed' = closed \cup {"server"}
    /\ UNCHANGED <<handler, writer, agent, upstream, cut, down, up,
                   browserVars, remoteVars>>

-----------------------------------------------------------------------------
(* The browser, the remote server and the network *)

\* The browser takes what transportDirect has in hand, and the write returns.
BrowserTakes ==
    /\ request = "write"
    /\ browser = "open"
    /\ request' = "tunnel"
    /\ up' = Tail(up)
    /\ browserGot' = Append(browserGot, Head(up))
    /\ UNCHANGED <<handler, writer, broken, agent, upstream, closed, cut, down,
                   browser, browserSent, browserPassed, remoteVars>>

\* The same at the agent.
RemoteTakes ==
    /\ upstream = "write"
    /\ remote = "open"
    /\ upstream' = "run"
    /\ down' = Tail(down)
    /\ remoteGot' = Append(remoteGot, Head(down))
    /\ UNCHANGED <<server, agent, closed, cut, up, browserVars, remote,
                   remoteSent, remotePassed, stopped>>

BrowserSends ==
    /\ browser = "open"
    /\ Copying
    /\ browserGot # <<>>
    /\ browserGot[1] = FromRemote[1]
    /\ browserSent < Len(FromBrowser)
    /\ browserSent' = browserSent + 1
    /\ UNCHANGED <<server, agent, upstream, tunnel, browser, browserPassed,
                   browserGot, remoteVars>>

BrowserLeaves ==
    /\ browser = "open"
    /\ browser' = "gone"
    /\ UNCHANGED <<server, agent, upstream, tunnel, browserSent, browserPassed,
                   browserGot, remoteVars>>

RemoteSends ==
    /\ remote = "open"
    /\ remoteSent < Len(FromRemote)
    /\ remoteSent' = remoteSent + 1
    /\ UNCHANGED <<server, agent, upstream, tunnel, browserVars, remote,
                   remotePassed, remoteGot, stopped>>

RemoteCloses ==
    /\ remote = "open"
    /\ remote' = "closed"
    /\ UNCHANGED <<server, agent, upstream, tunnel, browserVars, remoteSent,
                   remotePassed, remoteGot, stopped>>

Cut ==
    /\ handler # "none"
    /\ ~cut
    /\ cut' = TRUE
    /\ down' = IF upstream = "write" THEN <<Head(down)>> ELSE <<>>
    /\ up' = IF request = "write" THEN <<Head(up)>> ELSE <<>>
    /\ UNCHANGED <<server, agent, upstream, closed, browserVars, remoteVars>>

\* Either process ends: the other side finds its connections closed.
AgentExits ==
    /\ agent' = "end"
    /\ upstream' = IF upstream = "none" THEN "none" ELSE "end"
    /\ closed' = closed \cup {"agent"}
    /\ remote' = IF remote = "open" THEN "closed" ELSE remote
    /\ stopped' = TRUE
    /\ UNCHANGED <<server, cut, down, up, browserVars, remoteSent, remotePassed,
                   remoteGot>>

ServerExits ==
    /\ request' = IF request \in Ended THEN request ELSE "done"
    /\ handler' = IF handler = "none" THEN "none" ELSE "end"
    /\ writer' = IF writer = "none" THEN "none" ELSE "end"
    /\ broken' = TRUE
    /\ closed' = closed \cup {"server"}
    /\ browser' = "gone"
    /\ UNCHANGED <<agent, upstream, cut, down, up, browserSent, browserPassed,
                   browserGot, remoteVars>>

-----------------------------------------------------------------------------

DoRequest ==
    \/ Select \/ Timeout
    \/ ReadForBrowser \/ CopyToGone \/ CopyToBrowserEnds

KeepConnection == Login \/ ReceiveFails \/ Reply

HttpRequest ==
    \/ Refuse \/ Connect \/ LoginReply \/ ErrorResponse
    \/ ServeError \/ Serve \/ ReadFromRemote \/ CopyFromRemote \/ CopyEnds

Upstream == ReadForRemote \/ CopyToClosed \/ CopyToRemoteEnds

Writer == ReadFromBrowser \/ CopyFromBrowser \/ CopyFromBrowserEnds

Next ==
    \/ DoRequest
    \/ KeepConnection
    \/ HttpRequest
    \/ Upstream
    \/ Writer
    \/ ClosePortalConn
    \/ AgentExits \/ ServerExits
    \/ BrowserTakes \/ BrowserSends \/ BrowserLeaves
    \/ RemoteTakes \/ RemoteSends \/ RemoteCloses
    \/ Cut

Spec == Init /\ [][Next]_vars

\* Every goroutine runs where it can; nothing is asked of browser, remote and
\* network, so that a write to either end may wait for ever.
Fairness ==
    /\ WF_vars(DoRequest)
    /\ WF_vars(KeepConnection)
    /\ WF_vars(HttpRequest)
    /\ WF_vars(Upstream)
    /\ WF_vars(Writer)
    /\ WF_vars(ClosePortalConn)

FairSpec == Spec /\ Fairness

-----------------------------------------------------------------------------
(* Properties *)

\* What the ends themselves may promise: to take what is written to them while
\* they are connected.
BrowserListens == WF_vars(BrowserTakes)

RemoteListens == WF_vars(RemoteTakes)

\* The tunnel carries the two byte streams and nothing else: no login frame ends
\* up in the stream to the remote server although the reply is sent while
\* transportDirect already copies, nothing is swapped, and no hole is followed
\* by later bytes, whoever closes what.
TunnelIsTransparent ==
    /\ IsPrefix(remoteGot, FromBrowser)
    /\ IsPrefix(browserGot, FromRemote) \/ browserGot = <<"error">>

\* A browser that only listens receives everything the remote server said before
\* it closed: the teardown, which runs from the agent to the server and back,
\* overtakes no bytes.  (A browser that writes after the agent has closed may
\* lose some: the failed write makes the server close the tunnel.)  An agent that
\* ends leaves out what it has not passed on, and only that.
ListenerMissesNothing ==
    request = "done" /\ browser = "open" /\ browserSent = 0 /\ ~cut =>
        IF remote = "none"
        THEN browserGot = <<"error">> \/ (stopped /\ browserGot = <<>>)
        ELSE browserGot = SubSeq(FromRemote, 1,
                                 IF stopped THEN remotePassed ELSE remoteSent)

\* The agent gets an answer to the tunnel's login, or the end of its connection,
\* without a deadline: unless the reply could not be sent over a connection that
\* goes on.  (Then the agent waits for ever.)
LoginEnds == agent = "login" ~> agent # "login" \/ handler = "failed"

\* A browser that leaves takes DoRequest, both copies to and from the tunnel and
\* the agent's copy to the remote server with it, wherever the handover is, if
\* the remote server reads.  (One that does not may hold up the agent's copy to
\* it, then the tunnel, then the copy that would see the browser's end.)  The
\* agent's copy from the remote server may stay.
BrowserGoneEndsRequest ==
    RemoteListens =>
        (browser = "gone" ~> [](/\ request \in Ended
                                /\ writer \in {"none", "end"}
                                /\ upstream \in {"none", "end"}))

\* A remote server that closes ends all four copies and both ends of the tunnel,
\* if the browser reads.  (One that does not may hold up the copy to it, then
\* the tunnel, then the copy that would see the remote server's end.)
RemoteClosedEndsAll ==
    BrowserListens =>
        (remote = "closed" ~> /\ request \in Ended
                              /\ writer = "end"
                              /\ upstream = "end"
                              /\ closed = {"agent", "server"})

\* What is left when one looks at the two ends only.
Streams == INSTANCE Duplex

\* However its goroutines, its two connections and the login that shares one of
\* them go on or end, the tunnel behaves like Duplex: it invents, swaps, repeats
\* and skips nothing, and delivers nothing before it was sent.
DuplexSpec == Streams!Spec

=============================================================================
