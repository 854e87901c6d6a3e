# http_portal in TLA+

http_portal lets a browser reach HTTP servers behind NAT. An **agent**
(`portal`, `portal_agent`) inside the private network dials the **portal
server** (`portal_server`) and logs in under a name. The server looks up the
name that a request's host belongs to, sends the request over the agent's
connection, and the agent answers in one or more response frames. Websocket
requests get a TCP connection of their own, which the agent dials back.

This directory holds TLA+ models of that program, the TLC runs that check them
on small instances, and TLAPS proofs of their safety properties for all
instances. All references of the form `file:line` are to the Go source.

Contents: [the system](#the-system) · [the models](#the-models) ·
[the runs](#the-runs) · [what the runs found](#what-the-runs-found) ·
[fairness](#fairness) · [the proofs](#the-proofs) ·
[checked but not proved](#checked-but-not-proved) ·
[not modelled](#not-modelled)

## The system

### Components

| component | state | operations | correct when |
|---|---|---|---|
| **Client registry** `client_manage.go` | `PortalManager.clients`; per client `IsLogin`, `IsWebsocket`, `LastBeat`, `Quit` | `Add`, `Remove`, `Get`, `ClearAll`, `Close`, one `checkOnline` goroutine per `Add` | one live connection per name; a silent client is dropped; nobody closes somebody else's connection |
| **Connection handlers** `proxy_server.go:263-424` | per connection: the loop, its `WaitGroup` of replies | `accept`, `handleRawConn`, `keepConnection`, `processMsg`, `Login`, `Heartbeat`, `SendHttpResponse`, deferred clean-up, `Stop` | every connection that ends is closed and leaves the table; handlers end |
| **Request/response exchange** `proxy_server.go:109-191`, `net.go:162-193`, `portal.go:341-393` | `MessageReceiver.Seq` and `.requests`; the local state of each `DoRequest` and of each `httpRequest` goroutine | `PrepareRequest`, `SendResponse`, `DeleteSeq`, send, select, timeout, write to the browser | each browser gets the response to its own request, in order, and every request ends |
| **Response writer** `portal.go:440-600` | `buf`, `bufLen`, `firstSend` | `Write`, `ReadFrom`, `growBuf`, `Flush` | no byte lost or repeated, no slice out of bounds, frames below the receive limit |
| **Frame transport** `net.go:47-160` | the deadlines of a `net.Conn`, the `sendLock` in the context | `Send`, `Receive` | frames are whole; a call ends by its deadline |
| **Agent session** `portal.go:88-320` | `p.conn`, `p.status`, `p.lastTransfer`, its own `MessageReceiver` | `connect`, `login`, `heartbeatLoop`, `recoverHeartbeat`, `receive` | a lost connection leads back to a logged-in one |
| **Websocket tunnel** `websocket.go`, `portal_agent/handler.go:95-`, `proxy_server.go:193-` | the dedicated connection, the two copying goroutines | `websocketProxy.Connect`, login with `RespSeq`, `transportDirect` | the two streams reach their ends unchanged, and the goroutines end |
| **HTTP front end** `http_server.go` | the `http.Server`; one handler per request | `serveHTTP`: depth counter, headers, body; `runHttpServer` | requests that run in a circle are stopped, and unwind |
| **Agent request handler** `portal_agent/handler.go` | none | `RequestHandler`: sends a request on with the headers it came with, relays the answer | a failure never becomes a success |
| **Acceptor** `proxy_server.go:39-107` | the listener, `ctx` | `Start`, `accept`, `listen`, `Stop` | the server goes on accepting until it is stopped |
| **Server process** `portal_server/main.go`, `core/signal.go` | where `main` and the signal's goroutine are | `main`, `CatchExitSignal` | a signal ends the process |
| Logging, generated messages, parsing of configuration | none that other parts read | | |

### How they interact

* **Shared state.** `clients` is guarded by `PortalManager.mux`, one critical
  section per operation. `LastBeat`, `IsLogin`, `IsWebsocket` are written by a
  connection's handler, by every `DoRequest` that uses the client, and read by
  the watcher, without a lock. `MessageReceiver.requests` is a `sync.Map` used by
  all `DoRequest`s of a client and by its handler. On the agent `p.conn` is
  written by the heartbeat loop and read by every goroutine that answers.
* **Messages.** Frames over one TCP connection per session: request frames
  down, response frames, logins and heartbeats up. A sequence number ties a
  response to its request. Nothing ties it to the connection the request
  came by.
* **Deadlines.** A `net.Conn` has one deadline, which every `Send` sets and every
  `Send` and `Receive` clears, whoever else is using it.
* **Channels.** `SendResponse` hands a frame over an *unbuffered* channel with a
  `default`: a frame is lost unless `DoRequest` is parked in its select.
  `Quit` is closed by `Close`, and a second `close` panics.

### What is hard

Everything happens in goroutines that interleave freely: handlers, replies,
watchers, requests and responses. `Remove` goes by name, while its caller means
a connection. A login that is being served races the removal of the same
connection. Answers may come before the request waits for them, after it has
timed out, or over the next connection. A send may fail half way through a
frame, and the reader then completes it with the frames that follow. The body of
a response may break off and is still followed by a last frame. Agents and browsers may stop at any moment without a sign, and `Stop` of
agent or server runs beside whatever the process is doing. `PROJECT.json`
lists each of these hazards with its line and the properties that cover it.

## The models

### ClientRegistry: registry and connection handlers

One variable per field (`clients`, `isLogin`, `isWebsocket`, `closed`), the
program counter of each handler (`pc`, `msg`), the number of its reply
goroutines (`replies`), a sequence of watchers per connection (one for each
successful `Add`), the progress of `Stop`, and `alive`, which is false once a
second `close(Quit)` has panicked and ended the process.

| code | model |
|---|---|
| `Add`, `Remove`, `ClearAll`, `Close` | operators of the same name, used inside the step that calls them |
| `checkOnline` | `WatcherQuits`; `WatcherSeesLapse` and, in a later step, `WatcherRemoves`: the test reads `LastBeat` outside the lock that `Remove` takes |
| `keepConnection` | `Receive`, `ReceiveError`, then one action per message: `Login`, `LoginWebsocket`, `Heartbeat`, `SendHttpResponse`; `Drain` is `wg.Wait`, `Exit` the deferred clean-up with its three branches |
| reply goroutines | `Reply` starts one, `ReplySent` is its `wg.Done` |
| `Stop` | `StopCancel`, then `StopClear` |
| `LastBeat` | `lapsed`: whether it is more than four intervals ago. `Lapse` is the passing of time; `Heartbeat` and `DoRequestBeats` are the calls of `Beat` |

Reading a message and serving it are two steps, since a connection can be
removed between them: that is how a closed connection gets registered again.

### NameTable: what the server promises about names

The abstract specification of the registry: each agent's connection is new, open,
granted its name, closed or ended, and each name has one holder or none. A name is
granted once per connection and only while nobody holds it; the connection that
loses its name is closed in that very step; an end leaves the name free if the
connection held it. It is dropped only on behalf of a connection that had the name
itself, which need not be the holder (see `registry_stale_remove`).
`ClientRegistry!TableSpec` is this specification with `Life` and `Holder` computed
from the fields: a closed connection that was added again is nobody's holder, and a
handler that returns while its connection is open or in the table would make it
`"leaked"`, which NameTable does not know. Websocket connections are left out: they
are handed to a waiting request and never get into the table.

### Exchange: requests and responses over the agent's connections

A *session* is one accepted connection with the `PortalClient` made for it.
`requests[s]` and `lastSeq[s]` are its `MessageReceiver`; `up` and `down` are the
two directions of the current connection, reliable in order while it lasts and
emptied when it breaks. A frame whose `Send` failed half way is on it with `whole`
unset. For each request `pc`, `client`, `seq`, `hand`, `head`,
`body`, `status` are the state of `DoRequest` and of its browser; `job`, `next`,
`total`, `firstSend` are the agent's `httpRequest` goroutine. A frame says which
piece it carries and, in a field the code does not have, whose response it is
(`of`), so that a property can speak of it.

A cut frame is not the end of the connection: the agent only logs the error
(`portal.go:383`), and `Receive`, which has the length from the intact prefix, fills
the rest of the body from the frames that follow (`net.go:136`). What comes of
that depends on where the cut is. In the header or in the fields before
`HttpResponse.body` the frame does not parse; the error is temporary and the frame is
dropped. Inside the body it does parse: DoRequest gets a piece that ends in bytes of
other frames, and `not_finish`, which follows the body, may be among what is gone, so
that the piece may count as the last. A frame that is the last says nothing
there and stays the last. `ReceiveCut` has all of these outcomes, and `Remainders` all
of the places where the reader may find itself afterwards: in front of a whole
frame, or inside one (`Rest`), where the begin flag is wrong and `keepConnection`
closes the connection (`ReceiveRest`). Cut requests on their way to the agent
are treated alike, except that its `receive` loop, which may give up, gets no fairness.

| code | model |
|---|---|
| `LocalPortal.connect`, server login | `Connect`, `Login`; `session` is `p.conn` from `Connect` on, for the goroutines of earlier requests as well |
| TCP connection lost | `Break` (external) |
| `PrepareRequest` | `Prepare`, together with `manager.Get`; `NotFound` without a client |
| `client.Send` in `DoRequest` | `SendRequest`, `SendRequestFails`, where a failing send may leave a cut frame |
| the `select` of `DoRequest` | `Select` parks the goroutine; `Timeout` is `rcvCtx.Done()` |
| the handling of a frame | `WriteBody`, `WriteFails`, `BadGateway`, `WriteHeaderPanics` |
| `DeleteSeq` (deferred) | part of every end, in `Return` |
| `SendHttpResponse`, `SendResponse` | `ReceiveFrame`: one of `Takers` gets the frame, else it is dropped |
| `Receive` on a cut frame | `ReceiveCut`, `ReceiveRest`; `ReceiveCutRequest` at the agent |
| `httpRequest`, `ReadFrom`, `Flush` | `StartJob`, `SendPiece`, `SendPieceFails`, `UpstreamFails`, `SendLast`, `SendLastFails`, `SendError`; `WriteFailed` is a `Send` that fails before, or in the middle of, a frame |

`WriteHeaderPanics` deserves a word. Only the first frame of a response carries
status and header. If it is lost (dropped before the request is in its select, or
gone with a send that failed after `firstSend` was cleared), the next frame has
status 0, and `w.WriteHeader(0)` panics; `net/http` recovers and drops the
browser's connection. The model ends such a request as `"aborted"`.

### ResponseStream: what the browser is promised

The abstract specification of the answers: a header with the first piece of a
response, later pieces in the order the upstream produced them, each at most
once, then one end, and nothing after it. A request gets one of the agent's
connections, and the pieces are of its own response or of requests that used an
*older* connection; with one connection it is simply the response to the request.
All this is said of pieces that arrived whole. On a connection on which a frame was
cut (`spoilt`), a piece may have bytes of other frames for its end, and then it may
come a second time, from the last flush, which repeats the buffer.
It does not promise that no piece is missing, because the code does not (see the
violations below). `ExchangeLoss!StreamSpec` is this specification of the variables
of the same names, with `cuts` for `spoilt`.

### ExchangeLoss: when is an answer incomplete without a sign

Exchange with two history variables: `lost`, the requests whose response has lost a
piece that nobody is told about, and `cuts`, the connections on which a response
frame was cut. Two steps add to `lost`: `BodyCut`, where the agent's `ReadFrom`
returns before the end of the body, and `PieceDropped`, where a frame reaches a server
whose `DoRequest` is not waiting. `OkIsWhole` says that there are three ways for
an answer to be incomplete without a sign, these two and a cut frame on its
connection, and no fourth: every other answer that ends with success and contains its
own response only contains all of it, whatever breaks. `StraysAreFromOldSessions`
says where pieces that do not belong come from: whole ones from a request that used
an older connection, bytes at the end of one only from a cut on the connection
itself.

### ResponseWriter: the agent's buffer

`bufCap`, `bufLen` and the `hasSend` local of `ReadFrom`, counters `produced` and
`sent` of bytes that went in and out, the length of the last frame, and the
error that ended the handler. The handler is any `http.Handler`: it mixes `Write`
and `ReadFrom`, and returns at the first error. `Grown`, `TooLarge` and `End` are
`growBuf` and the cap of `ReadFrom`'s slice; a flush may fail and then keeps the
buffer, as the code does; `LastFlush` is `Flush(true)` of `httpRequest`.

### AgentSession: how the agent stays logged in

`conn`, `status`, `failed`, `recent` are `p.conn`, `p.status`, `failedTime` and
whether `lastTransfer` is less than an interval ago. `pc` and `await` say where
`Run` is and which request it sent last; `reader` is one receive goroutine per
dialled connection; `link` is what became of a connection; `handler`, `isLogin`,
`holder` are the server's side of it. At most one request of the agent's waits
at a time and sequence numbers never repeat, so instead of numbers a frame says
whether its request still waits (`live`).

| code | model |
|---|---|
| `Run`, `heartbeatLoop` | `Tick`, `Elapse`; `Ended` is what follows a `heartbeat()`: counting the failures, closing `p.conn` after five |
| `connect` | `Connect`, `ConnectFails`; the first is followed by a login, a later one by a heartbeat that the server answers NotLogin |
| `login`, `heartbeat` | `Send`, `SendFails`, `SendTimesOut`, `Select`, `Timeout`, `Answered` (`LoggedIn` for a login) |
| `receive` | `Deliver`, `DeliverEarly` (`SendResponse` finds nobody at the select), `ReadFails`, `ReadTimesOut`, `Wake` (the next `Receive` reads `p.conn` as it is by then), `Garble` (two goroutines on one connection) |
| `httpRequest` setting `lastTransfer` | `HttpAnswer` |
| `Stop` | `StopCancel`, then `StopClose`; `LoopEnds` is `heartbeatLoop` seeing `ctx`, `Loop` the receive goroutines' look at it |
| server | `Serve` with `ServerReply` (a login that `Add` refuses has no reply), `HandlerEnds`, `CheckOnline` |

What the network and the schedulers may do against the agent costs a *fault*:
break a connection, refuse to dial, let a timer win a race, drop a working
client. A run has `MaxFaults` of them, at any points. What follows from one,
such as a login that is refused because the server has not noticed yet that the
old connection is gone, costs nothing and may last. `Stop` counts as two, which
keeps the instance small: a run with three faults has one `Stop` and at most one
other. It cancels in one step and closes the `p.conn` of a later moment in another,
with `connect` free to dial a new one in between.

### WebsocketTunnel: one websocket request

Every goroutine that has a part in it: `request` is `DoRequest` and then the main
loop of `transportDirect`, `writer` its copy from the browser, `ClosePortalConn`
the one that waits for `brokenConn`; `handler` is `keepConnection` of the
tunnel; `agent` is `httpRequest` and then `ServeWebSocket` with its copy from the
remote server, `upstream` the other copy. `down` and `up` are the bytes in the
tunnel, `closed` the ends that are closed. Messages stand for stretches of bytes.

| code | model |
|---|---|
| `handleWebsocketRequest` | `Refuse`, `Connect`, `LoginReply`, `Serve`, `ServeError` |
| `portalService.Login` with `RespSeq` | `Login`: in one step with the waiting `DoRequest`, since the channel is unbuffered |
| reply goroutine of `keepConnection` | `Reply` |
| `transportDirect` | `ReadForBrowser`, then `BrowserTakes`, `CopyToGone` or `CopyToBrowserEnds`; `ReadFromBrowser`, then `CopyFromBrowser` or `CopyFromBrowserEnds`; `ClosePortalConn` |
| `WebsocketHandler.ServeHTTP` | `ReadFromRemote`, then `CopyFromRemote` or `CopyEnds`; `ReadForRemote`, then `RemoteTakes` or `CopyToClosed`; `CopyToRemoteEnds` |
| the end of either process | `AgentExits`, `ServerExits` |

A copy is two steps, a read and a write with the message in hand, because the write has
no deadline. One into the tunnel waits while the tunnel is full (`Window`, with what
its reader has in hand); one to the browser or to the remote server is finished by
that end (`BrowserTakes`, `RemoteTakes`), maybe never. A goroutine that waits in a
write notices nothing of what happens elsewhere, so a browser or a remote server that
stays connected and stops reading can keep the whole tunnel from ending. The
goroutine in `handler.go:140-148` that waits for the request's context has no
action: `parseHttpRequest` discards what `WithContext` returns (`portal.go:471`), so
the context is never done, and `LocalPortal.Stop` reaches no tunnel; only the end of
the process does.

Browser, remote server and network (`Cut`) may do as they like, except that the
browser speaks only after the 101, which comes from the remote server through
the tunnel. Handshake callbacks may fail, as the interface allows, although
the one of `portal_agent` never does.

### Duplex: what a websocket request promises its two ends

The abstract specification of the tunnel, of which it sees nothing: browser and
remote server speak, either hears a prefix of what the other has said, and the
browser speaks only after the 101; or the browser hears an error, and then the
remote server has neither spoken nor heard anything. `WebsocketTunnel!DuplexSpec`
is this specification of the variables of the same names.

### FrameConn: one end of a connection

Any number of `core.Send` calls and the one goroutine that calls `core.Receive`
in a loop, piece by piece: a frame is `Pieces` pieces, the first of which holds
the begin flag. `pc`, `lock`, `wrote` are the senders and the `sendLock`; `out` is
what the peer has not read; `rcv`, `pos`, `in` are the receiving loop. `deadline`
says *whose* deadline the connection has, so that the properties can tell a call
that is ended by its own from one that is ended, or saved, by another's. `cut` and
`lost` remember that a frame was left half way, in either direction.

| code | model |
|---|---|
| `Send`, in the order of its calls | `SetDeadline`, `MarshalFails`, `Lock`, `Write` (once per piece), `WriteFails`, `Unlock`, `ClearDeadline` |
| `Receive` and the loop around it | `ReceiveStart` clears the deadline, `Read`, `ReadTimesOut` (temporary: the loop goes on with a new frame), `ReadFails` |
| the passing of a deadline | `Due` |
| peer and others | `PeerReads`, `PeerSends`, `PeerCuts` (its own `Send` failed inside a frame), `Close` (external) |

### PortalServer: the process, and requests that run in a circle

`main`, `stopped`, `listener`, `acceptor`, `catcher`, `http` say where `main`,
`ProxyServer.ctx`, the acceptor, the goroutine of `CatchExitSignal` and the
`http.Server` are; `fault` remembers that the operating system refused a listener
or failed an accept for good. `hops` is the chain of one browser's request: when
the host that an agent sends a request on to leads to the portal again, the
request becomes a new hop. `via` says where each host leads: any routing at all.

| code | model |
|---|---|
| `main`, `Start`, `runHttpServer` | `Start`, `CatchExitSignal`, `ListenAndServe`, `ListenAndServeReturns` |
| `ProxyServer.Stop` | `Stop`, three steps in the order of the code |
| `CatchExitSignal` | `Signal` (lost when nobody waits: the channel has no buffer; deadly before `Notify`), `Catch` |
| `accept` | `AcceptFails`, `Sleep`, `AcceptAfterFailure`, `HandleNilConn` |
| `httpHandler.serveHTTP` | `Request`, `Refuse`, `DoRequest`, and the ends of `DoRequest` it sees: `Respond`, `Timeout`, `Cancelled`; `Onward` is the headers it gives the request, one deeper and with the host's name |
| an answer that does not reach `DoRequest` | `AnswerLost`: `SendResponse` drops the frame (`net.go:185`), or the agent's `Send` failed |
| `RequestHandler.serveHTTP` of the agent | `Forward` (passes the headers on as they are), `AskOther`, `Relay`, `GiveUp` |

### How the models fit together

ClientRegistry decides which connection a name stands for; Exchange takes over
where `manager.Get` has returned one and abstracts the registry to `link = "up"`.
ResponseWriter decides how a body is cut; Exchange takes the resulting pieces,
the failures of their sends and the repeated last flush. None assumes of another
more than this: in Exchange a session may break at any step, whatever the
registry does, and a response has any number of pieces up to the bound.
AgentSession contains as much of the registry as the agent can notice (who holds
the name, and `Remove` by name), for one agent; what it promises, an agent that
comes back, is what Exchange's repeated `Connect` and `Login` suppose.
WebsocketTunnel starts where Exchange's `StartJob` would find a websocket request,
and ClientRegistry shows what the tunnel's connection means to the table.
FrameConn is below all of them: `FramesAreWhole` is why the others may take a
`Send` for one step that puts a whole frame on the wire or, failing, a cut one,
and the exceptions in `WriteEndsByDeadline` are why no reply on an
open connection gets fairness in ClientRegistry. PortalServer is above them: what
it takes for one step, `DoRequest` to `Respond`, is what Exchange models, and its
`Stop` surrounds that of ClientRegistry with the steps of `main` before it.

## The runs

| run | instance | shows |
|---|---|---|
| `registry_safety` | 2 agent connections and 1 websocket connection of one name, 1 reply at a time (520k states) | `TableSpec` (refinement), `OpenSessionIsRegistered`, `RegisteredIsWatched`, `PanicNeedsReAdd` under every interleaving of handlers, watchers, replies and `Stop` |
| `registry_live` | 2 agent connections (54k states), fair | `SilentClientIsDropped`, `ClosedSessionEnds` |
| `registry_stale_remove` | 2 agent connections | violation of `RemovedForOwnReason` |
| `exchange_safety` | 2 requests, 2 sessions, responses of up to 3 and 2 frames, with `lost` and `cuts` (3.5M states) | `StreamSpec` (refinement), `TableMatchesWaiters`, `StraysAreFromOldSessions`, `OkIsWhole` |
| `exchange_session` | 2 requests, 1 session, 2 frames (219k states), fair | `FramesDrain`, `RequestTerminates` |
| `exchange_crosstalk`, `exchange_cut` | 2 requests, 1 request | violations of `ResponseToOwner`, `OkMeansComplete` |
| `writer` | limit 4, reads and writes of 2, receive limit 7, other fields of 1, bodies up to 12, pooled buffers of 0 to 20 bytes (6.8k states) | `BytesConserved`, `RoomIsThere`, `FramesFit`, `NeverSpins` |
| `agent_session` | 2 connections at a time, 3 faults, 2 unread frames (995k states), fair | `OkMeansLoggedIn`, `AbandonedIsBroken`, `Recovers` |
| `tunnel` | 3 messages either way, 2 in the tunnel (73k states), fair | `DuplexSpec` (refinement), `ListenerMissesNothing`, `BrowserGoneEndsRequest`, `RemoteClosedEndsAll`, `LoginEnds` |
| `frame_conn` | 2 senders, frames of 2 pieces, 2 pieces on their way to the peer and 1 from it (189k states), fair | `FramesAreWhole`, `IdleIsUnarmed`, `KeepsItsPlace`, `WriteEndsByDeadline`, `SendEnds` |
| `portal_server` | 2 hosts with every routing, depth limit 1, 3 kinds of request (299k states), fair | `ChainIsBounded`, `OnlyFaultsPanic`, `CircleUnwinds`, `SignalEnds` |

Every passing run but the two liveness runs of a module whose types another run
checks (`registry_live`, `exchange_session`) checks `TypeOK` as well.

**Bounds.** One name is enough, since connections of different names touch
different entries of the table and share nothing else. Two connections are what it
takes for one to be mistaken for the other; a third one would have to wait for a
free name just like the second. `MaxReplies = 1` makes a handler wait for its
reply before it receives again, which orders nothing else; the proofs hold for
any bound. In Exchange two requests can share a session, use one each, or the
second can meet frames of the first; two sessions give a request that outlives
its connection; three frames give a piece that is neither first nor last, which is what
it takes to lose one unnoticed, and one response at a time has so many (`OneLong`): the
pieces of the other have to be strays, or what completes a cut frame, and two do for
that. Without that bound the run passes as well, with 6.6M states. The liveness run
makes do with two pieces: its properties do not look at them. The
sizes of ResponseWriter are scaled down, in the order they have in the code
(reads < limit < receive limit, `portal.go:21-22`, `net.go:22`), the receive limit being
the smallest for which `SizesFit`, so that a frame may be as large as it but no
larger, and the pool holds buffers below, at and beyond each. In AgentSession a connection can be
taken again once both ends forgot it, so two of them allow any number of
reconnects, with at most one old connection around at each; three faults are
enough for one that loses the connection, one that spoils the way back and one
that leaves both goroutines on the new connection. The real limit of five
failures is kept. In WebsocketTunnel three messages give one that is
neither the 101 nor the last, and with a window of two they fill the tunnel and
leave one whose write has to wait. In FrameConn two senders are enough for one to set
or clear the deadline of the other; two pieces give a frame an inside, and a
window of two lets a writer be stopped before, inside and after one. In
PortalServer two hosts give a circle of one host and one of two, and with a depth limit
of one a request still comes back to the host it started from; the
limit, 3 in the code, only says after how many turns the circle is left, and the
requests are one without a depth header, one that names its own host and one that
is already at the limit. The proofs hold for any of these numbers.
`SYMMETRY` permutes connections or requests that play the same part, in the
two runs without liveness that list it.

Deadlock checking is off in all runs: a server without agents, a stopped
server, a request that is served, a tunnel that has ended, a closed connection
and an agent whose `Run` has returned rest for good.

**Mutants.** Every property of a passing run has a mutant definition beside the
one it changes (for example `RemoveKeepingConn` beside `Remove`): a plausible
slip in that function which makes TLC find the property violated. The list is in
`PROJECT.json`.

### What the runs found

Three runs are counterexamples to something the code or a comment says:

* `registry_stale_remove`. A watcher saw its connection lapse; before it
  gets to `Remove(client.Name)` that connection ends, is cleaned up, and the
  agent logs in again; `Remove` then closes the new connection
  (`client_manage.go:68`).
* `exchange_crosstalk`. The agent still answers request 1 of its old connection,
  over `p.conn`, which is the new connection by now; request 2 is number 1 there
  too, and its browser gets the answer to request 1 (`net.go:172`,
  `portal.go:392`). `StraysAreFromOldSessions` and `StreamSpec` say that a
  reconnect is the only way for a whole piece to go astray.
* `exchange_cut`. The upstream body breaks off, `ReadFrom` returns, and
  `Flush(true)` marks the rest as the end of a complete response
  (`portal.go:363-365`).

Other behaviours contradict no comment, so they are not counterexamples to
anything. The properties are stated to leave exactly these out, and they are worth
knowing:

* A frame that arrives while `DoRequest` still writes the one before it is dropped,
  and the answer can end with status OK and a hole (`net.go:181`). This is why
  ResponseStream promises order and not completeness. `OkIsWhole` says that it is,
  with the body that breaks off (`exchange_cut`) and the frame that is cut (next), the
  only reason.
* A `Send` of the agent that times out inside a frame leaves the connection open
  (`portal.go:383`), and the server completes the frame from the ones that follow
  (`net.go:136`): a browser can get bytes of other answers at the end of a piece, the
  same piece again, or an answer that ends there with status OK. The properties of
  Exchange name the connections on which that has happened (`cuts`).
* `DoRequest` may lose the only frame of an answer that comes before it waits
  (`net.go:185`) and then sits out `ReceiveResponse`: in a chain of portals this is the
  one case in which `CircleUnwinds` needs a timer.
* A browser that stays connected and stops reading blocks `transportDirect` for good
  (`proxy_server.go:243`), and with a full tunnel the agent's copy behind it; a remote
  server that stops reading does the same in the other direction (`handler.go:151`,
  `proxy_server.go:225`). After `Hijack` nothing else watches the browser. These are
  the hypotheses `BrowserListens` and `RemoteListens` of the tunnel's liveness.
* A tunnel whose login is refused is closed by neither end (`proxy_server.go:312`,
  `websocket.go:49`). A login whose reply cannot be sent over a connection that
  goes on waits for ever (`websocket.go:68`): the exception in `LoginEnds`.
* After the browser has left, the agent keeps reading from a quiet remote server,
  whose connection nobody closes (`handler.go:140-148`).
* A `Send` whose deadline another call has cleared may wait for a peer that does not
  read until the connection is closed, with the lock in its hands (`net.go:52`):
  the exceptions in `WriteEndsByDeadline` and `SendEnds`.
* `LocalPortal.Stop` closes the `p.conn` of its moment; one that `connect` is just
  dialling stays open until the process ends, since `connect` does not look at
  `ctx` (`portal.go:107`). Before the first connection `p.conn` is nil, and `Stop`
  panics.
* An acceptor that has listened again after a fatal error goes on with the nil
  connection of the failed call and panics (`proxy_server.go:105`).
* A signal that comes while nobody waits at the unbuffered channel is lost
  (`signal.go:15`): `SignalEnds` speaks of one that was received.

## Fairness

* **Registry.** A handler that can serve, drain or clean up does so; a read or a
  write on a *closed* connection fails; the ticker and `Quit` wake a watcher. These
  are goroutines that are runnable and Go schedules them. A reply on an *open*
  connection gets no fairness: `core.Send` sets a deadline, but any other `Send`
  or `Receive` on the connection clears it. Peers and `Stop` owe nothing.
* **Exchange.** The receiver of the agent's connection serves what has arrived.
  It is not held up by a cut frame either: later frames and heartbeats complete it,
  the deadline of its body ends the read, or the connection ends.
  A request that was started moves on from `send`, from `sent` (runnable) and from `select`
  (the timer fires). A send ends by its deadline or when
  `checkOnline` closes the connection; an agent that goes on beating and never reads
  could hold up a `Send` whose deadline another call has cleared (see FrameConn), and
  this is excluded here. There is no fairness for `write`: a browser need not read.
  `RequestTerminates` therefore speaks of requests whose browser reads or leaves,
  and `FramesDrain` shows that the others are not held up by one that does not.
  The agent owes nothing at all.
* **Agent session.** Goroutines run, timers fire, the server serves, and both ends
  notice a connection that is gone (a read fails, or four intervals pass). The
  bound on faults is an assumption of its own: `Recovers` says what happens once
  the network lets the agent be, which is the most that can be said, since
  timers that always win keep any agent out. It includes that heartbeats
  travel faster than the write timeout, from then on.
  `Stop` gets none: its second half may come at any time or never, and `Run` ends
  all the same.
* **Tunnel.** Every goroutine that can move does. A write into a full tunnel cannot, nor
  one to an end that does not take it. The browser, the remote server, the
  network and the two processes may go on or end, and read or not: that the remote
  server reads is a hypothesis of `BrowserGoneEndsRequest`, that the browser does one of
  `RemoteClosedEndsAll`, and neither property holds without it.
* **FrameConn.** Goroutines run and time passes. `Lock` is strongly fair: Go hands
  a mutex to a waiter that starves. The peer owes nothing; `SendEnds` has its
  reading as a hypothesis.
* **PortalServer.** `main`, the signal's goroutine, handlers and agents run, and
  ordinary servers answer (in the sense that `AskOther` gets a result). There is no
  fairness for signals, for `ListenAndServe` failing, and none for the timers
  `Timeout` and `GiveUp`, with one exception: `DoRequest`'s own timer ends a wait for an
  answer that is lost. `CircleUnwinds` says that the circle needs no other.

## The proofs

All proofs are checked by TLAPS for every value of the constants. The only
assumptions are the named ones in the modules: `WsConnsType`, `NameOfType`,
`NoConnFresh` and `MaxRepliesType` (ClientRegistry), `MaxSessionsType` and
`MaxFramesType` (Exchange), `SizesType` (ResponseWriter), `ConnsFresh`,
`NoConnFresh`, `MaxFaultsType` and `MaxUnreadType` (AgentSession), `StreamsType`,
`WindowType` and `Remote101` (WebsocketTunnel), `NoneFresh`, `PiecesType` and `WindowType`
(FrameConn), `NamesFresh`, `DeepType` and `RequestType` (PortalServer). They give
constants their types; TLC evaluates them in every run.

**ClientRegistryProofs.** `IInv` strengthens the properties by what links entry,
flags and watchers: an entry holds a logged-in agent connection of that name whose
handler has not finished (`EntriesFit`); a closed connection in the table has at
least two watchers, that is, it was added again; a connection that was added twice is
closed and its handler receives no further frame (`WatchersFit`); nobody but its own handler
closes a connection that never logged in (`ClosedFit`). It is needed because
`Remove` goes by name: whether it closes an open connection, the right one, or
one closed before depends on all of this. Theorems: `SessionsRegistered`,
`SessionsCleanedUp`, `SessionsWatched`, `PanicOnlyAfterReAdd`,
`AddedTwiceAtMost`, `TypeCorrect`.

The refinement, `ImplementsNameTable`, needs one more invariant, `LoginsFit` (who is
logged in has a name of his own and was added under it), and from both the reading
of the mapping in `TableFits`: an open connection that is logged in is the holder,
a closed one holds nothing. Then each action of ClientRegistry is a step of
NameTable or a stutter. `Login` is `Grant`, or a stutter when it adds a connection
that is closed already; a removal by a watcher is `Drop`, and `Exit` is `End` or, if
somebody else holds the name by then, `EndAndDrop`; the steps of the watcher that
looks and of `Stop` that cancels show nothing to the outside.

**ExchangeProofs** has four layers, each inductive relative to the ones before:

1. `TableInv`: a request has a client from `Prepare` on and keeps it, its number is
   at most the counter of that client, numbers are unique per client *even among
   requests that are over*, and the table matches the requests that wait.
   Gives `NoChannelLeaks`, `NumbersInUseDistinct`.
2. `StrayInv`: a frame on the wire carries the number of its request
   (`WiresKnown`); so the request that takes it has the same number, and by
   layer 1 is the same request or has another client (`HandsMine`, `BodiesMine`).
   Strays come from an older connection, since numbers are never used again.
   With `CutInv`, which follows the pieces that are not whole from the `Send` that
   failed to the browser and never lets them leave a connection in `cuts`, it gives
   `StraysOnlyFromOldSessions`, and `OneSessionNoStrays`: with a single
   connection `ResponseToOwner` holds, which `exchange_crosstalk` refutes for two, and
   unless a frame was cut no piece contains anything else.
3. `JobInv`: a request frame is at most once on the wire and its job has not
   started then, so no job is restarted and `next` never falls.
4. `OrderInv`: along the path job, `up`, `hand`, `body`, the pieces of one response
   are strictly ordered at each place and between any two places. Gives
   `PiecesStayInOrder`: the browser gets them in order, none twice, although it
   is `SendLast` that repeats a piece whose first send failed. The exception is a
   piece that was cut in that first send: completed from other frames it may come
   and then come again, whole. The order is therefore strict only behind whole
   pieces (`Before`).

**ExchangeStreamProofs** adds a fifth layer and two results. `FirstPieces`: only
piece 1 carries the header, since `firstSend` is cleared by the first flush and a
retry repeats the same piece; and `AnswerInv`: an answer has an end exactly when
`DoRequest` has returned, and a header exactly when it has a piece. With layers
2 and 4 every step of ExchangeLoss is then a step of ResponseStream or a stutter (a
`Send` that cuts a frame is `Spoil`):
`ImplementsStream`, for any number of requests, connections and frames.

`OkIsWholeUnlessLost` is about the pieces that have *not* gone missing, which no
layer before speaks of. `Whole` says that at each moment every piece of a response
below the job's `next` is in the body, in the hand of `DoRequest` or on the wire, as
long as nothing was lost, no frame was cut and the request's connection lives; only
piece `total` is marked last. When the connection breaks,
what the server has not read is gone, but so is the chance that the last piece
arrives, and the answer cannot end with success any more; `PrefixArrived` is what
stays true then. On a connection with a cut frame nothing of this holds, and
nothing is claimed. Each step moves a piece from one
place to the next, and the two that do not, put the request into `lost`.

**ResponseWriterProofs.** The invariant says that `hasSend` (which decides when
`ReadFrom` flushes) equals `bufLen` (which decides where it reads to) and that the
handler always finds at most the limit in the buffer. Theorems: `TypeCorrect`, `BodyConserved`,
`SlicesInBounds`, `ReadFromNeverSpins` for all sizes; and two for sizes that leave
room. `FramesAlwaysFit` assumes `SizesFit`: buffer limit, longest `Write` and the
header with the other fields of a frame are together no more than `MaxReceiveSize`, above
which the server's `Receive` panics. The code does not enforce it: it holds because
the limits are 4 MB and 50 MB, bodies come by `ReadFrom`, and what the agent's handler
itself writes are short error texts. `ReadsAlwaysFit` assumes the same of two reads: then
`growBuf` never refuses one.

**AgentSessionProofs.** A request is live only while `Run` waits for its reply,
and while `Run` waits `p.conn` does not change (`LiveFrames`, `LiveReply`); so a
reply that is believed comes from `p.conn`, whatever became of older connections.
`Dialling` says that `Run` dials only over a connection that is closed or broken,
and needs that status `notConnect` arises in no other way. `ServerFits` is about
the server: whoever has the name was logged in and has a handler, and a connection
that was logged in and works has the name, because a removal by name breaks the
connection it takes the name from. Theorems: `BeliefIsRight`, `NoneLeftBehind`,
`EntriesHaveHandlers`, `TypeCorrect`; `Stop` at any point changes none of this.

**WebsocketTunnelProofs.** Either stream is cut in three: what has arrived at the
far end, what is in the tunnel, and what the near end has not read.
`DownFits` and `UpFits` say that the first two, one after the other, are what has
been passed on so far, with nothing missing while neither end is closed
(`Continues` states it by positions, which suits the provers better than
concatenation). `ReplyFirst` keeps the reply to the login, which goes the same
way, apart from the stream; `Phases`, `Fresh` and `BeforeRemote` say who can be
where; `EndsInOrder` says that for a silent browser the end comes from the agent
and after the bytes. Theorems: `Transparent`, `NothingMissed`, `TypeCorrect`, and
`ImplementsDuplex`, for any two streams: by `DownFits` and `UpFits` the message that
leaves the tunnel is the next one that was said, and a step inside the tunnel
changes nothing that the two ends see.

**FrameConnProofs.** `EndsWithWrote` links the stream to the writer: its last piece is
the last one the lock's holder has written, or the end of a frame. `InStep` links
the peer to the receiving loop: what has arrived continues what was read.
Both hold until a frame is left half way. `ArmedIsBusy` says that a deadline belongs
to a `Send` under way. Theorems: `WholeFrames`, `KeepsPlace`, `Unarmed`,
`TypeCorrect`, for any number of senders and any length of frames.

**PortalServerProofs.** Two invariants that share no variable. `ClosedIsStopped`: the
listener is closed only after `ctx` is cancelled, which is how `accept` tells a
stop from a failure (`FaultsPanic`). `Counted` and `OnlyAcceptedGoOn`: each hop
knows its place in the chain by its depth, and only one that was not too deep has a
successor (`BoundedChain`); `OkIsFinal` and `OkResult` carry a success through the
chain (`OkIsFromWeb`), also when portals have answered before their agents do.
`NeverAllWait` is the safety half of `CircleUnwinds`: of the hops that are not
settled, the deepest (`LastPlace`: there is one) can go on by itself, since the one
it would wait for, if any, has answered; or its agent has answered it and the answer
is lost (`MustTimeOut`), which is the only case that is left to a timer. What
remains for TLC is that fairness then makes it go on.

## Checked but not proved

Liveness (`SilentClientIsDropped`, `ClosedSessionEnds`, `FramesDrain`,
`RequestTerminates`, `Recovers`, `BrowserGoneEndsRequest`, `RemoteClosedEndsAll`,
`LoginEnds`, `WriteEndsByDeadline`, `SendEnds`, `CircleUnwinds`, `SignalEnds`) is
out of the prover's reach and stays with TLC; of `CircleUnwinds` the part without
fairness is proved. The violations are facts about one
behaviour, which TLC shows. Every other property of a passing run is also a theorem.

## Not modelled

* **Where in the bytes a frame is cut**, beyond what `ReceiveCut` tells apart. Three
  coincidences are left out: a cut inside the 12 bytes before the frame makes `Receive`
  take the frame's length from the next one, and a length above `MaxReceiveSize` ends
  the server (`net.go:118`); foreign bytes that contain the begin flag at the
  place where the reader looks for one; foreign bytes that are a well-formed field with
  another meaning, such as a second `body` or an error message.
* **Sizes.** A request body above 50 MB makes the agent's `Receive` panic
  (`http_server.go:52`, `net.go:118`): nothing but one comparison stands between
  the two, so a model would only restate it. Sizes matter where the
  buffer is managed, and there they are modelled (ResponseWriter).
* **The wrap of `Seq`.** It is an `int32`, the model counts in naturals. A wrap needs
  2^32 requests on one connection; at any bound TLC can reach it would be a
  different program.
* **A write timeout inside a heartbeat's frame.** FrameConn has it for a
  connection; AgentSession takes the break of the connection that follows as a
  fault of its own.
* **A `Hijack` that fails.** It does not on HTTP/1 connections, the only ones the
  server speaks.
* **Pure data**: the websocket configuration made from headers (`websocket.go:117`),
  rewriting of URLs and headers (but for the depth headers). The models treat a
  header as one value.
* **Configuration, flags, logging and generated messages**: read once at the start
  or written only; no state that another part depends on. The agent's `main`
  only starts `Run` and the goroutine that calls `Stop` on a signal, which AgentSession
  lets come at any time.
* AgentSession has a server of its own, which is as much of ClientRegistry
  as the agent can notice, and is not composed with it: the two together have
  more states than TLC can visit, and the interface, frames in order and
  `Remove` by name, is the same in both. So is what is proved of the two tables: a
  logged-in connection that works has the name, and an entry has a handler
  (`SessionsRegistered` and `SessionsCleanedUp` there, `BeliefIsRight` and
  `EntriesHaveHandlers` here).
