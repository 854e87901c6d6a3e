------------------------------ MODULE Exchange ------------------------------
(***************************************************************************)
(* One browser request each: ProxyServer.DoRequest sends it to the agent   *)
(* over the connection the manager gave it and waits on a channel in that  *)
(* connection's MessageReceiver; the agent runs a goroutine per request    *)
(* that answers in frames over whatever p.conn is at that time; the        *)
(* server's keepConnection goroutine reads the frames and hands each to    *)
(* the channel of its sequence number, or drops it.                        *)
(*                                                                         *)
(* The agent's connections are numbered: a session is one accepted         *)
(* connection with the PortalClient made for it.  The wire is reliable     *)
(* while the session lasts and loses everything when it breaks.  A Send    *)
(* that fails may leave the beginning of its frame on it: the reader, who  *)
(* has the frame's length, completes it from the bytes of what follows.    *)
(***************************************************************************)
EXTENDS Naturals, Sequences

CONSTANTS
    Reqs,        \* browser requests
    MaxSessions, \* bound: connections the agent makes
    MaxFrames    \* bound: frames of a response

ASSUME MaxSessionsType == MaxSessions \in Nat \ {0}
ASSUME MaxFramesType   == MaxFrames \in Nat \ {0}

Sessions == 1 .. MaxSessions

VARIABLES
    session,  \* the agent's latest connection, p.conn
    link,     \* "down", "dialed" (not logged in) or "up" (registered)
    lastSeq,  \* MessageReceiver.Seq of each session's PortalClient
    requests, \* MessageReceiver.requests: session -> requests with a channel
    down,     \* request frames on their way to the agent
    up,       \* response frames on their way to the server
    pc,       \* where DoRequest is
    client,   \* the session DoRequest got from the manager
    seq,      \* its sequence number there
    hand,     \* the frame it received last
    head,     \* w.WriteHeader was called
    body,     \* body pieces written to the browser
    status,   \* how DoRequest ended
    job,      \* where the agent's httpRequest goroutine of a request is
    next,     \* the piece of the response it sends next
    total,    \* how many there are
    firstSend \* its HttpResponseWriter.firstSend

wires == <<down, up>>
serverVars == <<pc, client, seq, hand, head, body, status, lastSeq, requests>>
agentVars == <<job, next, total, firstSend>>
vars == <<session, link, wires, serverVars, agentVars>>

-----------------------------------------------------------------------------
(* Vocabulary *)

\* A response frame: the piece it carries, whether it is the one with status
\* and header, whether NotFinish is unset; "of" is the request it answers,
\* which the code cannot see.  A frame that is not whole was cut off by a
\* failed write: the wire has its beginning only.
Pieces == [kind : {"piece"}, of : Reqs, seq : Nat, idx : 1 .. MaxFrames,
           first : BOOLEAN, last : BOOLEAN, whole : BOOLEAN]
Errors == [kind : {"error"}, of : Reqs, seq : Nat, whole : BOOLEAN]
Requests == [kind : {"request"}, of : Reqs, seq : Nat, whole : BOOLEAN]
NoFrame == [kind |-> "none"]

\* A part of a body: which piece of which response it begins with, and
\* whether bytes of other frames have taken the place of its end.
Parts == [of : Reqs, idx : 1 .. MaxFrames, whole : BOOLEAN]

Cut(f) == [f EXCEPT !.whole = FALSE]

\* The rest of a frame whose beginning went into a cut one.
Rest == [kind |-> "rest"]

\* What is left on a wire whose first frame is cut, when the reader has filled
\* it up: it has used some of the frames that follow, the last of them perhaps
\* in part, and then it will not get past the rest of that.  A read that its
\* deadline ends uses none.
Remainders(wire) ==
    {SubSeq(wire, n, Len(wire)) : n \in 2 .. Len(wire) + 1} \cup {<<Rest>>}

RequestPcs == {"idle",   \* not started
               "send",   \* got a client, prepared the request
               "sent",   \* the frame is written, not in the select yet
               "select", \* parked on the channel and the timer
               "write",  \* holding a frame, writing to the browser
               "done"}

JobPcs == {"none", "run", "flush", "done"}

Ends == {"ok", "notFound", "sendError", "badGateway", "timeout",
         "writeError", "aborted"}

Waiting(r) == pc[r] \in {"send", "sent", "select", "write"}

TypeOK ==
    /\ session \in 0 .. MaxSessions
    /\ link \in {"down", "dialed", "up"}
    /\ session = 0 => link = "down"
    /\ lastSeq \in [Sessions -> Nat]
    /\ requests \in [Sessions -> SUBSET Reqs]
    /\ down \in Seq(Requests \cup {Rest})
    /\ up \in Seq(Pieces \cup Errors \cup {Rest})
    /\ pc \in [Reqs -> RequestPcs]
    /\ client \in [Reqs -> 0 .. MaxSessions]
    /\ seq \in [Reqs -> Nat]
    /\ hand \in [Reqs -> Pieces \cup Errors \cup {NoFrame}]
    /\ head \in [Reqs -> BOOLEAN]
    /\ body \in [Reqs -> Seq(Parts)]
    /\ status \in [Reqs -> Ends \cup {"none"}]
    /\ job \in [Reqs -> JobPcs]
    /\ next \in [Reqs -> 1 .. MaxFrames]
    /\ total \in [Reqs -> 1 .. MaxFrames]
    /\ firstSend \in [Reqs -> BOOLEAN]

Init ==
    /\ session = 0
    /\ link = "down"
    /\ lastSeq = [s \in Sessions |-> 0]
    /\ requests = [s \in Sessions |-> {}]
    /\ down = <<>>
    /\ up = <<>>
    /\ pc = [r \in Reqs |-> "idle"]
    /\ client = [r \in Reqs |-> 0]
    /\ seq = [r \in Reqs |-> 0]
    /\ hand = [r \in Reqs |-> NoFrame]
    /\ head = [r \in Reqs |-> FALSE]
    /\ body = [r \in Reqs |-> <<>>]
    /\ status = [r \in Reqs |-> "none"]
    /\ job = [r \in Reqs |-> "none"]
    /\ next = [r \in Reqs |-> 1]
    /\ total = [r \in Reqs |-> 1]
    /\ firstSend = [r \in Reqs |-> TRUE]

-----------------------------------------------------------------------------
(* The connection *)

\* LocalPortal.connect: p.conn is the new connection from here on, for the
\* response goroutines of earlier requests too.
Connect ==
    /\ link = "down"
    /\ session < MaxSessions
    /\ session' = session + 1
    /\ link' = "dialed"
    /\ UNCHANGED <<wires, serverVars, agentVars>>

Login ==
    /\ link = "dialed"
    /\ link' = "up"
    /\ UNCHANGED <<session, wires, serverVars, agentVars>>

\* The connection is closed by either side or reset; what was on its way is
\* gone.  Requests that wait on the session are not told.
Disconnected ==
    /\ link' = "down"
    /\ down' = <<>>
    /\ up' = <<>>

Break ==
    /\ link # "down"
    /\ Disconnected
    /\ UNCHANGED <<session, serverVars, agentVars>>

-----------------------------------------------------------------------------
(* DoRequest *)

\* DeleteSeq and return.
Return(r, end) ==
    /\ pc' = [pc EXCEPT ![r] = "done"]
    /\ status' = [status EXCEPT ![r] = end]
    /\ requests' = [requests EXCEPT ![client[r]] = @ \ {r}]
    /\ hand' = [hand EXCEPT ![r] = NoFrame]

\* manager.Get found no client.
NotFound(r) ==
    /\ pc[r] = "idle"
    /\ link # "up"
    /\ pc' = [pc EXCEPT ![r] = "done"]
    /\ status' = [status EXCEPT ![r] = "notFound"]
    /\ UNCHANGED <<session, link, wires, client, seq, hand, head, body,
                   lastSeq, requests, agentVars>>

\* Mutant of Prepare: the counter is read, not advanced.
PrepareSameSeq(r) ==
    /\ pc[r] = "idle"
    /\ link = "up"
    /\ client' = [client EXCEPT ![r] = session]
    /\ seq' = [seq EXCEPT ![r] = lastSeq[session]]
    /\ requests' = [requests EXCEPT ![session] = @ \cup {r}]
    /\ pc' = [pc EXCEPT ![r] = "send"]
    /\ UNCHANGED <<session, link, wires, hand, head, body, status, lastSeq,
                   agentVars>>

\* manager.Get and PrepareRequest.
Prepare(r) ==
    /\ pc[r] = "idle"
    /\ link = "up"
    /\ lastSeq' = [lastSeq EXCEPT ![session] = @ + 1]
    /\ client' = [client EXCEPT ![r] = session]
    /\ seq' = [seq EXCEPT ![r] = lastSeq[session] + 1]
    /\ requests' = [requests EXCEPT ![session] = @ \cup {r}]
    /\ pc' = [pc EXCEPT ![r] = "send"]
    /\ UNCHANGED <<session, link, wires, hand, head, body, status, agentVars>>

RequestFrame(r) ==
    [kind |-> "request", of |-> r, seq |-> seq[r], whole |-> TRUE]

\* client.Send wrote the frame; the agent may answer before the goroutine
\* reaches the select.
SendRequest(r) ==
    /\ pc[r] = "send"
    /\ client[r] = session /\ link # "down"
    /\ down' = Append(down, RequestFrame(r))
    /\ pc' = [pc EXCEPT ![r] = "sent"]
    /\ UNCHANGED <<session, link, up, client, seq, hand, head, body, status,
                   lastSeq, requests, agentVars>>

\* client.Send failed: the session is gone, or its deadline passed, maybe in
\* the middle of the frame.
SendRequestFails(r) ==
    /\ pc[r] = "send"
    /\ Return(r, "sendError")
    /\ \/ UNCHANGED down
       \/ /\ client[r] = session /\ link # "down"
          /\ down' = Append(down, Cut(RequestFrame(r)))
    /\ UNCHANGED <<session, link, up, client, seq, head, body, lastSeq,
                   agentVars>>

Select(r) ==
    /\ pc[r] = "sent"
    /\ pc' = [pc EXCEPT ![r] = "select"]
    /\ UNCHANGED <<session, link, wires, client, seq, hand, head, body, status,
                   lastSeq, requests, agentVars>>

\* Mutants of Timeout: DeleteSeq is forgotten; only the first frame is timed.
TimeoutKeepingSeq(r) ==
    /\ pc[r] = "select"
    /\ pc' = [pc EXCEPT ![r] = "done"]
    /\ status' = [status EXCEPT ![r] = "timeout"]
    /\ UNCHANGED <<session, link, wires, client, seq, hand, head, body, lastSeq,
                   requests, agentVars>>

TimeoutFirst(r) ==
    /\ pc[r] = "select"
    /\ ~head[r]
    /\ Return(r, "timeout")
    /\ UNCHANGED <<session, link, wires, client, seq, head, body, lastSeq,
                   agentVars>>

\* case <-rcvCtx.Done(): ReceiveResponse passed, or the browser went away.
Timeout(r) ==
    /\ pc[r] = "select"
    /\ Return(r, "timeout")
    /\ UNCHANGED <<session, link, wires, client, seq, head, body, lastSeq,
                   agentVars>>

\* The frame says the agent could not serve the request.
BadGateway(r) ==
    /\ pc[r] = "write"
    /\ hand[r].kind = "error"
    /\ Return(r, "badGateway")
    /\ UNCHANGED <<session, link, wires, client, seq, head, body, lastSeq,
                   agentVars>>

\* A first frame that is not the response's first has status 0, on which
\* WriteHeader panics; net/http recovers and drops the browser's connection.
WriteHeaderPanics(r) ==
    /\ pc[r] = "write"
    /\ hand[r].kind = "piece" /\ ~head[r] /\ ~hand[r].first
    /\ Return(r, "aborted")
    /\ UNCHANGED <<session, link, wires, client, seq, head, body, lastSeq,
                   agentVars>>

\* Write status and header once, then the piece; the last piece ends DoRequest.
WriteBody(r) ==
    /\ pc[r] = "write"
    /\ hand[r].kind = "piece"
    /\ head[r] \/ hand[r].first
    /\ head' = [head EXCEPT ![r] = TRUE]
    /\ body' = [body EXCEPT ![r] =
                   Append(@, [of |-> hand[r].of, idx |-> hand[r].idx,
                              whole |-> hand[r].whole])]
    /\ IF hand[r].last THEN Return(r, "ok")
       ELSE /\ pc' = [pc EXCEPT ![r] = "select"]
            /\ hand' = [hand EXCEPT ![r] = NoFrame]
            /\ UNCHANGED <<status, requests>>
    /\ UNCHANGED <<session, link, wires, client, seq, lastSeq, agentVars>>

\* w.Write failed; the header may be out.
WriteFails(r) ==
    /\ pc[r] = "write"
    /\ hand[r].kind = "piece"
    /\ head[r] \/ hand[r].first
    /\ head' = [head EXCEPT ![r] = TRUE]
    /\ Return(r, "writeError")
    /\ UNCHANGED <<session, link, wires, client, seq, body, lastSeq, agentVars>>

-----------------------------------------------------------------------------
(* keepConnection: SendHttpResponse with the frame it received *)

\* The channel is unbuffered and the send has a default: the frame is taken
\* only by a request parked in its select.
Takers(f) ==
    {r \in requests[session] : seq[r] = f.seq /\ pc[r] = "select"}

Readable(wire) == wire # <<>> /\ Head(wire) # Rest

\* Mutants of ReceiveFrame: frames are processed by goroutines of their own and
\* overtake each other; the send to the channel blocks.
ReceiveAnyFrame ==
    \E i \in DOMAIN up :
        /\ up[i] # Rest /\ up[i].whole
        /\ up' = SubSeq(up, 1, i - 1) \o SubSeq(up, i + 1, Len(up))
        /\ IF link = "up" /\ Takers(up[i]) # {}
           THEN \E r \in Takers(up[i]) :
                    /\ hand' = [hand EXCEPT ![r] = up[i]]
                    /\ pc' = [pc EXCEPT ![r] = "write"]
           ELSE UNCHANGED <<hand, pc>>
        /\ UNCHANGED <<session, link, down, client, seq, head, body, status,
                       lastSeq, requests, agentVars>>

ReceiveBlocking ==
    /\ Readable(up) /\ Head(up).whole
    /\ up' = Tail(up)
    /\ \/ /\ link = "up"
          /\ \E r \in Takers(Head(up)) :
                /\ hand' = [hand EXCEPT ![r] = Head(up)]
                /\ pc' = [pc EXCEPT ![r] = "write"]
       \/ /\ \A r \in requests[session] : seq[r] # Head(up).seq
          /\ UNCHANGED <<hand, pc>>
    /\ UNCHANGED <<session, link, down, client, seq, head, body, status,
                   lastSeq, requests, agentVars>>

ReceiveFrame ==
    /\ Readable(up) /\ Head(up).whole
    /\ up' = Tail(up)
    /\ IF link = "up" /\ Takers(Head(up)) # {}
       THEN \E r \in Takers(Head(up)) :
                /\ hand' = [hand EXCEPT ![r] = Head(up)]
                /\ pc' = [pc EXCEPT ![r] = "write"]
       ELSE UNCHANGED <<hand, pc>>
    /\ UNCHANGED <<session, link, down, client, seq, head, body, status,
                   lastSeq, requests, agentVars>>

\* A cut frame is completed with what follows it on the connection.  Where it
\* no longer parses, or nobody takes it, it is dropped.  A piece cut inside
\* its body does parse: it is handed on with other bytes at the end of it.
\* NotFinish comes after the body, so that it may have been lost.
ReceiveCut ==
    /\ Readable(up) /\ ~Head(up).whole
    /\ up' \in Remainders(up)
    /\ \/ UNCHANGED <<hand, pc>>
       \/ /\ link = "up" /\ Head(up).kind = "piece"
          /\ \E r \in Takers(Head(up)), end \in {Head(up).last, TRUE} :
                /\ hand' = [hand EXCEPT ![r] = [Head(up) EXCEPT !.last = end]]
                /\ pc' = [pc EXCEPT ![r] = "write"]
    /\ UNCHANGED <<session, link, down, client, seq, head, body, status,
                   lastSeq, requests, agentVars>>

\* No frame begins where the reader is: "begin flag wrong".
ReceiveRest ==
    /\ up # <<>>
    /\ Head(up) = Rest
    /\ Disconnected
    /\ UNCHANGED <<session, serverVars, agentVars>>

-----------------------------------------------------------------------------
(* The agent *)

Start(r) ==
    /\ job' = [job EXCEPT ![r] = "run"]
    /\ \E n \in 1 .. MaxFrames : total' = [total EXCEPT ![r] = n]

\* receive starts a goroutine for the request.  It gives up where no frame
\* begins: no request gets through until the connection breaks.
StartJob ==
    /\ Readable(down) /\ Head(down).whole
    /\ down' = Tail(down)
    /\ Start(Head(down).of)
    /\ UNCHANGED <<session, link, up, serverVars, next, firstSend>>

\* A cut request is completed with what follows; if it parses, it is served.
ReceiveCutRequest ==
    /\ Readable(down) /\ ~Head(down).whole
    /\ down' \in Remainders(down)
    /\ UNCHANGED <<job, total>> \/ Start(Head(down).of)
    /\ UNCHANGED <<session, link, up, serverVars, next, firstSend>>

\* sendWithContext on p.conn.  On a broken connection a write may still
\* succeed, and is lost.
Write(f) ==
    up' = IF link = "down" THEN up ELSE Append(up, f)

\* It fails having written nothing (the deadline passed in the wait for the
\* send lock, the connection is closed), or part of the frame.  The agent logs
\* the error and keeps the connection.
WriteFailed(f) ==
    \/ UNCHANGED up
    \/ link # "down" /\ up' = Append(up, Cut(f))

Piece(r, last) ==
    [kind |-> "piece", of |-> r, seq |-> seq[r], idx |-> next[r],
     first |-> firstSend[r], last |-> last, whole |-> TRUE]

ErrorFrame(r) ==
    [kind |-> "error", of |-> r, seq |-> seq[r], whole |-> TRUE]

\* Mutants of SendPiece: the end of the body is not noticed; the buffer is not
\* reset after the send.
SendPiecePastEnd(r) ==
    /\ job[r] = "run"
    /\ Write(Piece(r, FALSE))
    /\ next' = [next EXCEPT ![r] = @ + 1]
    /\ firstSend' = [firstSend EXCEPT ![r] = FALSE]
    /\ UNCHANGED <<session, link, down, serverVars, job, total>>

SendPieceAgain(r) ==
    /\ job[r] = "run"
    /\ next[r] < total[r]
    /\ Write(Piece(r, FALSE))
    /\ firstSend' = [firstSend EXCEPT ![r] = FALSE]
    /\ job' = [job EXCEPT ![r] = "flush"]
    /\ UNCHANGED <<session, link, down, serverVars, next, total>>

\* Flush(false) of a full buffer.
SendPiece(r) ==
    /\ job[r] = "run"
    /\ next[r] < total[r]
    /\ Write(Piece(r, FALSE))
    /\ next' = [next EXCEPT ![r] = @ + 1]
    /\ firstSend' = [firstSend EXCEPT ![r] = FALSE]
    /\ UNCHANGED <<session, link, down, serverVars, job, total>>

\* Flush(false) failed: ReadFrom returns, and the buffer is kept for the
\* Flush(true) of httpRequest.
SendPieceFails(r) ==
    /\ job[r] = "run"
    /\ next[r] < total[r]
    /\ WriteFailed(Piece(r, FALSE))
    /\ job' = [job EXCEPT ![r] = "flush"]
    /\ firstSend' = [firstSend EXCEPT ![r] = FALSE]
    /\ UNCHANGED <<session, link, down, serverVars, next, total>>

\* The upstream server failed in the middle of the body: ReadFrom returns.
UpstreamFails(r) ==
    /\ job[r] = "run"
    /\ next[r] < total[r]
    /\ job' = [job EXCEPT ![r] = "flush"]
    /\ UNCHANGED <<session, link, wires, serverVars, next, total, firstSend>>

\* Flush(true) when the handler has returned, for whatever reason.
Finished(r) ==
    \/ job[r] = "flush"
    \/ job[r] = "run" /\ next[r] = total[r]

SendLast(r) ==
    /\ Finished(r)
    /\ Write(Piece(r, TRUE))
    /\ job' = [job EXCEPT ![r] = "done"]
    /\ UNCHANGED <<session, link, down, serverVars, next, total, firstSend>>

SendLastFails(r) ==
    /\ Finished(r)
    /\ WriteFailed(Piece(r, TRUE))
    /\ job' = [job EXCEPT ![r] = "done"]
    /\ UNCHANGED <<session, link, down, serverVars, next, total, firstSend>>

\* sendHttpError for a request that does not parse; its error is ignored.
SendError(r) ==
    /\ job[r] = "run"
    /\ next[r] = 1
    /\ Write(ErrorFrame(r)) \/ WriteFailed(ErrorFrame(r))
    /\ job' = [job EXCEPT ![r] = "done"]
    /\ UNCHANGED <<session, link, down, serverVars, next, total, firstSend>>

-----------------------------------------------------------------------------

RequestStep(r) ==
    \/ NotFound(r)
    \/ Prepare(r)
    \/ SendRequest(r)
    \/ SendRequestFails(r)
    \/ Select(r)
    \/ Timeout(r)
    \/ BadGateway(r)
    \/ WriteHeaderPanics(r)
    \/ WriteBody(r)
    \/ WriteFails(r)

JobStep(r) ==
    \/ SendPiece(r)
    \/ SendPieceFails(r)
    \/ UpstreamFails(r)
    \/ SendLast(r)
    \/ SendLastFails(r)
    \/ SendError(r)

Receiver == ReceiveFrame \/ ReceiveCut \/ ReceiveRest

Next ==
    \/ Connect
    \/ Login
    \/ Break
    \/ StartJob
    \/ ReceiveCutRequest
    \/ Receiver
    \/ \E r \in Reqs : RequestStep(r) \/ JobStep(r)

Spec == Init /\ [][Next]_vars

\* The connection's handler keeps receiving; later frames or the deadline of
\* the body end its wait for the end of a cut one.  A started DoRequest moves
\* on: the timer fires, and a send ends by its deadline or when checkOnline
\* closes the connection (it is taken for granted that an agent which beats also
\* reads; see FrameConn on deadlines that another call has cleared).  A browser
\* need not take what is written to it.
Fairness ==
    /\ WF_vars(Receiver)
    /\ \A r \in Reqs :
          WF_vars(pc[r] \in {"send", "sent", "select"} /\ RequestStep(r))

FairSpec == Spec /\ Fairness

-----------------------------------------------------------------------------
(* Properties *)

\* The table holds a channel for exactly the requests that are between
\* PrepareRequest and the deferred DeleteSeq, under the client they use, even
\* when the connection has been replaced meanwhile: no channel leaks.
TableMatchesWaiters ==
    \A s \in Sessions :
        requests[s] = {r \in Reqs : Waiting(r) /\ client[r] = s}

\* No two requests wait under one sequence number of a connection.
SeqsDistinct ==
    \A s \in Sessions : \A r1, r2 \in requests[s] :
        seq[r1] = seq[r2] => r1 = r2

\* The browser gets the pieces of any one response in their order, no piece
\* twice, although they pass a queue, a table of channels and a non-blocking
\* send, and the agent flushes the rest of a buffer whose send failed.  Only a
\* piece that was cut off may come once more, in that flush.
Before(p, q) ==
    p.of = q.of => p.idx < q.idx \/ (p.idx = q.idx /\ ~p.whole)

BodyInOrder ==
    \A r \in Reqs : \A i, j \in DOMAIN body[r] :
        i < j => Before(body[r][i], body[r][j])

\* A browser sees pieces of the response to its own request only.
ResponseToOwner ==
    \A r \in Reqs : \A i \in DOMAIN body[r] : body[r][i].of = r

\* An answer that ends without an error, and of which no piece was cut off on
\* the way, is the whole response.
AllWhole(r) == \A i \in DOMAIN body[r] : body[r][i].whole

OkMeansComplete ==
    \A r \in Reqs : status[r] = "ok" /\ AllWhole(r) => Len(body[r]) = total[r]

\* A request that was started ends, whatever the agent does, unless its browser
\* stays connected and stops reading.
RequestTerminates ==
    \A r \in Reqs :
        []<>(pc[r] # "write") => (pc[r] = "send" ~> pc[r] = "done")

\* A browser that does not read stalls nobody else: the handler of the agent's
\* connection serves every frame without waiting for the requests.
FramesDrain == up # <<>> ~> up = <<>>

=============================================================================
