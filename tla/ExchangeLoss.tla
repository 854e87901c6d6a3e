---------------------------- MODULE ExchangeLoss ----------------------------
(***************************************************************************)
(* Exchange with two history variables: the requests whose response has    *)
(* lost a piece while DoRequest waited, as long as it has not ended with   *)
(* an error, and the connections on which a response frame was cut off.    *)
(* Nothing reads them; every behaviour of Exchange is one of LossSpec with *)
(* values for them.                                                        *)
(***************************************************************************)
EXTENDS Exchange

VARIABLES lost, cuts

lossVars == <<vars, lost, cuts>>

\* ReadFrom returns before the end of the body, because the upstream server
\* failed or because a Flush failed.
BodyCut(r) == UpstreamFails(r) \/ SendPieceFails(r)

\* SendHttpResponse takes the default of its select: DoRequest was not waiting
\* for the piece, not yet, not any more, or being busy with the one before.
PieceDropped(r) ==
    /\ ReceiveFrame
    /\ Head(up).kind = "piece" /\ Head(up).of = r
    /\ UNCHANGED hand

Losing(r) == Waiting(r) /\ (BodyCut(r) \/ PieceDropped(r))

\* A Send of the agent fails in the middle of a frame.
FrameCut == Len(up') > Len(up) /\ ~up'[Len(up')].whole

LossInit == Init /\ lost = {} /\ cuts = {}

LossNext ==
    /\ Next
    /\ lost' = {r \in Reqs :
                  status'[r] \in {"none", "ok"} /\ (r \in lost \/ Losing(r))}
    /\ cuts' = IF FrameCut THEN cuts \cup {session} ELSE cuts

LossSpec == LossInit /\ [][LossNext]_lossVars

-----------------------------------------------------------------------------
(* Properties *)

\* While no frame is cut, late and concurrent answers of one connection never
\* reach another browser: a piece of another request's response comes from a
\* request that used an older connection.  Bytes of other frames end a piece
\* only on a connection on which a Send failed half way.
StraysAreFromOldSessions ==
    \A r \in Reqs : \A i \in DOMAIN body[r] :
        LET p == body[r][i] IN
        /\ p.of = r \/ client[p.of] < client[r]
        /\ p.whole \/ client[r] \in cuts

\* No piece of another request's response is in r's body.
OwnBody(r) == \A i \in DOMAIN body[r] : body[r][i].of = r

\* Of all that can go wrong on the way, only three things make an answer
\* incomplete that the browser takes for complete: ReadFrom stopped short of
\* the end, DoRequest was not waiting when a piece came, or the agent's Send
\* cut a frame on that connection.  A broken connection, a write to it that is
\* lost whole, a late answer or a full table never do: then DoRequest ends
\* with an error, or with pieces of somebody else's response.
OkIsWhole ==
    \A r \in Reqs :
        /\ status[r] = "ok" /\ OwnBody(r)
        /\ r \notin lost /\ client[r] \notin cuts
        => Len(body[r]) = total[r]

\* What the browsers see of it.
Stream == INSTANCE ResponseStream WITH spoilt <- cuts

StreamSpec == Stream!Spec

=============================================================================
