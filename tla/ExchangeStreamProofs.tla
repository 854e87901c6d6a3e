------------------------ MODULE ExchangeStreamProofs ------------------------
(***************************************************************************)
(* What the browsers see of Exchange is a behaviour of ResponseStream, for *)
(* all numbers of requests, connections and frames.  The layers of         *)
(* ExchangeProofs say whose the pieces are and that they are in order;     *)
(* here it is that an answer begins with the first piece of a response,    *)
(* and that it has an end exactly when DoRequest has returned.             *)
(***************************************************************************)
EXTENDS ExchangeProofs

\* Only the first frame of a response carries the header.
IsFirst(f) == f.kind = "piece" /\ f.first => f.idx = 1

FirstPieces ==
    /\ \A r \in Reqs : firstSend[r] => next[r] = 1
    /\ \A i \in DOMAIN up : IsFirst(up[i])
    /\ \A r \in Reqs : IsFirst(hand[r])

Answered(r) ==
    /\ status[r] = "none" <=> pc[r] # "done"
    /\ ~head[r] => body[r] = <<>>
    /\ pc[r] # "done" /\ head[r] => body[r] # <<>>

AnswerInv == \A r \in Reqs : Answered(r)

\* Everything a step of a browser's answer depends on.
StreamInv ==
    /\ FrameInv
    /\ CutInv
    /\ OrderInv
    /\ FirstPieces
    /\ AnswerInv

LEMMA InitStream == Init => FirstPieces /\ AnswerInv
BY DEF Init, FirstPieces, IsFirst, AnswerInv, Answered, NoFrame

-----------------------------------------------------------------------------

\* What a job puts on the wire.
LEMMA JobFrames ==
  ASSUME TypeOK, FirstPieces, NEW r \in Reqs, JobStep(r)
  PROVE  \/ up' = up
         \/ \E f \in UpFrames : IsFirst(f) /\ up' = Append(up, f)
<1>1. \A last \in BOOLEAN :
         LET f == Piece(r, last) IN
         /\ f \in UpFrames /\ IsFirst(f)
         /\ Cut(f) \in UpFrames /\ IsFirst(Cut(f))
  <2>1. \A last \in BOOLEAN :
           LET f == Piece(r, last) IN f \in Pieces /\ Cut(f) \in Pieces
    BY PiecesFit, CutFits
  <2>2. \A last \in BOOLEAN : IsFirst(Piece(r, last)) /\ IsFirst(Cut(Piece(r, last)))
    BY DEF Piece, Cut, FirstPieces, IsFirst
  <2> QED  BY <2>1, <2>2 DEF UpFrames
<1>2. LET f == ErrorFrame(r) IN
         /\ f \in UpFrames /\ IsFirst(f)
         /\ Cut(f) \in UpFrames /\ IsFirst(Cut(f))
  <2>1. ErrorFrame(r) \in Errors /\ Cut(ErrorFrame(r)) \in Errors
    BY ErrorsFit, CutFits
  <2> QED  BY <2>1 DEF UpFrames, Errors, IsFirst
<1> QED
  BY <1>1, <1>2
     DEF JobStep, SendPiece, SendPieceFails, SendLast, SendLastFails,
         SendError, UpstreamFails, Write, WriteFailed, wires

LEMMA FirstJob ==
  ASSUME TypeOK, FirstPieces, NEW r \in Reqs, JobStep(r)
  PROVE  \A x \in Reqs : firstSend'[x] => next'[x] = 1
<1>1. \/ UNCHANGED <<next, firstSend>>
      \/ UNCHANGED next /\ firstSend' = [firstSend EXCEPT ![r] = FALSE]
      \/ /\ next' = [next EXCEPT ![r] = @ + 1]
         /\ firstSend' = [firstSend EXCEPT ![r] = FALSE]
  BY DEF JobStep, SendPiece, SendPieceFails, SendLast, SendLastFails,
     SendError, UpstreamFails
<1> QED  BY <1>1 DEF TypeOK, FirstPieces

LEMMA FirstNext ==
  ASSUME TypeOK, FirstPieces, [Next]_vars PROVE FirstPieces'
<1>1. \A x \in Reqs : firstSend'[x] => next'[x] = 1
  <2>1. ASSUME NEW r \in Reqs, RequestStep(r)
        PROVE  UNCHANGED <<next, firstSend>>
    BY <2>1 DEF RequestStep, NotFound, Prepare, SendRequest, SendRequestFails,
       Select, Timeout, BadGateway, WriteHeaderPanics, WriteBody, WriteFails,
       agentVars
  <2> QED
    BY <2>1, FirstJob
       DEF FirstPieces, Next, Receiver, Connect, Login, Break, StartJob,
           ReceiveFrame, ReceiveCut, ReceiveRest, ReceiveCutRequest, vars,
           agentVars
<1>2. \A i \in DOMAIN up' : IsFirst(up'[i])
  <2>1. CASE up' = up \/ up' = <<>> \/ up' = <<Rest>>
    BY <2>1 DEF FirstPieces, IsFirst, Rest
  <2>2. CASE Behind(up', up)
    BY <2>2 DEF Behind, FirstPieces
  <2>3. ASSUME NEW f \in UpFrames, IsFirst(f), up' = Append(up, f)
        PROVE  \A i \in DOMAIN up' : IsFirst(up'[i])
    BY <2>3, AppendAt, WiresFit DEF FirstPieces
  <2> QED  BY <2>1, <2>2, <2>3, UpSteps, JobFrames
<1>3. ASSUME NEW r \in Reqs PROVE IsFirst(hand'[r])
  <2>1. CASE hand'[r] = hand[r]
    BY <2>1 DEF FirstPieces
  <2>2. CASE hand'[r] = NoFrame
    BY <2>2 DEF NoFrame, IsFirst
  <2>3. CASE Takes(r)
    <3>1. 1 \in DOMAIN up
      BY <2>3, UpTaken DEF Takes
    <3> QED  BY <2>3, <3>1 DEF Takes, SameFrame, FirstPieces, IsFirst
  <2> QED  BY <2>1, <2>2, <2>3, HandSteps
<1> QED  BY <1>1, <1>2, <1>3 DEF FirstPieces, IsFirst

-----------------------------------------------------------------------------

\* DoRequest returns without writing.
Quits(r) ==
    /\ pc[r] # "done"
    /\ pc' = [pc EXCEPT ![r] = "done"]
    /\ \E end \in Ends \ {"ok"} :
          /\ status' = [status EXCEPT ![r] = end]
          /\ \/ UNCHANGED head
             \/ end = "writeError" /\ head' = [head EXCEPT ![r] = TRUE]
    /\ UNCHANGED <<body, client>>

\* It goes on, or waits for another frame.
Waits ==
    /\ \A r \in Reqs : pc'[r] = "done" <=> pc[r] = "done"
    /\ UNCHANGED <<head, body, status>>
    /\ UNCHANGED client \/ \E r \in Reqs : Prepare(r)

\* The kinds of steps, as far as the answers are concerned.
LEMMA AnswerSteps ==
  ASSUME TypeOK, [Next]_vars
  PROVE  \/ Waits
         \/ \E r \in Reqs : Quits(r) \/ WriteBody(r)
<1>1. ASSUME NEW r \in Reqs, RequestStep(r)
      PROVE  Waits \/ Quits(r) \/ WriteBody(r)
  <2>1. CASE NotFound(r)
    BY <2>1 DEF NotFound, Quits, Ends
  <2>2. CASE Prepare(r)
    BY <2>2 DEF Prepare, Waits, TypeOK
  <2>3. CASE SendRequest(r)
    BY <2>3 DEF SendRequest, Waits, TypeOK
  <2>4. CASE SendRequestFails(r)
    BY <2>4 DEF SendRequestFails, Return, Quits, Ends
  <2>5. CASE Select(r)
    BY <2>5 DEF Select, Waits, TypeOK
  <2>6. CASE Timeout(r) \/ BadGateway(r) \/ WriteHeaderPanics(r)
    BY <2>6 DEF Timeout, BadGateway, WriteHeaderPanics, Return, Quits, Ends
  <2>7. CASE WriteFails(r)
    BY <2>7 DEF WriteFails, Return, Quits, Ends
  <2> QED
    BY <1>1, <2>1, <2>2, <2>3, <2>4, <2>5, <2>6, <2>7 DEF RequestStep
<1>2. ASSUME NEW r \in Reqs, JobStep(r) PROVE Waits
  BY <1>2 DEF JobStep, SendPiece, SendPieceFails, SendLast, SendLastFails,
     SendError, UpstreamFails, Waits, serverVars
<1>3. CASE ReceiveFrame
  BY <1>3 DEF ReceiveFrame, Takers, Waits, TypeOK
<1>4. CASE ReceiveCut
  BY <1>4 DEF ReceiveCut, Takers, Waits, TypeOK
<1>5. CASE Connect \/ Login \/ Break \/ ReceiveRest \/ StartJob
             \/ ReceiveCutRequest \/ UNCHANGED vars
  BY <1>5 DEF Connect, Login, Break, ReceiveRest, StartJob, ReceiveCutRequest,
     Waits, vars, serverVars
<1> QED
  BY <1>1, <1>2, <1>3, <1>4, <1>5 DEF Next, Receiver

\* A piece in a body.
Part(f) == [of |-> f.of, idx |-> f.idx, whole |-> f.whole]

\* A step that writes a piece, in terms of the answer.
Writes(r) ==
    /\ pc[r] = "write"
    /\ hand[r] \in Pieces
    /\ head[r] \/ hand[r].first
    /\ head' = [head EXCEPT ![r] = TRUE]
    /\ body' = [body EXCEPT ![r] = Append(@, Part(hand[r]))]
    /\ \/ /\ pc' = [pc EXCEPT ![r] = "done"]
          /\ status' = [status EXCEPT ![r] = "ok"]
       \/ /\ pc' = [pc EXCEPT ![r] = "select"]
          /\ UNCHANGED status
    /\ UNCHANGED client

LEMMA WriteBodyWrites ==
  ASSUME TypeOK, NEW r \in Reqs, WriteBody(r) PROVE Writes(r)
<1>1. hand[r] \in Pieces
  BY PieceTypes DEF WriteBody
<1> QED  BY <1>1 DEF WriteBody, Return, Writes, Part

LEMMA AnswerNext ==
  ASSUME TypeOK, AnswerInv, [Next]_vars PROVE AnswerInv'
<1>1. CASE Waits
  BY <1>1 DEF Waits, AnswerInv, Answered
<1>2. ASSUME NEW r \in Reqs, Quits(r) PROVE AnswerInv'
  <2> SUFFICES ASSUME NEW x \in Reqs PROVE Answered(x)'
    BY DEF AnswerInv
  <2>1. "none" \notin Ends
    BY DEF Ends
  <2> QED  BY <1>2, <2>1 DEF Quits, AnswerInv, Answered, TypeOK
<1>3. ASSUME NEW r \in Reqs, WriteBody(r) PROVE AnswerInv'
  <2> SUFFICES ASSUME NEW x \in Reqs PROVE Answered(x)'
    BY DEF AnswerInv
  <2>1. Writes(r)
    BY <1>3, WriteBodyWrites
  <2>2. body'[r] # <<>>
    <3> DEFINE e == Part(hand[r])
    <3>1. body[r] \in Seq(Parts) /\ e \in Parts
      BY <2>1 DEF TypeOK, Pieces, Parts, Part, Writes
    <3>2. body'[r] = Append(body[r], e)
      BY <2>1 DEF TypeOK, Writes
    <3> HIDE DEF e
    <3> QED  BY <3>1, <3>2
  <2>3. CASE x = r
    BY <2>1, <2>2, <2>3 DEF Writes, AnswerInv, Answered, TypeOK
  <2>4. CASE x # r
    BY <2>1, <2>4 DEF Writes, AnswerInv, Answered, TypeOK
  <2> QED  BY <2>3, <2>4
<1> QED  BY <1>1, <1>2, <1>3, AnswerSteps

-----------------------------------------------------------------------------
(* The refinement *)

\* The piece in a hand may be seen by that browser, and follows its body.
LEMMA HandFollows ==
  ASSUME StreamInv, NEW r \in Reqs, Writes(r)
  PROVE  /\ client[r] # 0
         /\ Stream!Sees(r, hand[r].of)
         /\ Stream!Follows(Part(hand[r]), body[r])
         /\ hand[r].whole \/ client[r] \in cuts
<1>1. TypeOK /\ hand[r].kind = "piece"
  BY PieceTypes DEF StreamInv, FrameInv, TableInv, Writes
<1>2. body[r] = <<>> => hand[r].idx = 1
  BY <1>1 DEF StreamInv, FirstPieces, IsFirst, AnswerInv, Answered, Writes
<1>3. Mine(hand[r].of, r)
  BY <1>1 DEF StreamInv, FrameInv, StrayInv, HandsMine
<1>4. \A i \in DOMAIN body[r] : Before(body[r][i], hand[r])
  BY <1>1 DEF StreamInv, OrderInv, BodyBeforeHand
<1>5. hand[r].whole \/ client[r] \in cuts
  BY <1>1 DEF StreamInv, CutInv, HandCut
<1>6. Stream!Follows(Part(hand[r]), body[r])
  BY <1>2, <1>4 DEF Before, Part, Stream!Follows
<1> QED  BY <1>3, <1>5, <1>6 DEF Mine, Stream!Sees

LEMMA WriteRefines ==
  ASSUME StreamInv, NEW r \in Reqs, Writes(r), cuts' = cuts
  PROVE  Stream!Step(r)
<1> DEFINE e == Part(hand[r])
<1>1. TypeOK /\ status[r] = "none"
  BY DEF StreamInv, FrameInv, TableInv, AnswerInv, Answered, Writes
<1>2. e \in Stream!Parts
  BY DEF Pieces, Writes, Part, Stream!Parts
<1>3. \E end \in {"none", "ok"} : status' = [status EXCEPT ![r] = end]
  BY <1>1 DEF Writes, TypeOK
<1>4. Stream!Write(r, e)
  <2>1. e.of = hand[r].of /\ e.whole = hand[r].whole
    BY DEF Part
  <2> QED  BY <1>3, <2>1, HandFollows DEF Stream!Write, Writes
<1> QED  BY <1>1, <1>2, <1>4, HandFollows DEF Stream!Step

LEMMA AssignRefines ==
  ASSUME StreamInv, NEW r \in Reqs, Prepare(r), cuts' = cuts
  PROVE  Stream!Step(r)
<1>1. TypeOK /\ ClientsKnown /\ Answered(r) /\ pc[r] = "idle" /\ link = "up"
  BY DEF StreamInv, FrameInv, TableInv, AnswerInv, Prepare
<1>2. session \in 1 .. MaxSessions
  BY <1>1, MaxSessionsType DEF TypeOK
<1>3. client[r] = 0 /\ \A o \in Reqs : client[o] <= session
  BY <1>1 DEF ClientsKnown
<1>4. status[r] = "none" /\ Stream!Assign(r, session)
  BY <1>1, <1>3 DEF Answered, Prepare, Stream!Assign
<1> QED
  BY <1>2, <1>3, <1>4 DEF Stream!Step

\* A Send that is cut concerns no answer, and happens on the latest connection.
LEMMA CutSteps ==
  ASSUME TypeOK, [Next]_vars, FrameCut
  PROVE  /\ \E x \in Reqs : JobStep(x)
         /\ session \in Sessions /\ session # 0 /\ link # "down"
<1>1. up \in Seq(UpFrames) /\ Len(up) \in Nat
  BY WiresFit
<1>2. ~(up' = up \/ up' = <<>>)
  BY <1>1 DEF FrameCut
<1>3. ~(ReceiveCut /\ up' = <<Rest>>)
  <2>1. SUFFICES ASSUME ReceiveCut, up' = <<Rest>> PROVE FALSE
    OBVIOUS
  <2>2. Len(up) >= 1
    BY <1>1, <2>1 DEF ReceiveCut, Readable
  <2> QED  BY <1>1, <2>1, <2>2 DEF FrameCut
<1>4. ~Behind(up', up)
  BY <1>1 DEF Behind, FrameCut
<1>5. PICK x \in Reqs : JobStep(x)
  BY <1>2, <1>3, <1>4, UpSteps
<1>6. link # "down"
  BY <1>2, <1>5 DEF JobStep, SendPiece, SendPieceFails, SendLast,
     SendLastFails, SendError, UpstreamFails, Write, WriteFailed, wires
<1>7. session \in Sessions /\ session # 0
  BY <1>6 DEF TypeOK, Sessions
<1> QED  BY <1>5, <1>6, <1>7

LEMMA SpoilRefines ==
  ASSUME StreamInv, [LossNext]_lossVars, cuts' # cuts
  PROVE  Stream!Next
<1>1. TypeOK /\ ClientsKnown /\ [Next]_vars
  BY CutsGrow DEF StreamInv, FrameInv, TableInv
<1>2. FrameCut /\ cuts' = cuts \cup {session}
  BY DEF LossNext, lossVars
<1>3. PICK x \in Reqs : JobStep(x)
  BY <1>1, <1>2, CutSteps
<1>4. UNCHANGED <<client, head, body, status>>
  BY <1>3 DEF JobStep, SendPiece, SendPieceFails, SendLast, SendLastFails,
     SendError, UpstreamFails, serverVars
<1>5. session \in 1 .. MaxSessions
  BY <1>1, <1>2, CutSteps DEF Sessions
<1>6. \A o \in Reqs : client[o] <= session
  BY <1>1 DEF ClientsKnown
<1>7. Stream!Spoil(session)
  BY <1>2, <1>4, <1>6 DEF Stream!Spoil
<1> QED  BY <1>5, <1>7 DEF Stream!Next

LEMMA StepRefines ==
  ASSUME StreamInv, [LossNext]_lossVars
  PROVE  [Stream!Next]_(Stream!vars)
<1>1. TypeOK /\ [Next]_vars
  BY CutsGrow DEF StreamInv, FrameInv, TableInv
<1>2. CASE cuts' # cuts
  BY <1>2, SpoilRefines
<1>3. CASE Waits /\ cuts' = cuts
  BY <1>3, AssignRefines DEF Waits, Stream!vars, Stream!Next
<1>4. ASSUME NEW r \in Reqs, Quits(r), cuts' = cuts PROVE Stream!Next
  <2>1. status[r] = "none"
    BY <1>4 DEF StreamInv, AnswerInv, Answered, Quits
  <2>2. \E end \in Stream!Ends \ {"ok"} : Stream!End(r, end)
    BY <1>4, <2>1 DEF Quits, Ends, Stream!Ends, Stream!End
  <2>3. Stream!Step(r)
    BY <2>1, <2>2 DEF Stream!Step
  <2> QED  BY <2>3 DEF Stream!Next
<1>5. ASSUME NEW r \in Reqs, WriteBody(r), cuts' = cuts PROVE Stream!Next
  <2>1. Writes(r)
    BY <1>1, <1>5, WriteBodyWrites
  <2> QED  BY <1>5, <2>1, WriteRefines DEF Stream!Next
<1> QED  BY <1>1, <1>2, <1>3, <1>4, <1>5, AnswerSteps

LEMMA InitStreamInv == LossInit => StreamInv
BY InitFrame, InitCut, InitOrder, InitStream DEF StreamInv, LossInit

LEMMA NextStreamInv == StreamInv /\ [LossNext]_lossVars => StreamInv'
<1> SUFFICES ASSUME StreamInv, [LossNext]_lossVars PROVE StreamInv'
  OBVIOUS
<1>1. TypeOK /\ FrameInv /\ JobInv /\ [Next]_vars
  BY CutsGrow DEF StreamInv, FrameInv, TableInv
<1> QED
  BY <1>1, CutNext, OrderNext, FirstNext, AnswerNext DEF StreamInv

\* A browser gets what ResponseStream promises, however often the agent
\* reconnects: a header with the first piece of a response, pieces of its own
\* or of older requests, those of a response in their order, other bytes in
\* them only where a Send was cut on that connection, and one end.
THEOREM ImplementsStream == LossSpec => StreamSpec
<1>1. LossInit => Stream!Init
  BY DEF LossInit, Init, Stream!Init
<1>2. StreamInv /\ [LossNext]_lossVars => [Stream!Next]_(Stream!vars)
  BY StepRefines
<1> QED
  BY <1>1, <1>2, InitStreamInv, NextStreamInv, PTL
     DEF LossSpec, StreamSpec, Stream!Spec

-----------------------------------------------------------------------------
(* Nothing is missing that LossSpec does not know of *)

HandHeld == \A r \in Reqs : pc[r] # "write" => hand[r] = NoFrame

\* r's browser has piece k, or DoRequest is about to write it.
Got(r, k) ==
    k <= Len(body[r]) \/ (hand[r].kind = "piece" /\ k = hand[r].idx)

\* Frame j on the wire is a piece of r; piece k of r is on the wire before j.
Own(r, j) == up[j].kind = "piece" /\ up[j].of = r
Ahead(r, k, j) == \E i \in DOMAIN up : i < j /\ Own(r, i) /\ up[i].idx = k

OnlyOwn(r) == OwnBody(r) /\ (hand[r].kind = "piece" => hand[r].of = r)

\* What has arrived is a prefix of the response.
PrefixArrived(r) ==
    /\ \A i \in DOMAIN body[r] : body[r][i].idx = i
    /\ hand[r].kind = "piece" =>
          /\ hand[r].idx = Len(body[r]) + 1
          /\ hand[r].last => hand[r].idx = total[r]

\* The wire carries the pieces after it without a gap ...
WireWhole(r) ==
    \A j \in DOMAIN up : Own(r, j) =>
        /\ \A k \in 1 .. up[j].idx - 1 : Got(r, k) \/ Ahead(r, k, j)
        /\ up[j].last => up[j].idx = total[r]

\* ... up to the one the agent sends next.
JobWhole(r) ==
    /\ job[r] # "flush"
    /\ job[r] = "run" =>
          \A k \in 1 .. next[r] - 1 : Got(r, k) \/ Ahead(r, k, Len(up) + 1)

\* The connection that r waits on still works.
Lives(r) == client[r] = session /\ link # "down"

Whole(r) == PrefixArrived(r) /\ (Lives(r) => WireWhole(r) /\ JobWhole(r))

\* As long as no Send was cut on it, and no piece was lost.
WholeInv ==
    \A r \in Reqs \ lost : client[r] \notin cuts =>
        /\ pc[r] # "done" /\ OnlyOwn(r) => Whole(r)
        /\ status[r] = "ok" /\ OwnBody(r) => Len(body[r]) = total[r]

LossInv == StreamInv /\ HandHeld /\ WholeInv /\ 0 \notin cuts

LEMMA HeldNext ==
  ASSUME TypeOK, HandHeld, [Next]_vars PROVE HandHeld'
<1>1. ASSUME NEW r \in Reqs, RequestStep(r) PROVE HandHeld'
  BY <1>1 DEF RequestStep, NotFound, Prepare, SendRequest, SendRequestFails,
     Select, Timeout, BadGateway, WriteHeaderPanics, WriteBody, WriteFails,
     Return, HandHeld, TypeOK
<1>2. ASSUME NEW r \in Reqs, JobStep(r) PROVE UNCHANGED <<pc, hand>>
  BY <1>2 DEF JobStep, SendPiece, SendPieceFails, SendLast, SendLastFails,
     SendError, UpstreamFails, serverVars
<1>3. CASE ReceiveFrame \/ ReceiveCut
  BY <1>3 DEF ReceiveFrame, ReceiveCut, HandHeld, TypeOK
<1>4. CASE Connect \/ Login \/ Break \/ ReceiveRest \/ StartJob
             \/ ReceiveCutRequest \/ UNCHANGED vars
  BY <1>4 DEF Connect, Login, Break, ReceiveRest, StartJob, ReceiveCutRequest,
     vars, serverVars, HandHeld
<1> QED
  BY <1>1, <1>2, <1>3, <1>4 DEF Next, Receiver, HandHeld

LEMMA UpAppended ==
  ASSUME TypeOK, NEW f \in UpFrames, up' = Append(up, f)
  PROVE  /\ Len(up) \in Nat /\ DOMAIN up = 1 .. Len(up)
         /\ DOMAIN up' = 1 .. Len(up) + 1 /\ Len(up') = Len(up) + 1
         /\ \A i \in 1 .. Len(up) : up'[i] = up[i]
         /\ up'[Len(up) + 1] = f
<1>1. up \in Seq(UpFrames)
  BY WiresFit
<1> QED  BY <1>1

LEMMA UpTail ==
  ASSUME TypeOK, up # <<>>, up' = Tail(up)
  PROVE  /\ Len(up) \in Nat \ {0} /\ DOMAIN up = 1 .. Len(up)
         /\ DOMAIN up' = 1 .. Len(up) - 1 /\ Len(up') = Len(up) - 1
         /\ \A i \in 1 .. Len(up) - 1 : up'[i] = up[i + 1]
         /\ Head(up) = up[1]
<1>1. up \in Seq(UpFrames)
  BY WiresFit
<1> QED  BY <1>1

\* A step that concerns neither r nor the wire.
LEMMA WholeKept ==
  ASSUME TypeOK, NEW r \in Reqs, Whole(r),
         hand'[r] = hand[r], body'[r] = body[r], total'[r] = total[r],
         Lives(r)' =>
            Lives(r) /\ up' = up /\ job'[r] = job[r] /\ next'[r] = next[r]
  PROVE  Whole(r)'
<1>1. PrefixArrived(r)'
  BY DEF Whole, PrefixArrived
<1>2. ASSUME Lives(r)' PROVE WireWhole(r)' /\ JobWhole(r)'
  BY <1>2 DEF Whole, WireWhole, JobWhole, Own, Ahead, Got
<1> QED  BY <1>1, <1>2 DEF Whole

\* The agent writes something that is no piece of r.
LEMMA WholeOther ==
  ASSUME TypeOK, NEW r \in Reqs, Whole(r),
         NEW f \in UpFrames, up' = Append(up, f),
         f.kind = "piece" => f.of # r,
         UNCHANGED <<session, link, client, hand, body, total>>,
         \/ job'[r] = job[r] /\ next'[r] = next[r]
         \/ job'[r] = "done"
  PROVE  Whole(r)'
<1>1. PrefixArrived(r)'
  BY DEF Whole, PrefixArrived
<1> SUFFICES ASSUME Lives(r)' PROVE WireWhole(r)' /\ JobWhole(r)'
  BY <1>1 DEF Whole
<1>2. WireWhole(r) /\ JobWhole(r)
  BY DEF Whole, Lives
<1>3. \A j, k \in Nat : j <= Len(up) + 1 /\ Ahead(r, k, j) =>
         \E i \in DOMAIN up' : i < j /\ Own(r, i)' /\ up'[i].idx = k
  BY UpAppended DEF Ahead, Own
<1>4. \A j \in DOMAIN up' : Own(r, j)' =>
         j \in DOMAIN up /\ Own(r, j) /\ up'[j] = up[j]
  BY UpAppended DEF Own
<1>5. \A k : Got(r, k)' <=> Got(r, k)
  BY DEF Got
<1>6. WireWhole(r)'
  <2> SUFFICES ASSUME NEW j \in DOMAIN up', Own(r, j)'
               PROVE  /\ \A k \in 1 .. up'[j].idx - 1 :
                            Got(r, k)' \/ Ahead(r, k, j)'
                      /\ up'[j].last => up'[j].idx = total'[r]
    BY DEF WireWhole
  <2>1. /\ \A k \in 1 .. up[j].idx - 1 : Got(r, k) \/ Ahead(r, k, j)
        /\ up[j].last => up[j].idx = total[r]
        /\ up'[j] = up[j]
    BY <1>2, <1>4 DEF WireWhole
  <2>2. j \in Nat /\ j <= Len(up) + 1
    BY UpAppended
  <2> QED  BY <1>3, <1>5, <2>1, <2>2 DEF Ahead
<1>7. CASE job'[r] = "done"
  BY <1>6, <1>7 DEF JobWhole
<1>8. CASE job'[r] = job[r] /\ next'[r] = next[r]
  <2>1. job[r] # "flush"
    BY <1>2 DEF JobWhole
  <2>2. ASSUME job[r] = "run", NEW k \in 1 .. next[r] - 1
        PROVE  Got(r, k)' \/ Ahead(r, k, Len(up) + 1)'
    <3>1. Got(r, k) \/ Ahead(r, k, Len(up) + 1)
      BY <1>2, <2>2 DEF JobWhole
    <3>2. /\ Len(up) + 1 \in Nat /\ Len(up') = Len(up) + 1
          /\ \A i \in DOMAIN up' : i < Len(up) + 1 => i < Len(up') + 1
      BY UpAppended
    <3>3. k \in Nat
      BY <2>2
    <3>4. ASSUME Ahead(r, k, Len(up) + 1)
          PROVE  Ahead(r, k, Len(up) + 1)'
      <4>1. \E i \in DOMAIN up' :
               i < Len(up) + 1 /\ Own(r, i)' /\ up'[i].idx = k
        BY <1>3, <3>2, <3>3, <3>4
      <4> QED  BY <3>2, <4>1 DEF Ahead
    <3> QED  BY <1>5, <3>1, <3>4
  <2>3. JobWhole(r)'
    BY <1>8, <2>1, <2>2 DEF JobWhole
  <2> QED  BY <1>6, <2>3
<1> QED  BY <1>7, <1>8

\* The agent writes a piece of r.
LEMMA WholeSends ==
  ASSUME TypeOK, NEW r \in Reqs, Whole(r),
         NEW f \in Pieces, up' = Append(up, f), f.of = r, f.idx = next[r],
         UNCHANGED <<session, link, client, hand, body, total>>,
         job[r] \in {"run", "flush"},
         f.last => job[r] = "flush" \/ next[r] = total[r],
         \/ job'[r] = "done"
         \/ job[r] = "run" /\ job'[r] = "run" /\ next'[r] = next[r] + 1
  PROVE  Whole(r)'
<1>1. PrefixArrived(r)'
  BY DEF Whole, PrefixArrived
<1> SUFFICES ASSUME Lives(r)' PROVE WireWhole(r)' /\ JobWhole(r)'
  BY <1>1 DEF Whole
<1>2. WireWhole(r) /\ JobWhole(r)
  BY DEF Whole, Lives
<1>3. f \in UpFrames /\ f.kind = "piece"
  BY DEF Pieces, UpFrames
<1>4. /\ Len(up) \in Nat /\ DOMAIN up = 1 .. Len(up)
      /\ DOMAIN up' = 1 .. Len(up) + 1 /\ Len(up') = Len(up) + 1
      /\ \A i \in 1 .. Len(up) : up'[i] = up[i]
      /\ up'[Len(up) + 1] = f
  BY <1>3, UpAppended
<1>5. next[r] \in Nat
  BY NextNat
<1>6. \A j \in Nat : \A k : j <= Len(up) + 1 /\ Ahead(r, k, j) =>
         \E i \in DOMAIN up' : i < j /\ Own(r, i)' /\ up'[i].idx = k
  BY <1>4 DEF Ahead, Own
<1>7. \A k : Got(r, k)' <=> Got(r, k)
  BY DEF Got
<1>8. job[r] = "run"
  BY <1>2 DEF JobWhole
<1>9. ASSUME NEW k \in 1 .. next[r] - 1
      PROVE  Got(r, k)' \/ \E i \in DOMAIN up' :
                i < Len(up) + 1 /\ Own(r, i)' /\ up'[i].idx = k
  <2>1. Got(r, k) \/ Ahead(r, k, Len(up) + 1)
    BY <1>2, <1>8, <1>9 DEF JobWhole
  <2>2. k \in Nat /\ Len(up) + 1 \in Nat
    BY <1>4, <1>5, <1>9
  <2> QED  BY <1>6, <1>7, <2>1, <2>2
<1>10. ASSUME NEW j \in DOMAIN up', Own(r, j)'
       PROVE  /\ \A k \in 1 .. up'[j].idx - 1 :
                     Got(r, k)' \/ Ahead(r, k, j)'
              /\ up'[j].last => up'[j].idx = total'[r]
  <2>1. CASE j \in DOMAIN up
    <3>1. Own(r, j) /\ up'[j] = up[j]
      BY <1>4, <1>10, <2>1 DEF Own
    <3>2. /\ \A k \in 1 .. up[j].idx - 1 : Got(r, k) \/ Ahead(r, k, j)
          /\ up[j].last => up[j].idx = total[r]
      BY <1>2, <2>1, <3>1 DEF WireWhole
    <3>3. j \in Nat /\ j <= Len(up) + 1
      BY <1>4, <2>1
    <3>4. ASSUME NEW k \in 1 .. up[j].idx - 1
          PROVE  Got(r, k)' \/ Ahead(r, k, j)'
      <4>1. Ahead(r, k, j) => Ahead(r, k, j)'
        BY ONLY <1>6, <3>3 DEF Ahead
      <4>2. Got(r, k) \/ Ahead(r, k, j)
        BY ONLY <3>2, k \in 1 .. up[j].idx - 1, Zenon
      <4> QED  BY ONLY <1>7, <4>1, <4>2
    <3> QED  BY <3>1, <3>2, <3>4
  <2>2. CASE j = Len(up) + 1
    <3>1. \A k \in 1 .. next[r] - 1 : Got(r, k)' \/ Ahead(r, k, j)'
      BY <1>9, <2>2 DEF Ahead
    <3> QED  BY <1>4, <1>8, <2>2, <3>1
  <2> QED  BY <1>4, <2>1, <2>2
<1>11. WireWhole(r)'
  BY <1>10 DEF WireWhole
<1>12. ASSUME job'[r] = "run", NEW k \in 1 .. next'[r] - 1
       PROVE  Got(r, k)' \/ Ahead(r, k, Len(up) + 1)'
  <2>1. job[r] = "run" /\ next'[r] = next[r] + 1
    BY <1>12
  <2>2. CASE k = next[r]
    <3>1. \E i \in DOMAIN up' : i < Len(up') + 1 /\ up'[i] = f
      BY <1>4
    <3> QED  BY <1>3, <2>2, <3>1 DEF Ahead, Own
  <2>3. CASE k # next[r]
    <3>1. k \in 1 .. next[r] - 1
      BY <1>5, <1>12, <2>1, <2>3
    <3>2. Got(r, k)' \/ \E i \in DOMAIN up' :
             i < Len(up) + 1 /\ Own(r, i)' /\ up'[i].idx = k
      BY <1>9, <3>1
    <3>3. \A i \in DOMAIN up' : i < Len(up) + 1 => i < Len(up') + 1
      BY <1>4
    <3> QED  BY <3>2, <3>3 DEF Ahead
  <2> QED  BY <2>2, <2>3
<1>13. JobWhole(r)'
  <2>1. job'[r] # "flush"
    BY <1>8
  <2> QED  BY <1>12, <2>1 DEF JobWhole
<1> QED  BY <1>11, <1>13

\* The server takes the first frame off the wire.
LEMMA WholeShift ==
  ASSUME TypeOK, up # <<>>, up' = Tail(up),
         NEW r \in Reqs, WireWhole(r), JobWhole(r),
         UNCHANGED <<job, next, total>>,
         \A k : Got(r, k) => Got(r, k)',
         \A k : Own(r, 1) /\ up[1].idx = k => Got(r, k)'
  PROVE  WireWhole(r)' /\ JobWhole(r)'
<1>1. /\ Len(up) \in Nat \ {0} /\ DOMAIN up = 1 .. Len(up)
      /\ DOMAIN up' = 1 .. Len(up) - 1 /\ Len(up') = Len(up) - 1
      /\ \A i \in 1 .. Len(up) - 1 : up'[i] = up[i + 1]
  BY UpTail
<1>2. \A i \in DOMAIN up : i = 1 \/ (i - 1 \in DOMAIN up' /\ up'[i - 1] = up[i])
  BY <1>1
<1>3. \A j \in Nat : \A k : Ahead(r, k, j + 1) =>
         Got(r, k)' \/ \E i \in DOMAIN up' :
                           i < j /\ Own(r, i)' /\ up'[i].idx = k
  <2> SUFFICES ASSUME NEW j \in Nat, NEW k, Ahead(r, k, j + 1)
               PROVE  Got(r, k)' \/ \E n \in DOMAIN up' :
                           n < j /\ Own(r, n)' /\ up'[n].idx = k
    OBVIOUS
  <2> PICK i \in DOMAIN up : i < j + 1 /\ Own(r, i) /\ up[i].idx = k
    BY DEF Ahead
  <2>1. CASE i = 1
    BY <2>1
  <2>2. CASE i - 1 \in DOMAIN up' /\ up'[i - 1] = up[i]
    <3>1. i - 1 < j
      BY <1>1
    <3>2. Own(r, i - 1)'
      BY <2>2 DEF Own
    <3> QED  BY <2>2, <3>1 DEF Own
  <2> QED  BY <1>2, <2>1, <2>2
<1>4. ASSUME NEW j \in DOMAIN up', Own(r, j)'
      PROVE  /\ \A k \in 1 .. up'[j].idx - 1 : Got(r, k)' \/ Ahead(r, k, j)'
             /\ up'[j].last => up'[j].idx = total'[r]
  <2>1. j \in Nat /\ j + 1 \in DOMAIN up /\ up'[j] = up[j + 1]
    BY <1>1
  <2>2. Own(r, j + 1)
    BY <1>4, <2>1 DEF Own
  <2>3. /\ \A k \in 1 .. up[j + 1].idx - 1 :
              Got(r, k) \/ Ahead(r, k, j + 1)
        /\ up[j + 1].last => up[j + 1].idx = total[r]
    BY <2>1, <2>2 DEF WireWhole
  <2> QED  BY <1>3, <2>1, <2>3 DEF Ahead
<1>5. WireWhole(r)'
  BY <1>4 DEF WireWhole
<1>6. ASSUME job[r] = "run", NEW k \in 1 .. next[r] - 1
      PROVE  Got(r, k)' \/ Ahead(r, k, Len(up) + 1)'
  <2>1. Got(r, k) \/ Ahead(r, k, Len(up) + 1)
    BY <1>6 DEF JobWhole
  <2>2. Got(r, k)' \/ \E i \in DOMAIN up' :
                           i < Len(up) /\ Own(r, i)' /\ up'[i].idx = k
    BY <1>1, <1>3, <2>1
  <2>3. \A i \in DOMAIN up' : i < Len(up) => i < Len(up') + 1
    BY <1>1
  <2> QED  BY <2>2, <2>3 DEF Ahead
<1>7. JobWhole(r)'
  <2>1. job'[r] # "flush"
    BY DEF JobWhole
  <2> QED  BY <1>6, <2>1 DEF JobWhole
<1> QED  BY <1>5, <1>7

LEMMA BodyParts ==
  ASSUME TypeOK, NEW r \in Reqs
  PROVE  /\ Len(body[r]) \in Nat
         /\ DOMAIN body[r] = 1 .. Len(body[r])
<1>1. body[r] \in Seq(Parts)
  BY DEF TypeOK
<1> QED  BY <1>1

\* The first frame on the wire, if it is r's, is the next of its pieces.
LEMMA FirstIsNext ==
  ASSUME StreamInv, NEW r \in Reqs, client[r] \notin cuts,
         Whole(r), Lives(r), up # <<>>, Own(r, 1), OwnBody(r), hand[r].kind # "piece"
  PROVE  /\ up[1].idx = Len(body[r]) + 1
         /\ up[1].last => up[1].idx = total[r]
<1>1. TypeOK
  BY DEF StreamInv, FrameInv, TableInv
<1>2. up \in Seq(UpFrames)
  BY <1>1, WiresFit
<1>3. 1 \in DOMAIN up /\ \A i \in DOMAIN up : i # 1 => 1 < i
  BY <1>2
<1>4. up[1].idx \in Nat \ {0}
  BY <1>1, <1>3, PieceTypes, MaxFramesType DEF Own, Pieces
<1>5. /\ \A k \in 1 .. up[1].idx - 1 : Got(r, k) \/ Ahead(r, k, 1)
      /\ up[1].last => up[1].idx = total[r]
  BY <1>3 DEF Whole, WireWhole
<1>6. \A k \in 1 .. up[1].idx - 1 : k <= Len(body[r])
  <2>1. \A k : ~Ahead(r, k, 1)
    BY <1>2 DEF Ahead
  <2> QED  BY <1>5, <2>1 DEF Got
<1>7. Len(body[r]) \in Nat /\ DOMAIN body[r] = 1 .. Len(body[r])
  BY <1>1, BodyParts
<1>8. Len(body[r]) < up[1].idx
  <2>1. CASE Len(body[r]) = 0
    BY <1>4, <2>1
  <2>2. CASE Len(body[r]) # 0
    <3> DEFINE n == Len(body[r])
    <3>1. n \in DOMAIN body[r]
      BY <1>7, <2>2
    <3>2. body[r][n].idx = n /\ body[r][n].of = r
      BY <3>1 DEF Whole, PrefixArrived, OwnBody
    <3>3. body[r][n].whole
      BY <3>1 DEF StreamInv, CutInv, BodyWhole
    <3>4. Before(body[r][n], up[1])
      BY <1>3, <3>1 DEF Own, StreamInv, OrderInv, BodyBeforeUp
    <3> QED  BY <3>2, <3>3, <3>4 DEF Before, Own
  <2> QED  BY <2>1, <2>2
<1>9. up[1].idx - 1 <= Len(body[r])
  <2>1. CASE up[1].idx = 1
    BY <1>7, <2>1
  <2>2. CASE up[1].idx # 1
    <3>1. up[1].idx - 1 \in 1 .. up[1].idx - 1
      BY <1>4, <2>2
    <3> QED  BY <1>6, <3>1
  <2> QED  BY <2>1, <2>2
<1> QED  BY <1>4, <1>5, <1>7, <1>8, <1>9

LEMMA WholeReceive ==
  ASSUME StreamInv, HandHeld, NEW r \in Reqs, client[r] \notin cuts,
         Whole(r), OnlyOwn(r), OnlyOwn(r)',
         ReceiveFrame, ~PieceDropped(r)
  PROVE  Whole(r)'
<1>1. TypeOK /\ TypeOK'
  BY NextType DEF StreamInv, FrameInv, TableInv, Next, Receiver
<1>2. /\ up # <<>> /\ up' = Tail(up)
      /\ UNCHANGED <<session, link, client, body, job, next, total>>
      /\ \/ UNCHANGED hand
         \/ /\ link = "up"
            /\ \E x \in Takers(Head(up)) : hand' = [hand EXCEPT ![x] = Head(up)]
  BY DEF ReceiveFrame, Readable, agentVars
<1>3. Head(up) = up[1] /\ 1 \in DOMAIN up
  BY <1>1, UpTaken
<1>4. up[1] \in Pieces \cup Errors
  BY <1>1, UpTaken
<1>5. ASSUME NEW x \in Takers(up[1]), link = "up"
      PROVE  x \in Reqs /\ client[x] = session /\ session # 0
             /\ seq[x] = up[1].seq /\ hand[x] = NoFrame
  <2>1. session \in Sessions /\ session # 0
    BY <1>1, <1>5 DEF TypeOK, Sessions
  <2>2. x \in requests[session] /\ seq[x] = up[1].seq /\ pc[x] = "select"
    BY <1>5 DEF Takers
  <2> QED
    BY <2>1, <2>2
       DEF StreamInv, FrameInv, TableInv, TableMatchesWaiters, HandHeld
<1>6. CASE hand'[r] = hand[r] /\ ~(Lives(r) /\ Own(r, 1))
  <2>1. PrefixArrived(r)'
    BY <1>2, <1>6 DEF Whole, PrefixArrived
  <2>2. ASSUME Lives(r)' PROVE WireWhole(r)' /\ JobWhole(r)'
    <3>1. Lives(r) /\ ~Own(r, 1)
      BY <1>2, <1>6, <2>2 DEF Lives
    <3>2. \A k : Got(r, k) => Got(r, k)'
      BY <1>2, <1>6 DEF Got
    <3> QED  BY <1>1, <1>2, <1>3, <3>1, <3>2, WholeShift DEF Whole
  <2> QED  BY <2>1, <2>2 DEF Whole
<1>7. CASE hand'[r] # hand[r] /\ ~Own(r, 1)
  <2>1. hand'[r] = up[1] /\ hand[r] = NoFrame
    BY <1>1, <1>2, <1>3, <1>5, <1>7 DEF TypeOK
  <2>2. hand'[r].kind # "piece" /\ hand[r].kind # "piece"
    BY <1>7, <2>1 DEF Own, OnlyOwn, NoFrame
  <2>3. PrefixArrived(r)'
    BY <1>2, <2>2 DEF Whole, PrefixArrived
  <2>4. ASSUME Lives(r)' PROVE WireWhole(r)' /\ JobWhole(r)'
    <3>1. Lives(r)
      BY <1>2, <2>4 DEF Lives
    <3>2. \A k : Got(r, k) => Got(r, k)'
      BY <1>2, <2>2 DEF Got
    <3> QED  BY <1>1, <1>2, <1>3, <1>7, <3>1, <3>2, WholeShift DEF Whole
  <2> QED  BY <2>3, <2>4 DEF Whole
<1>8. CASE Own(r, 1) /\ (Lives(r) \/ hand'[r] # hand[r])
  <2>1. up[1].kind = "piece" /\ up[1].of = r
    BY <1>8 DEF Own
  <2>2. hand' # hand
    BY <1>2, <1>3, <2>1 DEF PieceDropped
  <2>3. PICK x \in Takers(up[1]) : hand' = [hand EXCEPT ![x] = up[1]]
    BY <1>2, <1>3, <2>2
  <2>4. link = "up"
    BY <1>2, <2>2
  <2>5. client[r] # 0 /\ up[1].seq = seq[r]
    BY <1>3, <2>1 DEF StreamInv, FrameInv, StrayInv, WiresKnown, Known
  <2>6. x = r
    <3>1. CASE Lives(r)
      BY <1>5, <2>3, <2>4, <2>5, <3>1
         DEF Lives, StreamInv, FrameInv, TableInv, NumbersUnique
    <3>2. CASE hand'[r] # hand[r]
      BY <2>3, <3>2
    <3> QED  BY <1>8, <3>1, <3>2
  <2>7. Lives(r) /\ hand[r] = NoFrame /\ hand'[r] = up[1]
    BY <1>1, <1>5, <2>3, <2>4, <2>6 DEF Lives, TypeOK
  <2>8. /\ up[1].idx = Len(body[r]) + 1
        /\ up[1].last => up[1].idx = total[r]
    BY <1>2, <1>3, <1>8, <2>7, FirstIsNext DEF OnlyOwn, NoFrame
  <2>9. PrefixArrived(r)'
    BY <1>2, <2>7, <2>8 DEF Whole, PrefixArrived
  <2>10. WireWhole(r)' /\ JobWhole(r)'
    <3>1. \A k : Got(r, k) => Got(r, k)'
      BY <1>2, <2>7 DEF Got, NoFrame
    <3>2. \A k : Own(r, 1) /\ up[1].idx = k => Got(r, k)'
      BY <2>1, <2>7 DEF Got
    <3> QED  BY <1>1, <1>2, <1>3, <2>7, <3>1, <3>2, WholeShift DEF Whole
  <2> QED  BY <2>9, <2>10 DEF Whole
<1> QED  BY <1>6, <1>7, <1>8

\* The server reads a cut frame: that is on a connection that r does not wait
\* on.
LEMMA WholeReceiveCut ==
  ASSUME StreamInv, NEW r \in Reqs, client[r] \notin cuts, Whole(r), ReceiveCut
  PROVE  Whole(r)'
<1>1. TypeOK /\ [Next]_vars
  BY DEF StreamInv, FrameInv, TableInv, Next, Receiver
<1>2. 1 \in DOMAIN up /\ Head(up) = up[1] /\ ~up[1].whole
  BY <1>1, UpTaken DEF ReceiveCut
<1>3. session \in cuts
  BY <1>2 DEF StreamInv, CutInv, UpCut
<1>4. UNCHANGED <<session, link, client, body, total>>
  BY DEF ReceiveCut, agentVars
<1>5. ~Takes(r)
  <2> SUFFICES ASSUME Takes(r) PROVE FALSE
    OBVIOUS
  <2>1. link = "up" /\ r \in requests[session]
    BY DEF Takes
  <2>2. session \in Sessions
    BY <1>1, <2>1 DEF TypeOK, Sessions
  <2> QED
    BY <1>3, <2>1, <2>2 DEF StreamInv, FrameInv, TableInv, TableMatchesWaiters
<1>6. hand'[r] = hand[r] \/ hand'[r].kind # "piece"
  <2>1. hand'[r] = hand[r] \/ hand'[r] = NoFrame
    BY <1>1, <1>5, HandSteps
  <2>2. NoFrame.kind # "piece"
    BY DEF NoFrame
  <2> QED  BY <2>1, <2>2
<1>7. PrefixArrived(r)'
  BY <1>4, <1>6 DEF Whole, PrefixArrived
<1>8. ~Lives(r)'
  BY <1>3, <1>4 DEF Lives
<1> QED  BY <1>7, <1>8 DEF Whole

\* A job that has not started has sent nothing.
LEMMA NoneSent ==
  ASSUME StreamInv, NEW r \in Reqs, job[r] = "none"
  PROVE  /\ \A j \in DOMAIN up : ~Own(r, j)
         /\ hand[r].kind = "piece" => hand[r].of # r
         /\ OwnBody(r) => Len(body[r]) = 0
<1>1. TypeOK /\ next[r] = 1
  BY DEF StreamInv, FrameInv, TableInv, JobInv, JobsFit
<1>2. \A k \in Nat \ {0} : \A w : ~Sent(r, k, w)
  BY <1>1 DEF Sent
<1>3. \A j \in DOMAIN up : ~Own(r, j)
  <2> SUFFICES ASSUME NEW j \in DOMAIN up, Own(r, j) PROVE FALSE
    OBVIOUS
  <2>1. SentPiece(up[j]) /\ up[j] \in Pieces
    BY <1>1, PieceTypes DEF Own, StreamInv, OrderInv, SentOnly
  <2> QED  BY <1>2, <2>1, MaxFramesType DEF Pieces, SentPiece, Own
<1>4. hand[r].kind = "piece" => hand[r].of # r
  <2> SUFFICES ASSUME hand[r].kind = "piece", hand[r].of = r PROVE FALSE
    OBVIOUS
  <2>1. SentPiece(hand[r]) /\ hand[r] \in Pieces
    BY <1>1, PieceTypes DEF StreamInv, OrderInv, SentOnly
  <2> QED  BY <1>2, <2>1, MaxFramesType DEF Pieces, SentPiece, Own
<1>5. ASSUME OwnBody(r), Len(body[r]) # 0 PROVE FALSE
  <2>1. body[r] \in Seq(Parts) /\ 1 \in DOMAIN body[r]
    <3>1. Len(body[r]) \in Nat /\ DOMAIN body[r] = 1 .. Len(body[r])
      BY <1>1, BodyParts
    <3>2. body[r] \in Seq(Parts)
      BY <1>1 DEF TypeOK
    <3> QED  BY <1>5, <3>1, <3>2
  <2>2. \A e \in Parts : e.idx \in Nat \ {0}
    BY MaxFramesType DEF Parts
  <2>3. body[r][1].idx \in Nat \ {0}
    BY <2>1, <2>2
  <2>4. SentPiece(body[r][1]) /\ body[r][1].of = r
    BY <1>5, <2>1 DEF OwnBody, StreamInv, OrderInv, SentOnly
  <2> QED  BY <1>2, <2>3, <2>4 DEF SentPiece
<1> QED  BY <1>3, <1>4, <1>5

\* DoRequest writes the piece that it holds.
LEMMA BodyGrows ==
  ASSUME TypeOK, NEW r \in Reqs, WriteBody(r)
  PROVE  /\ Len(body'[r]) = Len(body[r]) + 1
         /\ DOMAIN body'[r] = 1 .. Len(body[r]) + 1
         /\ \A i \in 1 .. Len(body[r]) : body'[r][i] = body[r][i]
         /\ body'[r][Len(body[r]) + 1] = Part(hand[r])
         /\ hand'[r] = NoFrame /\ hand[r].kind = "piece"
         /\ pc'[r] = "done" => hand[r].last
<1> DEFINE e == Part(hand[r])
<1>1. hand[r] \in Pieces
  BY PieceTypes DEF WriteBody
<1>2. body[r] \in Seq(Parts) /\ e \in Parts /\ body'[r] = Append(body[r], e)
  BY <1>1 DEF WriteBody, TypeOK, Pieces, Parts, Part
<1>3. /\ hand'[r] = NoFrame /\ hand[r].kind = "piece"
      /\ pc'[r] = "done" => hand[r].last
  BY DEF WriteBody, Return, TypeOK
<1> HIDE DEF e
<1>4. /\ Len(body'[r]) = Len(body[r]) + 1
      /\ DOMAIN body'[r] = 1 .. Len(body[r]) + 1
      /\ \A i \in 1 .. Len(body[r]) : body'[r][i] = body[r][i]
      /\ body'[r][Len(body[r]) + 1] = e
  BY <1>2
<1> QED  BY <1>3, <1>4 DEF e

LEMMA WroteOwn ==
  ASSUME TypeOK, NEW r \in Reqs, WriteBody(r), OwnBody(r)'
  PROVE  OnlyOwn(r)
<1> DEFINE n == Len(body[r])
<1>1. n \in Nat /\ DOMAIN body[r] = 1 .. n
  BY BodyParts
<1>2. /\ DOMAIN body'[r] = 1 .. n + 1
      /\ \A i \in 1 .. n : body'[r][i] = body[r][i]
      /\ body'[r][n + 1] = Part(hand[r])
  BY BodyGrows
<1> HIDE DEF n
<1>3. \A i \in 1 .. n : i \in 1 .. n + 1
  BY <1>1
<1>4. n + 1 \in 1 .. n + 1
  BY <1>1
<1>5. \A i \in 1 .. n + 1 : body'[r][i].of = r
  BY <1>2 DEF OwnBody
<1>6. hand[r].of = body'[r][n + 1].of
  BY <1>2 DEF Part
<1> QED  BY <1>1, <1>2, <1>3, <1>4, <1>5, <1>6 DEF OwnBody, OnlyOwn

LEMMA PrefixWritten ==
  ASSUME TypeOK, NEW r \in Reqs, WriteBody(r), PrefixArrived(r), total' = total
  PROVE  /\ PrefixArrived(r)'
         /\ \A k \in Nat : Got(r, k) => Got(r, k)'
         /\ hand[r].last => Len(body'[r]) = total[r]
<1> DEFINE n == Len(body[r])
<1>1. n \in Nat /\ DOMAIN body[r] = 1 .. n
  BY BodyParts
<1>2. /\ Len(body'[r]) = n + 1
      /\ DOMAIN body'[r] = 1 .. n + 1
      /\ \A i \in 1 .. n : body'[r][i] = body[r][i]
      /\ body'[r][n + 1] = Part(hand[r])
      /\ hand'[r] = NoFrame /\ hand[r].kind = "piece"
  BY BodyGrows
<1>3. hand[r].idx = n + 1 /\ (hand[r].last => hand[r].idx = total[r])
  BY <1>2 DEF PrefixArrived
<1>4. \A i \in 1 .. n : body[r][i].idx = i
  BY <1>1 DEF PrefixArrived
<1>5. \A k \in Nat : Got(r, k) => k <= n + 1
  BY <1>1, <1>3 DEF Got
<1>6. \A k \in Nat : k <= n + 1 => Got(r, k)'
  BY <1>2 DEF Got
<1>7. hand[r].last => Len(body'[r]) = total[r]
  BY <1>2, <1>3
<1> HIDE DEF n
<1>8. \A i \in 1 .. n + 1 : body'[r][i].idx = i
  <2> SUFFICES ASSUME NEW i \in 1 .. n + 1 PROVE body'[r][i].idx = i
    OBVIOUS
  <2>1. i \in 1 .. n \/ i = n + 1
    BY <1>1
  <2> QED  BY <1>2, <1>3, <1>4, <2>1 DEF Part
<1>9. PrefixArrived(r)'
  BY <1>2, <1>8 DEF PrefixArrived, NoFrame
<1> QED  BY <1>5, <1>6, <1>7, <1>9

LEMMA WholeRequest ==
  ASSUME StreamInv, NEW r \in Reqs, NEW x \in Reqs, RequestStep(x),
         Whole(r), pc'[r] # "done"
  PROVE  Whole(r)'
<1>1. TypeOK
  BY DEF StreamInv, FrameInv, TableInv
<1>2. UNCHANGED <<session, link, up, job, next, total>>
  BY DEF RequestStep, NotFound, Prepare, SendRequest, SendRequestFails,
     Select, Timeout, BadGateway, WriteHeaderPanics, WriteBody, WriteFails,
     wires, agentVars
<1>3. CASE Prepare(r)
  <2>1. job[r] = "none" /\ UNCHANGED <<hand, body>>
    BY <1>3 DEF Prepare, StreamInv, FrameInv, JobInv, JobsFit
  <2>2. PrefixArrived(r)'
    BY <1>2, <2>1 DEF Whole, PrefixArrived
  <2>3. \A j \in DOMAIN up : ~Own(r, j)
    BY <2>1, NoneSent
  <2> QED
    BY <1>2, <2>1, <2>2, <2>3 DEF Whole, WireWhole, JobWhole, Own
<1>4. CASE WriteBody(r)
  <2>1. PrefixArrived(r)' /\ \A k \in Nat : Got(r, k) => Got(r, k)'
    BY <1>1, <1>2, <1>4, PrefixWritten DEF Whole
  <2>2. ASSUME Lives(r)' PROVE WireWhole(r) /\ JobWhole(r)
    <3>1. client' = client
      BY <1>4 DEF WriteBody
    <3> QED  BY <1>2, <2>2, <3>1 DEF Whole, Lives
  <2>3. \A k, j : Ahead(r, k, j) => \E i \in DOMAIN up' :
                       i < j /\ Own(r, i)' /\ up'[i].idx = k
    BY <1>2 DEF Ahead, Own
  <2>4. ASSUME Lives(r)' PROVE WireWhole(r)'
    BY <1>2, <2>1, <2>2, <2>3, <2>4 DEF WireWhole, Own, Ahead
  <2>5. ASSUME Lives(r)' PROVE JobWhole(r)'
    <3>1. \A k \in 1 .. next[r] - 1 :
             Got(r, k) \/ Ahead(r, k, Len(up) + 1)
                => Got(r, k)' \/ Ahead(r, k, Len(up) + 1)'
      <4>1. \A k : Ahead(r, k, Len(up) + 1) => Ahead(r, k, Len(up) + 1)'
        BY <1>2 DEF Ahead, Own
      <4>2. \A k \in 1 .. next[r] - 1 : k \in Nat
        OBVIOUS
      <4> QED  BY <2>1, <4>1, <4>2
    <3>2. JobWhole(r)
      BY <2>2, <2>5
    <3> QED  BY <1>2, <3>1, <3>2 DEF JobWhole
  <2> QED  BY <2>1, <2>4, <2>5 DEF Whole
<1>5. CASE ~Prepare(r) /\ ~WriteBody(r)
  <2>1. client'[r] = client[r] /\ hand'[r] = hand[r] /\ body'[r] = body[r]
    <3>1. CASE x = r
      BY <1>1, <1>5, <3>1 DEF RequestStep, NotFound, SendRequest,
         SendRequestFails, Select, Timeout, BadGateway, WriteHeaderPanics,
         WriteFails, Return, TypeOK
    <3>2. CASE x # r
      BY <1>1, <3>2 DEF RequestStep, NotFound, Prepare, SendRequest,
         SendRequestFails, Select, Timeout, BadGateway, WriteHeaderPanics,
         WriteBody, WriteFails, Return, TypeOK
    <3> QED  BY <3>1, <3>2
  <2> QED  BY <1>1, <1>2, <2>1, WholeKept DEF Lives
<1> QED  BY <1>3, <1>4, <1>5

LEMMA WholeJob ==
  ASSUME StreamInv, NEW r \in Reqs, NEW x \in Reqs, JobStep(x),
         Whole(r), ~BodyCut(r), Lives(r) => ~FrameCut
  PROVE  Whole(r)'
<1>1. TypeOK
  BY DEF StreamInv, FrameInv, TableInv
<1>2. UNCHANGED <<session, link, client, hand, body, total>>
  BY DEF JobStep, SendPiece, SendPieceFails, SendLast, SendLastFails,
     SendError, UpstreamFails, serverVars
<1>3. x # r => job'[r] = job[r] /\ next'[r] = next[r]
  BY <1>1, JobSteps
<1>4. \A last \in BOOLEAN :
         /\ Piece(x, last) \in Pieces /\ Piece(x, last) \in UpFrames
         /\ Piece(x, last).of = x /\ Piece(x, last).idx = next[x]
         /\ Piece(x, last).last = last
  BY <1>1, PiecesFit DEF Piece, UpFrames
<1>5. CASE ~Lives(r)
  BY <1>2, <1>5 DEF Whole, PrefixArrived, Lives
<1>6. CASE Lives(r) /\ up' = up /\ (x # r \/ job'[r] = "done")
  <2>1. PrefixArrived(r)' /\ WireWhole(r) /\ JobWhole(r)
    BY <1>2, <1>6 DEF Whole, PrefixArrived
  <2>2. WireWhole(r)'
    BY <1>2, <1>6, <2>1 DEF WireWhole, Own, Ahead, Got
  <2>3. JobWhole(r)'
    BY <1>2, <1>3, <1>6, <2>1 DEF JobWhole, Own, Ahead, Got
  <2> QED  BY <2>1, <2>2, <2>3 DEF Whole
<1>7. ASSUME NEW f \in Pieces \cup Errors, WriteFailed(f), Lives(r)
      PROVE  up' = up
  <2>1. Cut(f) \in UpFrames /\ ~Cut(f).whole
    BY CutFits DEF UpFrames
  <2>2. CASE up' = Append(up, Cut(f))
    <3>1. Len(up') > Len(up) /\ up'[Len(up')] = Cut(f)
      BY <1>1, <2>1, <2>2, UpAppended
    <3> QED  BY <1>7, <2>1, <3>1 DEF FrameCut
  <2> QED  BY <1>7, <2>2 DEF WriteFailed
<1>8. CASE Lives(r) /\ SendPiece(x)
  <2>1. /\ job[x] = "run" /\ next[x] < total[x]
        /\ up' = Append(up, Piece(x, FALSE))
        /\ job' = job /\ next'[x] = next[x] + 1
    BY <1>1, <1>8 DEF SendPiece, Write, Lives, TypeOK
  <2>2. CASE x = r
    BY <1>1, <1>2, <1>4, <2>1, <2>2, WholeSends
  <2>3. CASE x # r
    BY <1>1, <1>2, <1>3, <1>4, <2>1, <2>3, WholeOther
  <2> QED  BY <2>2, <2>3
<1>9. CASE Lives(r) /\ SendLast(x)
  <2>1. /\ job[x] = "flush" \/ (job[x] = "run" /\ next[x] = total[x])
        /\ up' = Append(up, Piece(x, TRUE))
        /\ job'[x] = "done"
    BY <1>1, <1>9 DEF SendLast, Finished, Write, Lives, TypeOK
  <2>2. CASE x = r
    BY <1>1, <1>2, <1>4, <2>1, <2>2, WholeSends
  <2>3. CASE x # r
    BY <1>1, <1>2, <1>3, <1>4, <2>1, <2>3, WholeOther
  <2> QED  BY <2>2, <2>3
<1>10. CASE Lives(r) /\ SendError(x)
  <2> DEFINE e == ErrorFrame(x)
  <2>1. job'[x] = "done"
    BY <1>1, <1>10 DEF SendError, TypeOK
  <2>2. e \in Errors /\ e \in UpFrames /\ e.kind # "piece"
    BY <1>1, ErrorsFit DEF Errors, UpFrames
  <2>3. up' = up \/ up' = Append(up, e)
    BY <1>7, <1>10, <2>2 DEF SendError, Write
  <2>4. CASE up' = Append(up, e)
    <3>1. (job'[r] = job[r] /\ next'[r] = next[r]) \/ job'[r] = "done"
      BY <1>3, <2>1
    <3> QED  BY <1>1, <1>2, <2>2, <2>4, <3>1, WholeOther
  <2> QED  BY <1>6, <1>10, <2>1, <2>3, <2>4
<1>11. CASE Lives(r) /\ SendLastFails(x)
  <2>1. job'[x] = "done" /\ up' = up
    BY <1>1, <1>4, <1>7, <1>11 DEF SendLastFails, TypeOK
  <2> QED  BY <1>6, <1>11, <2>1
<1>12. CASE Lives(r) /\ (UpstreamFails(x) \/ SendPieceFails(x))
  <2>1. up' = up
    BY <1>4, <1>7, <1>12 DEF UpstreamFails, SendPieceFails, wires
  <2>2. x # r
    BY <1>12 DEF BodyCut
  <2> QED  BY <1>6, <1>12, <2>1, <2>2
<1> QED
  BY <1>5, <1>8, <1>9, <1>10, <1>11, <1>12 DEF JobStep

LEMMA WholeStart ==
  ASSUME StreamInv, NEW r \in Reqs, StartJob \/ ReceiveCutRequest,
         Whole(r), OnlyOwn(r)
  PROVE  Whole(r)'
<1> DEFINE o == Head(down).of
<1>1. TypeOK /\ JobInv
  BY DEF StreamInv, FrameInv, TableInv
<1>2. /\ UNCHANGED <<session, link, up, client, hand, body, next>>
      /\ \/ UNCHANGED <<job, total>>
         \/ /\ job' = [job EXCEPT ![o] = "run"]
            /\ \E n \in 1 .. MaxFrames : total' = [total EXCEPT ![o] = n]
  BY DEF StartJob, ReceiveCutRequest, Start, serverVars
<1>3. o \in Reqs /\ job[o] = "none"
  BY <1>1, DownTaken
<1> HIDE DEF o
<1>4. CASE UNCHANGED <<job, total>> \/ o # r
  BY <1>1, <1>2, <1>4, WholeKept DEF Lives, TypeOK
<1>5. CASE ~UNCHANGED <<job, total>> /\ o = r
  <2>1. job[r] = "none" /\ next[r] = 1
    BY <1>1, <1>3, <1>5 DEF JobInv, JobsFit
  <2>2. PrefixArrived(r)'
    BY <1>2, <2>1, NoneSent DEF Whole, PrefixArrived, OnlyOwn
  <2>3. WireWhole(r)'
    BY <1>2, <2>1, NoneSent DEF WireWhole, Own
  <2>4. JobWhole(r)'
    <3>1. job'[r] = "run" /\ next'[r] = 1
      BY <1>1, <1>2, <1>5, <2>1 DEF TypeOK
    <3> QED  BY <3>1 DEF JobWhole
  <2> QED  BY <2>2, <2>3, <2>4 DEF Whole
<1> QED  BY <1>4, <1>5

\* The connection comes or goes.
LEMMA WholeConnection ==
  ASSUME StreamInv, NEW r \in Reqs, Whole(r),
         Connect \/ Login \/ Break \/ ReceiveRest \/ UNCHANGED vars
  PROVE  Whole(r)'
<1>1. TypeOK /\ ClientsKnown
  BY DEF StreamInv, FrameInv, TableInv
<1>2. UNCHANGED <<client, hand, body, job, next, total>>
  BY DEF Connect, Login, Break, ReceiveRest, vars, serverVars, agentVars
<1>3. Lives(r)' => Lives(r) /\ up' = up
  <2>1. CASE Connect
    <3>1. client[r] # session + 1
      BY <1>1 DEF ClientsKnown, TypeOK
    <3> QED  BY <1>2, <2>1, <3>1 DEF Connect, Lives
  <2>2. CASE Login \/ UNCHANGED vars
    BY <1>2, <2>2 DEF Login, vars, wires, Lives
  <2>3. CASE Break \/ ReceiveRest
    BY <2>3 DEF Break, ReceiveRest, Disconnected, Lives
  <2> QED  BY <2>1, <2>2, <2>3
<1> QED  BY <1>1, <1>2, <1>3, WholeKept

\* A request that has not ended and has seen nothing foreign was so before.
LEMMA OwnBefore ==
  ASSUME StreamInv, HandHeld, [Next]_vars, NEW r \in Reqs,
         pc'[r] # "done", OnlyOwn(r)'
  PROVE  pc[r] # "done" /\ OnlyOwn(r)
<1>1. TypeOK
  BY DEF StreamInv, FrameInv, TableInv
<1>2. CASE WriteBody(r)
  BY <1>1, <1>2, WroteOwn DEF WriteBody, OnlyOwn
<1>3. ASSUME NEW x \in Reqs, RequestStep(x), ~WriteBody(r)
      PROVE  pc[r] # "done" /\ hand'[r] = hand[r] /\ body'[r] = body[r]
  <2>1. CASE x = r
    BY <1>1, <1>3, <2>1 DEF RequestStep, NotFound, Prepare, SendRequest,
       SendRequestFails, Select, Timeout, BadGateway, WriteHeaderPanics,
       WriteFails, Return, TypeOK
  <2>2. CASE x # r
    BY <1>1, <1>3, <2>2 DEF RequestStep, NotFound, Prepare, SendRequest,
       SendRequestFails, Select, Timeout, BadGateway, WriteHeaderPanics,
       WriteBody, WriteFails, Return, TypeOK
  <2> QED  BY <2>1, <2>2
<1>4. CASE ReceiveFrame \/ ReceiveCut
  <2>1. body' = body /\ (hand'[r] = hand[r] \/ hand[r] = NoFrame)
        /\ pc[r] # "done"
    BY <1>1, <1>4 DEF ReceiveFrame, ReceiveCut, Takers, HandHeld, TypeOK
  <2> QED  BY <2>1 DEF OnlyOwn, OwnBody, NoFrame
<1>5. ASSUME NEW x \in Reqs, JobStep(x) PROVE UNCHANGED <<pc, hand, body>>
  BY <1>5 DEF JobStep, SendPiece, SendPieceFails, SendLast, SendLastFails,
     SendError, UpstreamFails, serverVars
<1>6. CASE Connect \/ Login \/ Break \/ ReceiveRest \/ StartJob
             \/ ReceiveCutRequest \/ UNCHANGED vars
  BY <1>6 DEF Connect, Login, Break, ReceiveRest, StartJob, ReceiveCutRequest,
     vars, serverVars, OnlyOwn, OwnBody
<1> QED
  BY <1>2, <1>3, <1>4, <1>5, <1>6 DEF Next, Receiver, OnlyOwn, OwnBody

LEMMA WholeNext ==
  ASSUME StreamInv, HandHeld, [LossNext]_lossVars, NEW r \in Reqs,
         client[r] \notin cuts, client'[r] \notin cuts',
         OnlyOwn(r), Whole(r), pc'[r] # "done", OnlyOwn(r)',
         ~BodyCut(r), ~PieceDropped(r)
  PROVE  Whole(r)'
<1>1. TypeOK /\ [Next]_vars
  BY CutsGrow DEF StreamInv, FrameInv, TableInv
<1>2. Lives(r) => ~FrameCut
  <2> SUFFICES ASSUME Lives(r), FrameCut PROVE FALSE
    OBVIOUS
  <2>1. session \in cuts'
    BY DEF FrameCut, LossNext, lossVars, vars, wires
  <2>2. session # 0
    BY <1>1, CutSteps
  <2>3. client'[r] = session
    BY <1>1, <2>2, Stable DEF Lives, StreamInv, FrameInv
  <2> QED  BY <2>1, <2>3
<1>3. ASSUME NEW x \in Reqs, JobStep(x) PROVE Whole(r)'
  BY <1>2, <1>3, WholeJob
<1> QED
  BY <1>1, <1>3, WholeConnection, WholeStart, WholeReceive, WholeReceiveCut,
     WholeRequest DEF Next, Receiver

\* The number of pieces is settled when the job starts.
LEMMA TotalKept ==
  ASSUME StreamInv, [Next]_vars, NEW r \in Reqs, job[r] # "none"
  PROVE  total'[r] = total[r]
<1>1. TypeOK /\ JobInv
  BY DEF StreamInv, FrameInv, TableInv
<1>2. CASE StartJob \/ ReceiveCutRequest
  <2>1. Head(down).of # r
    BY <1>1, <1>2, DownTaken
  <2> QED  BY <1>1, <1>2, <2>1 DEF StartJob, ReceiveCutRequest, Start, TypeOK
<1>3. ASSUME NEW x \in Reqs, RequestStep(x) \/ JobStep(x)
      PROVE  total' = total
  BY <1>3 DEF RequestStep, NotFound, Prepare, SendRequest, SendRequestFails,
     Select, Timeout, BadGateway, WriteHeaderPanics, WriteBody, WriteFails,
     agentVars, JobStep, SendPiece, SendPieceFails, SendLast, SendLastFails,
     SendError, UpstreamFails
<1> QED
  BY <1>2, <1>3 DEF Next, Receiver, Connect, Login, Break, ReceiveFrame,
     ReceiveCut, ReceiveRest, vars, agentVars

LEMMA DoneNext ==
  ASSUME StreamInv, [Next]_vars, NEW r \in Reqs,
         pc[r] # "done" /\ OnlyOwn(r) => Whole(r),
         status[r] = "ok" /\ OwnBody(r) => Len(body[r]) = total[r],
         status'[r] = "ok", OwnBody(r)'
  PROVE  Len(body'[r]) = total'[r]
<1>1. TypeOK /\ Answered(r)
  BY DEF StreamInv, FrameInv, TableInv, AnswerInv
<1>2. CASE status[r] = "ok"
  <2>1. pc[r] = "done"
    BY <1>1, <1>2 DEF Answered
  <2>2. body'[r] = body[r]
    <3>1. ASSUME NEW x \in Reqs, WriteBody(x) PROVE body'[r] = body[r]
      BY <1>1, <2>1, <3>1 DEF WriteBody, TypeOK
    <3> QED  BY <1>1, <3>1, AnswerSteps DEF Waits, Quits
  <2>3. Len(body[r]) = total[r] /\ OwnBody(r)
    BY <1>2, <2>2 DEF OwnBody
  <2>4. job[r] # "none"
    <3>1. total[r] # 0
      BY <1>1, MaxFramesType DEF TypeOK
    <3> QED  BY <2>3, <3>1, NoneSent
  <2> QED  BY <2>2, <2>3, <2>4, TotalKept
<1>3. CASE status[r] # "ok"
  <2>1. WriteBody(r) /\ pc'[r] = "done"
    <3>1. ASSUME NEW x \in Reqs, Quits(x) PROVE FALSE
      BY <1>1, <1>3, <3>1 DEF Quits, TypeOK
    <3>2. ASSUME NEW x \in Reqs, WriteBody(x) PROVE x = r /\ pc'[r] = "done"
      <4>1. Writes(x)
        BY <1>1, <3>2, WriteBodyWrites
      <4> QED  BY <1>1, <1>3, <4>1 DEF Writes, TypeOK
    <3> QED  BY <1>1, <1>3, <3>1, <3>2, AnswerSteps DEF Waits
  <2>2. Whole(r)
    BY <1>1, <2>1, WroteOwn DEF WriteBody
  <2>3. total' = total
    BY <2>1 DEF WriteBody, agentVars
  <2>4. hand[r].last
    BY <1>1, <2>1, BodyGrows
  <2> QED  BY <1>1, <2>1, <2>2, <2>3, <2>4, PrefixWritten DEF Whole
<1> QED  BY <1>2, <1>3

LEMMA InitLoss == LossInit => LossInv
<1> SUFFICES ASSUME LossInit PROVE LossInv
  OBVIOUS
<1>1. StreamInv
  BY InitStreamInv
<1>2. HandHeld /\ 0 \notin cuts
  BY DEF LossInit, Init, HandHeld
<1>3. ASSUME NEW r \in Reqs PROVE Whole(r)
  BY <1>3 DEF LossInit, Init, Whole, PrefixArrived, Lives, NoFrame
<1>4. \A r \in Reqs : status[r] # "ok"
  BY DEF LossInit, Init
<1> QED  BY <1>1, <1>2, <1>3, <1>4 DEF LossInv, WholeInv

\* An idle request has no job that could lose a piece.
LEMMA IdleLosesNothing ==
  ASSUME StreamInv, NEW r \in Reqs, pc[r] = "idle"
  PROVE  ~BodyCut(r) /\ ~PieceDropped(r)
<1>1. TypeOK /\ job[r] = "none" /\ client[r] = 0
  BY DEF StreamInv, FrameInv, TableInv, JobInv, JobsFit, ClientsKnown
<1>2. ~BodyCut(r)
  BY <1>1 DEF BodyCut, UpstreamFails, SendPieceFails
<1>3. ~PieceDropped(r)
  <2> SUFFICES ASSUME PieceDropped(r) PROVE FALSE
    OBVIOUS
  <2>1. 1 \in DOMAIN up /\ up[1].kind = "piece" /\ up[1].of = r
    BY <1>1, UpTaken DEF PieceDropped
  <2> QED
    BY <1>1, <2>1 DEF StreamInv, FrameInv, StrayInv, WiresKnown, Known
<1> QED  BY <1>2, <1>3

LEMMA NextLoss == LossInv /\ [LossNext]_lossVars => LossInv'
<1> SUFFICES ASSUME LossInv, [LossNext]_lossVars PROVE LossInv'
  OBVIOUS
<1>1. StreamInv /\ HandHeld /\ TypeOK /\ TableInv
      /\ [Next]_vars /\ cuts \subseteq cuts'
  BY CutsGrow DEF LossInv, StreamInv, FrameInv, TableInv
<1>2. StreamInv' /\ HandHeld'
  BY <1>1, NextStreamInv, HeldNext
<1>3. 0 \notin cuts'
  BY <1>1, CutSteps DEF LossInv, LossNext, lossVars
<1>4. ASSUME NEW r \in Reqs, r \notin lost', client'[r] \notin cuts'
      PROVE  /\ pc'[r] # "done" /\ OnlyOwn(r)' => Whole(r)'
             /\ status'[r] = "ok" /\ OwnBody(r)' => Len(body'[r]) = total'[r]
  <2>1. client[r] \notin cuts
    BY <1>1, <1>4, Stable DEF LossInv
  <2>2. ASSUME r \notin lost
        PROVE  /\ pc[r] # "done" /\ OnlyOwn(r) => Whole(r)
               /\ status[r] = "ok" /\ OwnBody(r) => Len(body[r]) = total[r]
    BY <2>1, <2>2 DEF LossInv, WholeInv
  <2>3. ASSUME pc'[r] # "done", OnlyOwn(r)' PROVE Whole(r)'
    <3>1. pc[r] # "done" /\ OnlyOwn(r)
      BY <1>1, <2>3, OwnBefore
    <3>2. status'[r] = "none"
      BY <1>2, <2>3 DEF StreamInv, AnswerInv, Answered
    <3>3. r \notin lost /\ (UNCHANGED vars \/ ~Losing(r))
      BY <1>4, <3>2 DEF LossNext, lossVars
    <3>4. CASE UNCHANGED vars
      BY <1>1, <2>2, <3>1, <3>3, <3>4, WholeConnection
    <3>5. CASE ~Losing(r)
      <4>1. ~BodyCut(r) /\ ~PieceDropped(r)
        BY <1>1, <3>1, <3>5, IdleLosesNothing
           DEF Losing, Waiting, TypeOK, RequestPcs
      <4> QED  BY <1>1, <1>4, <2>1, <2>2, <2>3, <3>1, <3>3, <4>1, WholeNext
    <3> QED  BY <3>3, <3>4, <3>5
  <2>4. ASSUME status'[r] = "ok", OwnBody(r)'
        PROVE  Len(body'[r]) = total'[r]
    <3>1. r \notin lost
      BY <1>4, <2>4 DEF LossNext, lossVars
    <3> QED  BY <1>1, <2>2, <2>4, <3>1, DoneNext
  <2> QED  BY <2>3, <2>4
<1> QED  BY <1>2, <1>3, <1>4 DEF LossInv, WholeInv

\* An answer that ends without an error, and is the request's own, is the whole
\* response, unless ReadFrom stopped short of the end, DoRequest was not
\* waiting when one of the pieces came, or a Send was cut on the connection.
THEOREM OkIsWholeUnlessLost == LossSpec => []OkIsWhole
<1>1. LossInv => OkIsWhole
  BY DEF LossInv, WholeInv, OkIsWhole
<1> QED  BY <1>1, InitLoss, NextLoss, PTL DEF LossSpec

=============================================================================
