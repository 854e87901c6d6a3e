--------------------------- MODULE ExchangeProofs ---------------------------
(***************************************************************************)
(* Exchange for all numbers of requests, sessions and frames.              *)
(***************************************************************************)
EXTENDS ExchangeLoss, TLAPS

\* What may be on the wires.
UpFrames == Pieces \cup Errors \cup {Rest}
DownFrames == Requests \cup {Rest}

-----------------------------------------------------------------------------

LEMMA CutFits ==
  /\ \A f \in Pieces : /\ Cut(f) \in Pieces /\ ~Cut(f).whole
                       /\ \A last \in BOOLEAN :
                             [f EXCEPT !.last = last] \in Pieces
  /\ \A f \in Errors : Cut(f) \in Errors /\ ~Cut(f).whole
  /\ \A f \in Requests : Cut(f) \in Requests
BY DEF Pieces, Errors, Requests, Cut

LEMMA PiecesFit ==
  ASSUME TypeOK, NEW r \in Reqs, NEW last \in BOOLEAN
  PROVE  Piece(r, last) \in Pieces
BY DEF TypeOK, Piece, Pieces

LEMMA ErrorsFit ==
  ASSUME TypeOK, NEW r \in Reqs
  PROVE  ErrorFrame(r) \in Errors /\ RequestFrame(r) \in Requests
BY DEF TypeOK, ErrorFrame, RequestFrame, Errors, Requests

LEMMA AppendFits ==
  ASSUME NEW S, NEW s \in Seq(S), NEW e \in S PROVE Append(s, e) \in Seq(S)
OBVIOUS

LEMMA TailFits ==
  ASSUME NEW S, NEW s \in Seq(S), s # <<>>
  PROVE  Head(s) \in S /\ Tail(s) \in Seq(S)
OBVIOUS

LEMMA EmptyFits ==
  ASSUME NEW S PROVE <<>> \in Seq(S)
OBVIOUS

LEMMA WiresFit ==
  ASSUME TypeOK
  PROVE  /\ up \in Seq(UpFrames)
         /\ down \in Seq(DownFrames)
         /\ Rest \in UpFrames
         /\ Rest \in DownFrames
BY DEF TypeOK, UpFrames, DownFrames

LEMMA WriteFits ==
  ASSUME TypeOK, NEW f \in Pieces \cup Errors, Write(f) \/ WriteFailed(f)
  PROVE  up' \in Seq(UpFrames)
<1>1. f \in UpFrames /\ Cut(f) \in UpFrames
  BY CutFits DEF UpFrames
<1> QED  BY <1>1, WiresFit, AppendFits DEF Write, WriteFailed

\* What a step leaves on a wire that it takes frames off: the wire without
\* some frames at its head.
Behind(w, v) ==
    \E m \in Nat \ {0} :
        /\ m <= Len(v)
        /\ Len(w) = Len(v) - m
        /\ \A i \in DOMAIN w : i \in Nat \ {0} /\ i + m \in DOMAIN v /\ w[i] = v[i + m]

LEMMA TailBehind ==
  ASSUME NEW S, NEW s \in Seq(S), s # <<>>
  PROVE  Behind(Tail(s), s)
<1>1. /\ 1 \in Nat \ {0} /\ 1 <= Len(s) /\ Len(Tail(s)) = Len(s) - 1
      /\ \A i \in DOMAIN Tail(s) :
            i \in Nat \ {0} /\ i + 1 \in DOMAIN s /\ Tail(s)[i] = s[i + 1]
  OBVIOUS
<1> QED  BY <1>1 DEF Behind

LEMMA RemaindersAre ==
  ASSUME NEW S, NEW s \in Seq(S), s # <<>>, NEW w \in Remainders(s)
  PROVE  w = <<Rest>> \/ (w \in Seq(S) /\ Behind(w, s))
<1>1. CASE w = <<Rest>>
  BY <1>1
<1>2. ASSUME NEW n \in 2 .. Len(s) + 1, w = SubSeq(s, n, Len(s))
      PROVE  w \in Seq(S) /\ Behind(w, s)
  <2>1. /\ Len(s) \in Nat \ {0} /\ DOMAIN s = 1 .. Len(s)
        /\ n \in Nat /\ n - 1 \in Nat \ {0} /\ n - 1 <= Len(s)
    BY <1>2
  <2>2. w \in Seq(S) /\ Len(w) = Len(s) - (n - 1)
    BY <1>2, <2>1
  <2>3. \A i \in 1 .. Len(w) : w[i] = s[i + (n - 1)]
    BY <1>2, <2>1, <2>2
  <2>4. \A i \in DOMAIN w : i \in Nat \ {0} /\ i + (n - 1) \in DOMAIN s
    BY <2>1, <2>2
  <2>5. DOMAIN w = 1 .. Len(w)
    BY <2>2
  <2> QED  BY <2>1, <2>2, <2>3, <2>4, <2>5 DEF Behind
<1> QED  BY <1>1, <1>2 DEF Remainders

LEMMA RemaindersFit ==
  ASSUME NEW S, Rest \in S, NEW s \in Seq(S), s # <<>>, NEW w \in Remainders(s)
  PROVE  w \in Seq(S)
<1>1. <<Rest>> \in Seq(S)
  OBVIOUS
<1> QED  BY <1>1, RemaindersAre

LEMMA ReturnFits ==
  ASSUME TypeOK, NEW r \in Reqs, NEW end \in Ends, Return(r, end)
  PROVE  /\ pc' \in [Reqs -> RequestPcs]
         /\ status' \in [Reqs -> Ends \cup {"none"}]
         /\ requests' \in [Sessions -> SUBSET Reqs]
         /\ hand' \in [Reqs -> Pieces \cup Errors \cup {NoFrame}]
BY DEF TypeOK, Return, RequestPcs

LEMMA InitType == Init => TypeOK
BY MaxSessionsType, MaxFramesType
   DEF Init, TypeOK, Sessions, RequestPcs, JobPcs

LEMMA ConnectionType ==
  ASSUME TypeOK, Connect \/ Login \/ Break \/ ReceiveRest
  PROVE  TypeOK'
<1>1. /\ UNCHANGED <<serverVars, agentVars>>
      /\ \/ UNCHANGED wires
         \/ up' = <<>> /\ down' = <<>>
  BY DEF Connect, Login, Break, ReceiveRest, Disconnected
<1>2. up' \in Seq(UpFrames) /\ down' \in Seq(DownFrames)
  BY <1>1, WiresFit, EmptyFits DEF wires
<1>3. /\ session' \in 0 .. MaxSessions
      /\ link' \in {"down", "dialed", "up"}
      /\ session' = 0 => link' = "down"
  BY MaxSessionsType
     DEF TypeOK, Connect, Login, Break, ReceiveRest, Disconnected
<1> QED
  BY <1>1, <1>2, <1>3
     DEF TypeOK, serverVars, agentVars, UpFrames, DownFrames

LEMMA RequestType ==
  ASSUME TypeOK, NEW r \in Reqs, RequestStep(r)
  PROVE  TypeOK'
<1> USE DEF wires, serverVars, agentVars
<1>1. CASE NotFound(r)
  BY <1>1 DEF NotFound, TypeOK, RequestPcs, Ends
<1>2. CASE Prepare(r)
  <2>1. session \in Sessions
    BY <1>2 DEF Prepare, TypeOK, Sessions
  <2>2. /\ lastSeq' \in [Sessions -> Nat]
        /\ requests' \in [Sessions -> SUBSET Reqs]
        /\ seq' \in [Reqs -> Nat]
        /\ client' \in [Reqs -> 0 .. MaxSessions]
        /\ pc' \in [Reqs -> RequestPcs]
    BY <1>2, <2>1 DEF Prepare, TypeOK, RequestPcs
  <2> QED  BY <1>2, <2>2 DEF Prepare, TypeOK
<1>3. CASE SendRequest(r)
  <2>1. RequestFrame(r) \in DownFrames
    BY ErrorsFit DEF DownFrames
  <2>2. down' \in Seq(Requests \cup {Rest})
    BY <1>3, <2>1, WiresFit, AppendFits DEF SendRequest, DownFrames
  <2>3. pc' \in [Reqs -> RequestPcs]
    BY <1>3 DEF SendRequest, TypeOK, RequestPcs
  <2> QED  BY <1>3, <2>2, <2>3 DEF SendRequest, TypeOK
<1>4. CASE SendRequestFails(r)
  <2>1. down' \in Seq(Requests \cup {Rest})
    <3>1. Cut(RequestFrame(r)) \in DownFrames
      BY ErrorsFit, CutFits DEF DownFrames
    <3> QED  BY <1>4, <3>1, WiresFit, AppendFits DEF SendRequestFails, DownFrames
  <2>2. "sendError" \in Ends
    BY DEF Ends
  <2> QED  BY <1>4, <2>1, <2>2, ReturnFits DEF SendRequestFails, TypeOK
<1>5. CASE Select(r)
  BY <1>5 DEF Select, TypeOK, RequestPcs
<1>6. CASE Timeout(r) \/ BadGateway(r) \/ WriteHeaderPanics(r)
  BY <1>6, ReturnFits DEF Timeout, BadGateway, WriteHeaderPanics, TypeOK, Ends
<1>7. CASE WriteBody(r)
  <2>1. hand[r] \in Pieces
    <3>1. hand[r] \in Pieces \cup Errors \cup {NoFrame}
      BY DEF TypeOK
    <3>2. \A e \in Errors : e.kind = "error"
      BY DEF Errors
    <3> QED  BY <1>7, <3>1, <3>2 DEF WriteBody, NoFrame
  <2>2. [of |-> hand[r].of, idx |-> hand[r].idx, whole |-> hand[r].whole]
           \in Parts
    BY <2>1 DEF Pieces, Parts
  <2>3. head' \in [Reqs -> BOOLEAN] /\ body' \in [Reqs -> Seq(Parts)]
    <3>1. body \in [Reqs -> Seq(Parts)] /\ head \in [Reqs -> BOOLEAN]
      BY DEF TypeOK
    <3>2. body' \in [Reqs -> Seq(Parts)]
      BY <1>7, <2>2, <3>1, AppendFits DEF WriteBody
    <3> QED  BY <1>7, <3>1, <3>2 DEF WriteBody
  <2>4. CASE hand[r].last
    <3>1. "ok" \in Ends
      BY DEF Ends
    <3> QED  BY <1>7, <2>3, <2>4, <3>1, ReturnFits DEF WriteBody, TypeOK
  <2>5. CASE ~hand[r].last
    <3>1. pc' \in [Reqs -> RequestPcs]
          /\ hand' \in [Reqs -> Pieces \cup Errors \cup {NoFrame}]
      BY <1>7, <2>5 DEF WriteBody, TypeOK, RequestPcs
    <3> QED  BY <1>7, <2>3, <2>5, <3>1 DEF WriteBody, TypeOK
  <2> QED  BY <2>4, <2>5
<1>8. CASE WriteFails(r)
  BY <1>8, ReturnFits DEF WriteFails, TypeOK, Ends
<1> QED  BY <1>1, <1>2, <1>3, <1>4, <1>5, <1>6, <1>7, <1>8 DEF RequestStep

LEMMA ReceiveType ==
  ASSUME TypeOK, ReceiveFrame \/ ReceiveCut PROVE TypeOK'
<1>1. up # <<>> /\ Head(up) # Rest
  BY DEF ReceiveFrame, ReceiveCut, Readable
<1>2. Head(up) \in Pieces \cup Errors /\ up' \in Seq(UpFrames)
  <2>1. Head(up) \in UpFrames /\ Tail(up) \in Seq(UpFrames)
    BY <1>1, WiresFit, TailFits
  <2>2. ReceiveCut => up' \in Seq(UpFrames)
    BY <1>1, WiresFit, RemaindersFit DEF ReceiveCut
  <2> QED  BY <1>1, <2>1, <2>2 DEF ReceiveFrame, UpFrames
<1>3. CASE ReceiveFrame
  BY <1>2, <1>3 DEF TypeOK, ReceiveFrame, Takers, RequestPcs, UpFrames, agentVars
<1>4. CASE ReceiveCut
  <2>1. /\ hand' \in [Reqs -> Pieces \cup Errors \cup {NoFrame}]
        /\ pc' \in [Reqs -> RequestPcs]
    <3>1. /\ hand \in [Reqs -> Pieces \cup Errors \cup {NoFrame}]
          /\ pc \in [Reqs -> RequestPcs]
      BY DEF TypeOK
    <3>2. CASE UNCHANGED <<hand, pc>>
      BY <3>1, <3>2
    <3>3. ASSUME NEW x \in Takers(Head(up)), NEW end \in {Head(up).last, TRUE},
                 Head(up).kind = "piece",
                 hand' = [hand EXCEPT ![x] = [Head(up) EXCEPT !.last = end]],
                 pc' = [pc EXCEPT ![x] = "write"]
          PROVE  /\ hand' \in [Reqs -> Pieces \cup Errors \cup {NoFrame}]
                 /\ pc' \in [Reqs -> RequestPcs]
      <4>1. Head(up) \in Pieces
        BY <1>2, <3>3 DEF Errors
      <4>2. end \in BOOLEAN
        BY <3>3, <4>1 DEF Pieces
      <4>3. [Head(up) EXCEPT !.last = end] \in Pieces
        BY <4>1, <4>2, CutFits
      <4> QED  BY <3>1, <3>3, <4>3 DEF RequestPcs
    <3> QED  BY <1>4, <3>2, <3>3 DEF ReceiveCut
  <2> QED
    BY <1>2, <1>4, <2>1 DEF TypeOK, ReceiveCut, UpFrames, agentVars
<1> QED  BY <1>3, <1>4

LEMMA AgentType ==
  ASSUME TypeOK, NEW r \in Reqs, JobStep(r) PROVE TypeOK'
<1> USE DEF serverVars
<1>1. up' \in Seq(UpFrames)
  <2>1. CASE UpstreamFails(r)
    BY <2>1, WiresFit DEF UpstreamFails, wires
  <2> QED
    BY <2>1, ErrorsFit, PiecesFit, WriteFits
       DEF JobStep, SendPiece, SendPieceFails, SendLast, SendLastFails,
           SendError
<1>2. /\ job' \in [Reqs -> JobPcs]
      /\ next' \in [Reqs -> 1 .. MaxFrames]
      /\ total' \in [Reqs -> 1 .. MaxFrames]
      /\ firstSend' \in [Reqs -> BOOLEAN]
  <2>1. CASE SendPiece(r)
    BY <2>1, MaxFramesType DEF TypeOK, SendPiece
  <2>2. CASE ~SendPiece(r)
    <3>1. /\ UNCHANGED <<next, total>>
          /\ \E j \in JobPcs : job' = [job EXCEPT ![r] = j]
          /\ \/ UNCHANGED firstSend
             \/ firstSend' = [firstSend EXCEPT ![r] = FALSE]
      BY <2>2
         DEF JobStep, SendPieceFails, SendLast, SendLastFails, SendError,
             UpstreamFails, JobPcs
    <3>2. /\ job \in [Reqs -> JobPcs]
          /\ next \in [Reqs -> 1 .. MaxFrames]
          /\ total \in [Reqs -> 1 .. MaxFrames]
          /\ firstSend \in [Reqs -> BOOLEAN]
      BY DEF TypeOK
    <3> QED  BY ONLY <3>1, <3>2
  <2> QED  BY <2>1, <2>2
<1> QED
  BY <1>1, <1>2
     DEF TypeOK, JobStep, SendPiece, SendPieceFails, SendLast, SendLastFails,
         SendError, UpstreamFails, wires, UpFrames

LEMMA StartJobType ==
  ASSUME TypeOK, StartJob \/ ReceiveCutRequest PROVE TypeOK'
<1>1. down # <<>> /\ Head(down) # Rest
  BY DEF StartJob, ReceiveCutRequest, Readable
<1>2. Head(down) \in Requests /\ down' \in Seq(DownFrames)
  <2>1. Head(down) \in DownFrames /\ Tail(down) \in Seq(DownFrames)
    BY <1>1, WiresFit, TailFits
  <2>2. ReceiveCutRequest => down' \in Seq(DownFrames)
    BY <1>1, WiresFit, RemaindersFit DEF ReceiveCutRequest
  <2> QED  BY <1>1, <2>1, <2>2 DEF StartJob, DownFrames
<1>3. /\ job' \in [Reqs -> JobPcs]
      /\ total' \in [Reqs -> 1 .. MaxFrames]
  <2>1. Head(down).of \in Reqs
    BY <1>2 DEF Requests
  <2>2. job \in [Reqs -> JobPcs] /\ total \in [Reqs -> 1 .. MaxFrames]
    BY DEF TypeOK
  <2>3. CASE UNCHANGED <<job, total>>
    BY <2>2, <2>3
  <2>4. CASE Start(Head(down).of)
    <3>1. job' \in [Reqs -> JobPcs]
      BY <2>1, <2>2, <2>4 DEF Start, JobPcs
    <3>2. total' \in [Reqs -> 1 .. MaxFrames]
      BY <2>1, <2>2, <2>4 DEF Start
    <3> QED  BY <3>1, <3>2
  <2> QED  BY <2>3, <2>4 DEF StartJob, ReceiveCutRequest
<1> QED
  BY <1>2, <1>3
     DEF TypeOK, StartJob, ReceiveCutRequest, DownFrames, serverVars

LEMMA NextType == TypeOK /\ [Next]_vars => TypeOK'
<1>1. ASSUME TypeOK, UNCHANGED vars PROVE TypeOK'
  BY <1>1 DEF TypeOK, vars, wires, serverVars, agentVars
<1> QED
  BY <1>1, ConnectionType, RequestType, ReceiveType, AgentType,
     StartJobType DEF Next, Receiver

-----------------------------------------------------------------------------
(* Sequence numbers and the table *)

\* A request gets its client and its number together, and keeps them.
ClientsKnown ==
    \A r \in Reqs :
        /\ pc[r] = "idle" => client[r] = 0
        /\ Waiting(r) => client[r] # 0
        /\ client[r] <= session
        /\ client[r] # 0 => seq[r] <= lastSeq[client[r]]

\* Not only among the requests that wait.
NumbersUnique ==
    \A r1, r2 \in Reqs :
        client[r1] # 0 /\ client[r1] = client[r2] /\ seq[r1] = seq[r2]
            => r1 = r2

TableInv ==
    /\ TypeOK
    /\ ClientsKnown
    /\ NumbersUnique
    /\ TableMatchesWaiters

\* As far as the table goes a step is a Prepare, the end of a request that
\* waits, or a move that leaves the table alone.
Moves ==
    /\ UNCHANGED <<client, seq, lastSeq, requests>>
    /\ session' \in {session, session + 1}
    /\ \A x \in Reqs :
          /\ Waiting(x)' <=> Waiting(x)
          /\ pc'[x] = "idle" => pc[x] = "idle"

Leaves(r) ==
    /\ UNCHANGED <<session, client, seq, lastSeq>>
    /\ Waiting(r)
    /\ pc' = [pc EXCEPT ![r] = "done"]
    /\ requests' = [requests EXCEPT ![client[r]] = @ \ {r}]

LEMMA RequestKinds ==
  ASSUME TypeOK, NEW r \in Reqs, RequestStep(r)
  PROVE  Prepare(r) \/ Leaves(r) \/ Moves
<1> USE DEF TypeOK, Waiting
<1>1. CASE NotFound(r) \/ SendRequest(r) \/ Select(r)
  BY <1>1 DEF NotFound, SendRequest, Select, Moves
<1>2. CASE SendRequestFails(r) \/ Timeout(r) \/ BadGateway(r)
             \/ WriteHeaderPanics(r) \/ WriteFails(r)
  BY <1>2 DEF SendRequestFails, Timeout, BadGateway, WriteHeaderPanics,
     WriteFails, Return, Leaves
<1>3. CASE WriteBody(r)
  <2>1. CASE hand[r].last
    BY <1>3, <2>1 DEF WriteBody, Return, Leaves
  <2>2. CASE ~hand[r].last
    BY <1>3, <2>2 DEF WriteBody, Moves
  <2> QED  BY <2>1, <2>2
<1> QED  BY <1>1, <1>2, <1>3 DEF RequestStep

\* Reading a frame moves at most the request that takes it.
LEMMA Reading ==
  ASSUME TypeOK, ReceiveFrame \/ ReceiveCut
  PROVE  /\ UNCHANGED <<session, down, client, seq, body, lastSeq, requests>>
         /\ UNCHANGED <<job, next>>
         /\ \/ pc' = pc
            \/ \E r \in Reqs : pc[r] = "select" /\ pc' = [pc EXCEPT ![r] = "write"]
<1>1. UNCHANGED <<session, down, client, seq, body, lastSeq, requests, job, next>>
  BY DEF ReceiveFrame, ReceiveCut, agentVars
<1>2. \/ pc' = pc
      \/ /\ link = "up"
         /\ \E r \in Takers(Head(up)) : pc' = [pc EXCEPT ![r] = "write"]
  BY DEF ReceiveFrame, ReceiveCut
<1>3. ASSUME link = "up", NEW r \in Takers(Head(up))
      PROVE  r \in Reqs /\ pc[r] = "select"
  <2>1. session \in Sessions
    BY <1>3 DEF TypeOK, Sessions
  <2>2. requests \in [Sessions -> SUBSET Reqs]
    BY DEF TypeOK
  <2> QED  BY <2>1, <2>2 DEF Takers
<1>4. \/ pc' = pc
      \/ \E r \in Reqs : pc[r] = "select" /\ pc' = [pc EXCEPT ![r] = "write"]
  BY <1>2, <1>3, Zenon
<1> QED  BY <1>1, <1>4

LEMMA StepKinds ==
  ASSUME TypeOK, [Next]_vars
  PROVE  Moves \/ \E r \in Reqs : Prepare(r) \/ Leaves(r)
<1>1. CASE ReceiveFrame \/ ReceiveCut
  BY <1>1, Reading DEF TypeOK, Waiting, Moves
<1>2. ASSUME NEW r \in Reqs, JobStep(r) PROVE Moves
  BY <1>2 DEF JobStep, SendPiece, SendPieceFails, SendLast, SendLastFails,
     SendError, UpstreamFails, serverVars, Waiting, Moves
<1>3. CASE Connect \/ Login \/ Break \/ ReceiveRest \/ StartJob
             \/ ReceiveCutRequest \/ UNCHANGED vars
  BY <1>3 DEF Connect, Login, Break, ReceiveRest, StartJob, ReceiveCutRequest,
     vars, serverVars, Waiting, Moves
<1> QED  BY <1>1, <1>2, <1>3, RequestKinds DEF Next, Receiver

LEMMA InitTable == Init => TableInv
BY InitType
   DEF Init, TableInv, ClientsKnown, NumbersUnique, TableMatchesWaiters, Waiting

LEMMA TableNext == TableInv /\ [Next]_vars => TableInv'
<1> SUFFICES ASSUME TableInv, [Next]_vars PROVE TableInv'
  OBVIOUS
<1>1. TypeOK'
  BY NextType DEF TableInv
<1>2. CASE Moves
  <2>1. ClientsKnown'
    BY <1>2 DEF Moves, TableInv, TypeOK, ClientsKnown
  <2>2. NumbersUnique' /\ TableMatchesWaiters'
    BY <1>2 DEF Moves, TableInv, NumbersUnique, TableMatchesWaiters
  <2> QED  BY <1>1, <2>1, <2>2 DEF TableInv
<1>3. ASSUME NEW r \in Reqs, Leaves(r) PROVE TableInv'
  <2>1. ClientsKnown' /\ NumbersUnique'
    BY <1>3 DEF Leaves, TableInv, TypeOK, ClientsKnown, NumbersUnique, Waiting
  <2>2. TableMatchesWaiters'
    BY <1>3 DEF Leaves, TableInv, TypeOK, TableMatchesWaiters, Waiting
  <2> QED  BY <1>1, <2>1, <2>2 DEF TableInv
<1>4. ASSUME NEW r \in Reqs, Prepare(r) PROVE TableInv'
  <2>1. session \in Sessions /\ session # 0 /\ client[r] = 0
    BY <1>4 DEF Prepare, TableInv, TypeOK, Sessions, ClientsKnown
  <2>2. /\ client' = [client EXCEPT ![r] = session]
        /\ seq' = [seq EXCEPT ![r] = lastSeq[session] + 1]
        /\ lastSeq' = [lastSeq EXCEPT ![session] = @ + 1]
        /\ requests' = [requests EXCEPT ![session] = @ \cup {r}]
        /\ pc' = [pc EXCEPT ![r] = "send"]
        /\ pc[r] = "idle" /\ session' = session
    BY <1>4 DEF Prepare
  <2>3. ClientsKnown'
    BY <2>1, <2>2 DEF TableInv, TypeOK, ClientsKnown, Waiting
  <2>4. NumbersUnique'
    <3>1. /\ client \in [Reqs -> 0 .. MaxSessions] /\ seq \in [Reqs -> Nat]
          /\ lastSeq[session] \in Nat
      BY <2>1 DEF TableInv, TypeOK
    <3>2. \A x \in Reqs : client[x] = session => seq[x] <= lastSeq[session]
      BY <2>1 DEF TableInv, ClientsKnown
    <3>3. NumbersUnique
      BY DEF TableInv
    <3> SUFFICES ASSUME NEW x \in Reqs, NEW y \in Reqs, client'[x] # 0,
                        client'[x] = client'[y], seq'[x] = seq'[y]
                 PROVE  x = y
      BY DEF NumbersUnique
    <3>4. CASE x # r /\ y # r
      BY <2>2, <3>1, <3>3, <3>4 DEF NumbersUnique
    <3>5. CASE x = r /\ y # r
      BY <2>2, <3>1, <3>2, <3>5
    <3>6. CASE x # r /\ y = r
      BY <2>2, <3>1, <3>2, <3>6
    <3> QED  BY <3>4, <3>5, <3>6
  <2>5. TableMatchesWaiters'
    <3>1. /\ requests \in [Sessions -> SUBSET Reqs]
          /\ client \in [Reqs -> 0 .. MaxSessions] /\ pc \in [Reqs -> RequestPcs]
      BY <2>1 DEF TableInv, TypeOK
    <3>2. \A x \in Reqs : Waiting(x)' <=> (x = r \/ Waiting(x))
      BY <2>2, <3>1 DEF Waiting
    <3>3. client[r] = 0 /\ ~Waiting(r) /\ TableMatchesWaiters
      BY <1>3, <2>1, <2>2 DEF TableInv, ClientsKnown, Waiting
    <3> QED  BY <2>1, <2>2, <3>1, <3>2, <3>3 DEF TableMatchesWaiters
  <2> QED  BY <1>1, <2>3, <2>4, <2>5 DEF TableInv
<1> QED  BY <1>2, <1>3, <1>4, StepKinds DEF TableInv

\* PrepareRequest and DeleteSeq keep the table of channels and the numbers of
\* the requests in step.
THEOREM TableInvariance == Spec => []TableInv
BY InitTable, TableNext, PTL DEF Spec

\* The variables keep their types, next and total within the frames.
THEOREM TypeCorrect == Spec => []TypeOK
BY TableInvariance, PTL DEF TableInv

\* DoRequest leaves a channel in the table for exactly as long as it waits.
THEOREM NoChannelLeaks == Spec => []TableMatchesWaiters
BY TableInvariance, PTL DEF TableInv

\* PrepareRequest never gives out a number that is in use.
THEOREM NumbersInUseDistinct == Spec => []SeqsDistinct
<1>1. TableInv => SeqsDistinct
  BY DEF TableInv, TypeOK, ClientsKnown, NumbersUnique, TableMatchesWaiters,
     SeqsDistinct
<1> QED  BY <1>1, TableInvariance, PTL

-----------------------------------------------------------------------------
(* Elements of sequences *)

LEMMA AppendAt ==
  ASSUME NEW S, NEW s \in Seq(S), NEW e \in S, NEW i \in DOMAIN Append(s, e)
  PROVE  /\ i \in Nat
         /\ \/ i \in DOMAIN s /\ i <= Len(s) /\ Append(s, e)[i] = s[i]
            \/ i = Len(s) + 1 /\ Append(s, e)[i] = e
OBVIOUS

LEMMA TailAt ==
  ASSUME NEW S, NEW s \in Seq(S), s # <<>>
  PROVE  /\ 1 \in DOMAIN s /\ Head(s) = s[1]
         /\ \A i \in DOMAIN Tail(s) :
               i \in Nat \ {0} /\ i + 1 \in DOMAIN s /\ Tail(s)[i] = s[i + 1]
OBVIOUS

-----------------------------------------------------------------------------
(* Each request reaches the agent at most once *)

JobsFit ==
    \A r \in Reqs :
        /\ pc[r] \in {"idle", "send"} => job[r] = "none"
        /\ job[r] = "none" => next[r] = 1

DownFresh ==
    \A i \in DOMAIN down : down[i].kind = "request" =>
        /\ job[down[i].of] = "none"
        /\ pc[down[i].of] \notin {"idle", "send"}

DownDistinct ==
    \A i, j \in DOMAIN down :
        /\ down[i].kind = "request"
        /\ down[j].kind = "request"
        /\ down[i].of = down[j].of
        => i = j

DownOnce == DownFresh /\ DownDistinct

JobInv == JobsFit /\ DownOnce

LEMMA InitJob == Init => JobInv
BY DEF Init, JobInv, JobsFit, DownOnce, DownFresh, DownDistinct

\* Steps that neither append to down nor start or advance a job.
LEMMA JobKept ==
  ASSUME TypeOK, JobInv, UNCHANGED <<job, next>>,
         down' = down \/ down' = <<>>,
         \A x \in Reqs : pc'[x] \in {"idle", "send"} => pc[x] \in {"idle", "send"}
  PROVE  JobInv'
<1>1. JobsFit'
  BY DEF JobInv, JobsFit
<1>2. CASE down' = <<>>
  BY <1>1, <1>2 DEF JobInv, DownOnce, DownFresh, DownDistinct
<1>3. CASE down' = down
  <2>1. \A i \in DOMAIN down : down[i].kind = "request" => down[i].of \in Reqs
    BY WiresFit DEF DownFrames, Requests, Rest
  <2> QED
    BY <1>1, <1>3, <2>1 DEF JobInv, DownOnce, DownFresh, DownDistinct
<1> QED  BY <1>2, <1>3

\* The agent takes a request off the wire, and perhaps others with it; none of
\* those that are left is the same.
LEMMA DownTaken ==
  ASSUME TypeOK, JobInv, StartJob \/ ReceiveCutRequest
  PROVE  LET o == Head(down).of IN
         /\ 1 \in DOMAIN down /\ Head(down) = down[1] /\ down[1].kind = "request"
         /\ o \in Reqs /\ job[o] = "none" /\ pc[o] \notin {"idle", "send"}
         /\ job' = job \/ job' = [job EXCEPT ![o] = "run"]
         /\ UNCHANGED <<pc, next>>
         /\ down' = <<Rest>> \/ Behind(down', down)
         /\ \A i \in DOMAIN down' : down'[i].kind = "request" => down'[i].of # o
<1> DEFINE o == Head(down).of
<1>1. down # <<>> /\ Head(down) # Rest /\ down \in Seq(DownFrames)
  BY WiresFit DEF StartJob, ReceiveCutRequest, Readable
<1>2. 1 \in DOMAIN down /\ Head(down) = down[1]
  BY <1>1, TailAt
<1>3. down[1] \in Requests
  BY <1>1, <1>2 DEF DownFrames
<1>4. down[1].kind = "request" /\ o \in Reqs
  BY <1>2, <1>3 DEF Requests
<1>5. job[o] = "none" /\ pc[o] \notin {"idle", "send"}
  BY <1>2, <1>4 DEF JobInv, DownOnce, DownFresh
<1>6. /\ job' = job \/ job' = [job EXCEPT ![o] = "run"]
      /\ UNCHANGED <<pc, next>>
  BY DEF StartJob, ReceiveCutRequest, Start, serverVars
<1>7. down' = <<Rest>> \/ Behind(down', down)
  BY <1>1, TailBehind, RemaindersAre DEF StartJob, ReceiveCutRequest
<1>8. ASSUME NEW i \in DOMAIN down', down'[i].kind = "request"
      PROVE  down'[i].of # o
  <2>1. down' # <<Rest>>
    BY <1>8 DEF Rest
  <2>2. PICK m \in Nat \ {0} :
           i \in Nat \ {0} /\ i + m \in DOMAIN down /\ down'[i] = down[i + m]
    BY <1>7, <1>8, <2>1 DEF Behind
  <2>3. i + m # 1
    BY <2>2
  <2> QED
    BY <1>2, <1>4, <1>8, <2>2, <2>3 DEF JobInv, DownOnce, DownDistinct
<1> QED  BY <1>2, <1>4, <1>5, <1>6, <1>7, <1>8

LEMMA JobNext == TypeOK /\ JobInv /\ [Next]_vars => JobInv'
<1> SUFFICES ASSUME TypeOK, JobInv, [Next]_vars PROVE JobInv'
  OBVIOUS
<1>0. \A i \in DOMAIN down : down[i].kind = "request" => down[i].of \in Reqs
  BY WiresFit DEF DownFrames, Requests, Rest
<1>1. CASE Connect \/ Login \/ Break \/ ReceiveRest \/ UNCHANGED vars
  BY <1>1, JobKept DEF Connect, Login, Break, ReceiveRest, Disconnected,
     vars, wires, serverVars, agentVars
<1>2. CASE ReceiveFrame \/ ReceiveCut
  BY <1>2, JobKept, Reading DEF TypeOK
<1>3. CASE StartJob \/ ReceiveCutRequest
  <2> DEFINE o == Head(down).of
  <2>1. /\ o \in Reqs /\ job[o] = "none" /\ pc[o] \notin {"idle", "send"}
        /\ job' = job \/ job' = [job EXCEPT ![o] = "run"]
        /\ UNCHANGED <<pc, next>>
        /\ down' = <<Rest>> \/ Behind(down', down)
        /\ \A i \in DOMAIN down' : down'[i].kind = "request" => down'[i].of # o
    BY <1>3, DownTaken
  <2> HIDE DEF o
  <2>2. JobsFit'
    BY <2>1 DEF JobInv, JobsFit, TypeOK
  <2>3. CASE down' = <<Rest>>
    <3>1. \A i \in DOMAIN down' : down'[i].kind # "request"
      BY <2>3 DEF Rest
    <3> QED
      BY <2>2, <3>1 DEF JobInv, DownOnce, DownFresh, DownDistinct
  <2>4. CASE Behind(down', down)
    <3>1. PICK m \in Nat \ {0} : \A i \in DOMAIN down' :
             i \in Nat \ {0} /\ i + m \in DOMAIN down /\ down'[i] = down[i + m]
      BY <2>4 DEF Behind
    <3>2. DownFresh'
      <4> SUFFICES ASSUME NEW i \in DOMAIN down', down'[i].kind = "request"
                   PROVE  LET x == down'[i].of IN
                          job'[x] = "none" /\ pc'[x] \notin {"idle", "send"}
        BY DEF DownFresh
      <4>1. /\ i + m \in DOMAIN down /\ down'[i] = down[i + m]
            /\ down'[i].of # o /\ down'[i].of \in Reqs
        BY <1>0, <2>1, <3>1
      <4>2. job'[down'[i].of] = job[down'[i].of]
        BY <2>1, <4>1 DEF TypeOK
      <4> QED  BY <2>1, <4>1, <4>2 DEF JobInv, DownOnce, DownFresh
    <3>3. DownDistinct'
      BY <3>1 DEF JobInv, DownOnce, DownDistinct
    <3> QED  BY <2>2, <3>2, <3>3 DEF JobInv, DownOnce
  <2> QED  BY <2>1, <2>3, <2>4
<1>4. ASSUME NEW r \in Reqs, SendRequest(r) PROVE JobInv'
  <2> DEFINE f == RequestFrame(r)
  <2>1. /\ down' = Append(down, f) /\ pc[r] = "send"
        /\ pc' = [pc EXCEPT ![r] = "sent"] /\ UNCHANGED <<job, next>>
    BY <1>4 DEF SendRequest, agentVars
  <2>2. f \in DownFrames /\ f.of = r
    BY ErrorsFit DEF DownFrames, RequestFrame
  <2> HIDE DEF f
  <2>3. \A i \in DOMAIN down' :
           \/ i \in DOMAIN down /\ down'[i] = down[i]
           \/ i = Len(down) + 1 /\ down'[i] = f
    BY <2>1, <2>2, AppendAt, WiresFit
  <2>4. \A i \in DOMAIN down : down[i].kind = "request" => down[i].of # r
    BY <2>1 DEF JobInv, DownOnce, DownFresh
  <2>5. JobsFit'
    BY <2>1 DEF JobInv, JobsFit, TypeOK
  <2>6. DownOnce'
    <3>1. job[r] = "none" /\ \A x \in Reqs \ {r} : pc'[x] = pc[x]
      BY <2>1 DEF JobInv, JobsFit, TypeOK
    <3>2. pc'[r] \notin {"idle", "send"}
      BY <2>1 DEF TypeOK
    <3>3. DownFresh'
      BY <1>0, <2>1, <2>2, <2>3, <2>4, <3>1, <3>2
         DEF JobInv, DownOnce, DownFresh
    <3>4. DownDistinct'
      BY <2>2, <2>3, <2>4 DEF JobInv, DownOnce, DownDistinct
    <3> QED  BY <3>3, <3>4 DEF DownOnce
  <2> QED  BY <2>5, <2>6 DEF JobInv
<1>5. ASSUME NEW r \in Reqs, SendRequestFails(r), down' # down PROVE JobInv'
  <2> DEFINE f == Cut(RequestFrame(r))
  <2>1. /\ down' = Append(down, f) /\ pc[r] = "send"
        /\ pc' = [pc EXCEPT ![r] = "done"] /\ UNCHANGED <<job, next>>
    BY <1>5, Zenon DEF SendRequestFails, Return, agentVars
  <2>2. f \in DownFrames /\ f.of = r
    BY ErrorsFit, CutFits DEF DownFrames, RequestFrame, Cut
  <2> HIDE DEF f
  <2>3. \A i \in DOMAIN down' :
           \/ i \in DOMAIN down /\ down'[i] = down[i]
           \/ i = Len(down) + 1 /\ down'[i] = f
    BY <2>1, <2>2, AppendAt, WiresFit
  <2>4. \A i \in DOMAIN down : down[i].kind = "request" => down[i].of # r
    BY <2>1 DEF JobInv, DownOnce, DownFresh
  <2>5. JobsFit'
    BY <2>1 DEF JobInv, JobsFit, TypeOK
  <2>6. DownOnce'
    <3>1. job[r] = "none" /\ \A x \in Reqs \ {r} : pc'[x] = pc[x]
      BY <2>1 DEF JobInv, JobsFit, TypeOK
    <3>2. pc'[r] \notin {"idle", "send"}
      BY <2>1 DEF TypeOK
    <3>3. DownFresh'
      BY <1>0, <2>1, <2>2, <2>3, <2>4, <3>1, <3>2
         DEF JobInv, DownOnce, DownFresh
    <3>4. DownDistinct'
      BY <2>2, <2>3, <2>4 DEF JobInv, DownOnce, DownDistinct
    <3> QED  BY <3>3, <3>4 DEF DownOnce
  <2> QED  BY <2>5, <2>6 DEF JobInv
<1>6. ASSUME NEW r \in Reqs, RequestStep(r), ~SendRequest(r), down' = down
      PROVE  JobInv'
  <2>1. UNCHANGED <<job, next>>
    BY <1>6 DEF RequestStep, NotFound, Prepare, SendRequestFails, Select,
       Timeout, BadGateway, WriteHeaderPanics, WriteBody, WriteFails, agentVars
  <2>2. \A x \in Reqs :
           pc'[x] \in {"idle", "send"} => pc[x] \in {"idle", "send"}
    BY <1>6 DEF RequestStep, NotFound, Prepare, SendRequestFails, Select,
       Timeout, BadGateway, WriteHeaderPanics, WriteBody, WriteFails, Return,
       TypeOK
  <2> QED  BY <1>6, <2>1, <2>2, JobKept
<1>7. ASSUME NEW r \in Reqs, RequestStep(r) PROVE JobInv'
  <2>1. down' = down \/ SendRequest(r) \/ SendRequestFails(r)
    BY <1>7 DEF RequestStep, NotFound, Prepare, Select, Timeout, BadGateway,
       WriteHeaderPanics, WriteBody, WriteFails, wires
  <2> QED  BY <1>4, <1>5, <1>6, <1>7, <2>1
<1>8. ASSUME NEW r \in Reqs, JobStep(r) PROVE JobInv'
  <2>1. /\ job[r] \in {"run", "flush"}
        /\ job'[r] # "none"
        /\ \A x \in Reqs \ {r} : job'[x] = job[x] /\ next'[x] = next[x]
        /\ UNCHANGED <<down, pc>>
    BY <1>8 DEF JobStep, SendPiece, SendPieceFails, SendLast, SendLastFails,
       SendError, UpstreamFails, Finished, serverVars, wires, TypeOK
  <2>2. JobsFit'
    BY <2>1 DEF JobInv, JobsFit
  <2>3. DownOnce'
    BY <1>0, <2>1 DEF JobInv, DownOnce, DownFresh, DownDistinct
  <2> QED  BY <2>2, <2>3 DEF JobInv
<1> QED
  BY <1>1, <1>2, <1>3, <1>7, <1>8 DEF Next, Receiver

-----------------------------------------------------------------------------
(* Whose frames arrive where *)

\* A frame carries the number its request has; the request is prepared.
Known(f) ==
    f.kind = "rest" \/ (client[f.of] # 0 /\ f.seq = seq[f.of])

\* A frame of o in the hands of r: r reads it from the latest connection, and
\* o has got its own before that.
Mine(o, r) ==
    client[r] # 0 /\ client[o] # 0 /\ (o = r \/ client[o] < client[r])

WiresKnown ==
    /\ \A i \in DOMAIN down : Known(down[i])
    /\ \A i \in DOMAIN up : Known(up[i])
    /\ \A r \in Reqs : job[r] # "none" => client[r] # 0

HandsMine == \A r \in Reqs : hand[r].kind # "none" => Mine(hand[r].of, r)

BodiesMine == \A r \in Reqs : \A i \in DOMAIN body[r] : Mine(body[r][i].of, r)

StrayInv == WiresKnown /\ HandsMine /\ BodiesMine

LEMMA FrameTypes ==
  ASSUME TypeOK
  PROVE  /\ \A i \in DOMAIN up :
               up[i].kind = "rest" \/ up[i] \in Pieces \cup Errors
         /\ \A i \in DOMAIN down :
               down[i].kind = "rest" \/ down[i] \in Requests
         /\ \A f \in Pieces \cup Errors \cup Requests : f.of \in Reqs
         /\ \A f \in Pieces \cup Errors \cup Requests : f.kind # "rest"
         /\ \A r \in Reqs :
               hand[r].kind # "none" => hand[r] \in Pieces \cup Errors
         /\ \A r \in Reqs : \A i \in DOMAIN body[r] : body[r][i].of \in Reqs
<1>1. \A i \in DOMAIN up : up[i] \in UpFrames
  BY WiresFit
<1>2. \A i \in DOMAIN down : down[i] \in DownFrames
  BY WiresFit
<1>3. \A f \in Pieces \cup Errors \cup Requests :
        f.of \in Reqs /\ f.kind # "rest"
  BY DEF Pieces, Errors, Requests
<1>4. \A r \in Reqs : hand[r] \in Pieces \cup Errors \cup {NoFrame}
  BY DEF TypeOK
<1>5. \A r \in Reqs : body[r] \in Seq(Parts)
  BY DEF TypeOK
<1>6. \A i \in DOMAIN up :
        up[i].kind = "rest" \/ up[i] \in Pieces \cup Errors
  BY <1>1 DEF UpFrames, Rest
<1>7. \A i \in DOMAIN down :
        down[i].kind = "rest" \/ down[i] \in Requests
  BY <1>2 DEF DownFrames, Rest
<1>8. \A r \in Reqs :
        hand[r].kind # "none" => hand[r] \in Pieces \cup Errors
  BY <1>4 DEF NoFrame
<1>9. \A r \in Reqs : \A i \in DOMAIN body[r] : body[r][i].of \in Reqs
  <2> SUFFICES ASSUME NEW r \in Reqs, NEW i \in DOMAIN body[r]
               PROVE  body[r][i].of \in Reqs
    OBVIOUS
  <2>1. \A e \in Parts : e.of \in Reqs
    BY DEF Parts
  <2>2. body[r] \in Seq(Parts)
    BY <1>5
  <2>3. body[r][i] \in Parts
    BY <2>2
  <2> QED  BY <2>1, <2>3
<1> QED  BY <1>3, <1>6, <1>7, <1>8, <1>9

\* Client and number of a prepared request do not change.
LEMMA Stable ==
  ASSUME TableInv, [Next]_vars, NEW o \in Reqs, client[o] # 0
  PROVE  client'[o] = client[o] /\ seq'[o] = seq[o]
<1>1. ASSUME NEW r \in Reqs, Prepare(r)
      PROVE  client'[o] = client[o] /\ seq'[o] = seq[o]
  BY <1>1 DEF Prepare, TableInv, ClientsKnown, TypeOK
<1> QED  BY <1>1, StepKinds DEF TableInv, Moves, Leaves

\* What a job may put on the wire.
LEMMA JobWrites ==
  ASSUME TypeOK, NEW r \in Reqs, JobStep(r)
  PROVE  /\ job[r] # "none"
         /\ \/ up' = up
            \/ \E f \in Pieces \cup Errors :
                  f.of = r /\ f.seq = seq[r] /\ up' = Append(up, f)
<1>1. \A last \in BOOLEAN :
         LET f == Piece(r, last) IN
         /\ f \in Pieces /\ f.of = r /\ f.seq = seq[r]
         /\ Cut(f) \in Pieces /\ Cut(f).of = r /\ Cut(f).seq = seq[r]
  BY PiecesFit, CutFits DEF Piece, Cut
<1>2. LET f == ErrorFrame(r) IN
         /\ f \in Errors /\ f.of = r /\ f.seq = seq[r]
         /\ Cut(f) \in Errors /\ Cut(f).of = r /\ Cut(f).seq = seq[r]
  BY ErrorsFit, CutFits DEF ErrorFrame, Cut
<1>3. job[r] # "none"
  BY DEF JobStep, SendPiece, SendPieceFails, SendLast, SendLastFails,
     SendError, UpstreamFails, Finished
<1> QED
  BY <1>1, <1>2, <1>3
     DEF JobStep, SendPiece, SendPieceFails, SendLast, SendLastFails,
         SendError, UpstreamFails, Write, WriteFailed, wires

\* The server takes a frame off the wire, and perhaps others with it.
LEMMA UpTaken ==
  ASSUME TypeOK, ReceiveFrame \/ ReceiveCut
  PROVE  /\ 1 \in DOMAIN up /\ Head(up) = up[1]
         /\ up[1] \in Pieces \cup Errors /\ up[1].kind # "rest"
         /\ \/ ReceiveCut /\ ~up[1].whole /\ up' = <<Rest>>
            \/ Behind(up', up)
<1>1. up # <<>> /\ Head(up) # Rest /\ up \in Seq(UpFrames)
  BY WiresFit DEF ReceiveFrame, ReceiveCut, Readable
<1>2. 1 \in DOMAIN up /\ Head(up) = up[1]
  BY <1>1, TailAt
<1>3. up[1] \in Pieces \cup Errors
  BY <1>1, <1>2 DEF UpFrames
<1>4. up[1].kind # "rest"
  BY <1>3 DEF Pieces, Errors
<1>5. CASE ReceiveFrame
  BY <1>1, <1>2, <1>3, <1>4, <1>5, TailBehind DEF ReceiveFrame
<1>6. CASE ReceiveCut
  BY <1>1, <1>2, <1>3, <1>4, <1>6, RemaindersAre DEF ReceiveCut
<1> QED  BY <1>5, <1>6

LEMMA UpSteps ==
  ASSUME TypeOK, [Next]_vars
  PROVE  \/ up' = up \/ up' = <<>>
         \/ ReceiveCut /\ ~up[1].whole /\ up' = <<Rest>>
         \/ Behind(up', up)
         \/ \E r \in Reqs, f \in Pieces \cup Errors :
               /\ JobStep(r) /\ job[r] # "none"
               /\ f.of = r /\ f.seq = seq[r]
               /\ up' = Append(up, f)
<1>1. ASSUME NEW r \in Reqs, RequestStep(r) PROVE up' = up
  BY <1>1 DEF RequestStep, NotFound, Prepare, SendRequest, SendRequestFails,
     Select, Timeout, BadGateway, WriteHeaderPanics, WriteBody, WriteFails, wires
<1> QED
  BY <1>1, JobWrites, UpTaken
     DEF Next, Receiver, Connect, Login, Break, StartJob, ReceiveCutRequest,
         ReceiveRest, Disconnected, vars, wires

LEMMA DownSteps ==
  ASSUME TypeOK, JobInv, [Next]_vars
  PROVE  \/ down' = down \/ down' = <<>> \/ down' = <<Rest>>
         \/ Behind(down', down)
         \/ \E r \in Reqs, f \in Requests :
               pc[r] = "send" /\ f.of = r /\ f.seq = seq[r]
               /\ down' = Append(down, f)
<1>1. ASSUME NEW r \in Reqs, RequestStep(r)
      PROVE  \/ down' = down
             \/ \E f \in Requests :
                   pc[r] = "send" /\ f.of = r /\ f.seq = seq[r]
                   /\ down' = Append(down, f)
  <2>1. LET f == RequestFrame(r) IN
           /\ f \in Requests /\ f.of = r /\ f.seq = seq[r]
           /\ Cut(f) \in Requests /\ Cut(f).of = r /\ Cut(f).seq = seq[r]
    BY ErrorsFit, CutFits DEF RequestFrame, Cut
  <2> QED
    BY <1>1, <2>1 DEF RequestStep, NotFound, Prepare, SendRequest,
       SendRequestFails, Select, Timeout, BadGateway, WriteHeaderPanics,
       WriteBody, WriteFails, wires
<1>2. ASSUME NEW r \in Reqs, JobStep(r) PROVE down' = down
  BY <1>2 DEF JobStep, SendPiece, SendPieceFails, SendLast, SendLastFails,
     SendError, UpstreamFails, wires
<1> QED
  BY <1>1, <1>2, DownTaken
     DEF Next, Receiver, Connect, Login, Break, ReceiveFrame, ReceiveCut,
         ReceiveRest, Disconnected, vars, wires

\* A frame that DoRequest takes is the first on the wire, but that NotFinish
\* may have been lost from it.
SameFrame(h, f) ==
    /\ h.kind = f.kind /\ h.of = f.of
    /\ f.kind = "piece" => h.idx = f.idx /\ h.first = f.first /\ h.whole = f.whole

Takes(x) ==
    /\ ReceiveFrame \/ ReceiveCut
    /\ link = "up" /\ x \in requests[session] /\ seq[x] = up[1].seq
    /\ SameFrame(hand'[x], up[1])

\* A hand is filled from the wire only, a body extended by WriteBody only.
LEMMA HandSteps ==
  ASSUME TypeOK, [Next]_vars, NEW x \in Reqs
  PROVE  /\ hand'[x] = hand[x] \/ hand'[x] = NoFrame \/ Takes(x)
         /\ \/ body'[x] = body[x]
            \/ /\ hand[x].kind = "piece"
               /\ hand'[x] = NoFrame
               /\ up' = up
               /\ body'[x] =
                     Append(body[x], [of |-> hand[x].of, idx |-> hand[x].idx,
                                      whole |-> hand[x].whole])
<1>1. ASSUME NEW r \in Reqs, RequestStep(r), ~WriteBody(r)
      PROVE  (hand'[x] = hand[x] \/ hand'[x] = NoFrame) /\ body' = body
  BY <1>1 DEF RequestStep, NotFound, Prepare, SendRequest, SendRequestFails,
     Select, Timeout, BadGateway, WriteHeaderPanics, WriteFails, Return, TypeOK
<1>2. ASSUME NEW r \in Reqs, WriteBody(r)
      PROVE  /\ hand' = [hand EXCEPT ![r] = NoFrame]
             /\ hand[r].kind = "piece" /\ up' = up
             /\ body' = [body EXCEPT ![r] =
                   Append(@, [of |-> hand[r].of, idx |-> hand[r].idx,
                              whole |-> hand[r].whole])]
  BY <1>2 DEF WriteBody, Return, wires
<1>3. CASE ReceiveFrame
  <2>1. Head(up) = up[1]
    BY <1>3, UpTaken
  <2>2. body' = body
    BY <1>3 DEF ReceiveFrame
  <2>3. /\ DOMAIN hand = Reqs
        /\ \/ UNCHANGED hand
           \/ /\ link = "up"
              /\ \E r \in Takers(up[1]) : hand' = [hand EXCEPT ![r] = up[1]]
    BY <1>3, <2>1 DEF ReceiveFrame, TypeOK
  <2>4. hand'[x] = hand[x] \/ Takes(x)
    BY <1>3, <2>3 DEF Takers, Takes, SameFrame
  <2> QED  BY <2>2, <2>4
<1>4. ASSUME NEW r \in Reqs, JobStep(r) PROVE UNCHANGED <<hand, body>>
  BY <1>4 DEF JobStep, SendPiece, SendPieceFails, SendLast, SendLastFails,
     SendError, UpstreamFails, serverVars
<1>5. CASE Connect \/ Login \/ Break \/ ReceiveRest \/ StartJob
             \/ ReceiveCutRequest \/ UNCHANGED vars
  BY <1>5 DEF Connect, Login, Break, ReceiveRest, StartJob, ReceiveCutRequest,
     vars, serverVars
<1>6. ASSUME NEW r \in Reqs, WriteBody(r)
      PROVE  \/ hand'[x] = hand[x] /\ body'[x] = body[x]
             \/ /\ hand[x].kind = "piece"
                /\ hand'[x] = NoFrame
                /\ up' = up
                /\ body'[x] =
                      Append(body[x], [of |-> hand[x].of, idx |-> hand[x].idx,
                                       whole |-> hand[x].whole])
  <2>1. hand \in [Reqs -> Pieces \cup Errors \cup {NoFrame}]
        /\ DOMAIN body = Reqs
    BY DEF TypeOK
  <2>2. CASE r = x
    BY ONLY <1>2, <1>6, <2>1, <2>2, x \in Reqs
  <2>3. CASE r # x
    BY ONLY <1>2, <1>6, <2>1, <2>3, x \in Reqs
  <2> QED  BY <2>2, <2>3
<1>7. CASE \E r \in Reqs : RequestStep(r)
  BY <1>1, <1>6, <1>7
<1>8. CASE \E r \in Reqs : JobStep(r)
  BY <1>4, <1>8
<1>9. CASE ReceiveCut
  <2>1. /\ Head(up) = up[1] /\ body' = body
        /\ hand \in [Reqs -> Pieces \cup Errors \cup {NoFrame}]
    BY <1>9, UpTaken DEF ReceiveCut, TypeOK
  <2>2. CASE UNCHANGED hand
    BY <2>1, <2>2
  <2>3. ASSUME NEW r \in Takers(up[1]), NEW end \in {up[1].last, TRUE},
               link = "up", up[1].kind = "piece",
               hand' = [hand EXCEPT ![r] = [up[1] EXCEPT !.last = end]]
        PROVE  hand'[x] = hand[x] \/ Takes(x)
    <3>1. up[1] \in Pieces
      BY <1>9, <2>3, UpTaken DEF Errors
    <3>2. SameFrame([up[1] EXCEPT !.last = end], up[1])
      BY <3>1 DEF Pieces, SameFrame
    <3>3. CASE x = r
      BY <1>9, <2>1, <2>3, <3>2, <3>3 DEF Takes, Takers
    <3>4. CASE x # r
      BY <2>1, <2>3, <3>4
    <3> QED  BY <3>3, <3>4
  <2> QED  BY <1>9, <2>1, <2>2, <2>3 DEF ReceiveCut
<1> QED
  BY ONLY <1>3, <1>5, <1>7, <1>8, <1>9, [Next]_vars DEF Next, Receiver

LEMMA InitStray == Init => StrayInv
BY DEF Init, StrayInv, WiresKnown, HandsMine, BodiesMine, NoFrame

LEMMA MineKept ==
  ASSUME TableInv, [Next]_vars, NEW o \in Reqs, NEW r \in Reqs, Mine(o, r)
  PROVE  /\ client'[r] # 0 /\ client'[o] # 0
         /\ o = r \/ client'[o] < client'[r]
BY Stable DEF Mine

LEMMA WiresKnownNext ==
  ASSUME TableInv, JobInv, WiresKnown, [Next]_vars PROVE WiresKnown'
<1>1. TypeOK
  BY DEF TableInv
<1>2. \A i \in DOMAIN up' : Known(up[i])'
  <2>1. \A i \in DOMAIN up :
           \/ up[i].kind = "rest"
           \/ client'[up[i].of] # 0 /\ up[i].seq = seq'[up[i].of]
    BY <1>1, FrameTypes, Stable DEF WiresKnown, Known
  <2>2. CASE up' = up \/ up' = <<>> \/ up' = <<Rest>>
    BY <2>1, <2>2 DEF Known, Rest
  <2>3. CASE Behind(up', up)
    <3>1. PICK m \in Nat \ {0} : \A i \in DOMAIN up' :
             i + m \in DOMAIN up /\ up'[i] = up[i + m]
      BY <2>3 DEF Behind
    <3> QED  BY <2>1, <3>1 DEF Known
  <2>4. ASSUME NEW r \in Reqs, NEW f \in Pieces \cup Errors,
               job[r] # "none", f.of = r, f.seq = seq[r], up' = Append(up, f)
        PROVE  \A i \in DOMAIN up' : Known(up[i])'
    <3>1. \A i \in DOMAIN up' : up'[i] = f \/ (i \in DOMAIN up /\ up'[i] = up[i])
      BY <1>1, <2>4, AppendAt, WiresFit DEF UpFrames
    <3>2. client'[f.of] # 0 /\ f.seq = seq'[f.of]
      BY <2>4, Stable DEF WiresKnown
    <3> QED  BY <2>1, <3>1, <3>2 DEF Known
  <2> QED  BY <1>1, <2>2, <2>3, <2>4, UpSteps
<1>3. \A i \in DOMAIN down' : Known(down[i])'
  <2>1. \A i \in DOMAIN down :
           \/ down[i].kind = "rest"
           \/ client'[down[i].of] # 0 /\ down[i].seq = seq'[down[i].of]
    BY <1>1, FrameTypes, Stable DEF WiresKnown, Known
  <2>2. CASE down' = down \/ down' = <<>> \/ down' = <<Rest>>
    BY <2>1, <2>2 DEF Known, Rest
  <2>3. CASE Behind(down', down)
    <3>1. PICK m \in Nat \ {0} : \A i \in DOMAIN down' :
             i + m \in DOMAIN down /\ down'[i] = down[i + m]
      BY <2>3 DEF Behind
    <3> QED  BY <2>1, <3>1 DEF Known
  <2>4. ASSUME NEW r \in Reqs, NEW f \in Requests, pc[r] = "send",
               f.of = r, f.seq = seq[r], down' = Append(down, f)
        PROVE  \A i \in DOMAIN down' : Known(down[i])'
    <3>1. \A i \in DOMAIN down' :
             down'[i] = f \/ (i \in DOMAIN down /\ down'[i] = down[i])
      BY <1>1, <2>4, AppendAt, WiresFit DEF DownFrames
    <3>2. client[r] # 0
      BY <2>4 DEF TableInv, ClientsKnown, Waiting
    <3>3. client'[f.of] # 0 /\ f.seq = seq'[f.of]
      BY <2>4, <3>2, Stable
    <3> QED  BY <2>1, <3>1, <3>3 DEF Known
  <2> QED  BY <1>1, <2>2, <2>3, <2>4, DownSteps
<1>4. \A r \in Reqs : job'[r] # "none" => client'[r] # 0
  <2> SUFFICES ASSUME NEW r \in Reqs, job'[r] # "none" PROVE client[r] # 0
    BY Stable
  <2>1. ASSUME NEW x \in Reqs, JobStep(x) PROVE job[r] # "none"
    BY <1>1, <2>1 DEF JobStep, SendPiece, SendPieceFails, SendLast,
       SendLastFails, SendError, UpstreamFails, Finished, TypeOK
  <2>2. ASSUME NEW x \in Reqs, RequestStep(x) PROVE job' = job
    BY <2>2 DEF RequestStep, NotFound, Prepare, SendRequest,
       SendRequestFails, Select, Timeout, BadGateway, WriteHeaderPanics,
       WriteBody, WriteFails, agentVars
  <2>3. CASE (StartJob \/ ReceiveCutRequest) /\ job[r] = "none"
    <3> DEFINE o == Head(down).of
    <3>1. /\ o \in Reqs /\ 1 \in DOMAIN down /\ o = down[1].of
          /\ down[1].kind = "request"
          /\ job' = job \/ job' = [job EXCEPT ![o] = "run"]
      BY <1>1, <2>3, DownTaken
    <3>2. o = r
      BY <1>1, <2>3, <3>1 DEF TypeOK
    <3> QED  BY <3>1, <3>2 DEF WiresKnown, Known
  <2>4. job[r] # "none" \/ StartJob \/ ReceiveCutRequest
    BY <2>1, <2>2 DEF Next, Receiver, Connect, Login, Break,
       ReceiveFrame, ReceiveCut, ReceiveRest, vars, agentVars
  <2> QED  BY <2>3, <2>4 DEF WiresKnown
<1> QED  BY <1>2, <1>3, <1>4 DEF WiresKnown

LEMMA StrayNext ==
  ASSUME TableInv, JobInv, StrayInv, [Next]_vars PROVE StrayInv'
<1>1. TypeOK
  BY DEF TableInv
<1>2. WiresKnown'
  BY WiresKnownNext DEF StrayInv
<1>3. ASSUME NEW r \in Reqs, hand'[r].kind # "none"
      PROVE  /\ client'[r] # 0 /\ client'[hand'[r].of] # 0
             /\ hand'[r].of = r \/ client'[hand'[r].of] < client'[r]
  <2>1. CASE hand'[r] = hand[r]
    BY <1>1, <1>3, <2>1, MineKept, FrameTypes DEF StrayInv, HandsMine
  <2>2. CASE hand'[r] = NoFrame
    BY <1>3, <2>2 DEF NoFrame
  <2>3. CASE Takes(r)
    <3> DEFINE o == up[1].of
    <3>1. /\ 1 \in DOMAIN up /\ up[1] \in Pieces \cup Errors
          /\ up[1].kind # "rest" /\ hand'[r].of = o
          /\ link = "up" /\ r \in requests[session] /\ seq[r] = up[1].seq
      BY <1>1, <2>3, UpTaken DEF Takes, SameFrame
    <3>2. o \in Reqs /\ client[o] # 0 /\ seq[o] = seq[r]
      BY <1>1, <3>1, FrameTypes DEF StrayInv, WiresKnown, Known
    <3>3. client[r] # 0 /\ client[r] = session
      <4>1. session \in Sessions /\ session # 0
        BY <1>1, <3>1 DEF TypeOK, Sessions
      <4> QED  BY <3>1, <4>1 DEF TableInv, TableMatchesWaiters
    <3>4. Mine(o, r)
      <4>1. o = r \/ client[o] # client[r]
        BY <3>2, <3>3 DEF TableInv, NumbersUnique
      <4>2. client[o] <= session /\ client[o] \in Nat /\ client[r] \in Nat
        BY <1>1, <3>2 DEF TableInv, ClientsKnown, TypeOK
      <4> QED  BY <3>2, <3>3, <4>1, <4>2 DEF Mine
    <3> QED  BY <3>1, <3>2, <3>4, MineKept
  <2> QED  BY <1>1, <2>1, <2>2, <2>3, HandSteps
<1>4. ASSUME NEW r \in Reqs, NEW i \in DOMAIN body'[r]
      PROVE  /\ client'[r] # 0 /\ client'[body'[r][i].of] # 0
             /\ body'[r][i].of = r \/ client'[body'[r][i].of] < client'[r]
  <2>1. CASE body'[r] = body[r]
    BY <1>1, <1>4, <2>1, MineKept, FrameTypes DEF StrayInv, BodiesMine
  <2>2. CASE /\ hand[r].kind = "piece"
             /\ body'[r] =
                   Append(body[r], [of |-> hand[r].of, idx |-> hand[r].idx,
                                    whole |-> hand[r].whole])
    <3> DEFINE e == [of |-> hand[r].of, idx |-> hand[r].idx,
                     whole |-> hand[r].whole]
    <3>1. body[r] \in Seq(Parts)
      BY <1>1 DEF TypeOK
    <3>2. hand[r] \in Pieces \cup Errors /\ hand[r].kind = "piece"
      BY <1>1, <2>2, FrameTypes
    <3>3. e \in Parts /\ e.of = hand[r].of
      BY <3>2 DEF Pieces, Errors, Parts
    <3> HIDE DEF e
    <3>4. body'[r][i] = e \/ (i \in DOMAIN body[r] /\ body'[r][i] = body[r][i])
      BY <1>4, <2>2, <3>1, <3>3, AppendAt DEF e
    <3>5. Mine(hand[r].of, r) /\ hand[r].of \in Reqs
      BY <1>1, <2>2, FrameTypes DEF StrayInv, HandsMine
    <3>6. ASSUME i \in DOMAIN body[r]
          PROVE  Mine(body[r][i].of, r) /\ body[r][i].of \in Reqs
      BY <1>1, <3>6, FrameTypes DEF StrayInv, BodiesMine
    <3>7. CASE body'[r][i] = e
      BY <3>3, <3>5, <3>7, MineKept
    <3>8. CASE i \in DOMAIN body[r] /\ body'[r][i] = body[r][i]
      BY <3>6, <3>8, MineKept
    <3> QED  BY <3>4, <3>7, <3>8
  <2> QED  BY <1>1, <2>1, <2>2, HandSteps
<1> QED  BY <1>2, <1>3, <1>4 DEF StrayInv, HandsMine, BodiesMine, Mine

-----------------------------------------------------------------------------
(* Where cut frames get to *)

\* Nothing is under way without a connection.
WireUp == link = "down" => up = <<>>

\* A frame that was cut, and what it has made of those behind it, are on the
\* connection on which it was cut, and so is the request that gets it.
UpCut == \A i \in DOMAIN up : up[i].kind = "rest" \/ ~up[i].whole => session \in cuts

HandCut ==
    \A r \in Reqs : hand[r].kind = "piece" /\ ~hand[r].whole => client[r] \in cuts

BodyWhole ==
    \A r \in Reqs : \A i \in DOMAIN body[r] :
        body[r][i].whole \/ client[r] \in cuts

CutInv == WireUp /\ UpCut /\ HandCut /\ BodyWhole

LEMMA InitCut == LossInit => CutInv
BY DEF LossInit, Init, CutInv, WireUp, UpCut, HandCut, BodyWhole, NoFrame

LEMMA WireUpNext ==
  ASSUME TypeOK, WireUp, [Next]_vars
  PROVE  WireUp' /\ (session' = session \/ up' = <<>>)
<1>1. ASSUME NEW r \in Reqs, RequestStep(r) PROVE UNCHANGED <<session, link, up>>
  BY <1>1 DEF RequestStep, NotFound, Prepare, SendRequest, SendRequestFails,
     Select, Timeout, BadGateway, WriteHeaderPanics, WriteBody, WriteFails, wires
<1>2. ASSUME NEW r \in Reqs, JobStep(r)
      PROVE  UNCHANGED <<session, link>> /\ (link = "down" => up' = up)
  BY <1>2 DEF JobStep, SendPiece, SendPieceFails, SendLast, SendLastFails,
     SendError, UpstreamFails, Write, WriteFailed, wires
<1>3. CASE ReceiveFrame \/ ReceiveCut
  BY <1>3 DEF ReceiveFrame, ReceiveCut, Readable, WireUp
<1>4. CASE Connect \/ Login \/ Break \/ ReceiveRest \/ StartJob
             \/ ReceiveCutRequest \/ UNCHANGED vars
  BY <1>4 DEF Connect, Login, Break, ReceiveRest, Disconnected, StartJob,
     ReceiveCutRequest, vars, wires, WireUp
<1> QED  BY <1>1, <1>2, <1>3, <1>4 DEF Next, Receiver, WireUp

LEMMA CutsGrow ==
  ASSUME [LossNext]_lossVars PROVE [Next]_vars /\ cuts \subseteq cuts'
BY DEF LossNext, lossVars

\* A piece that was cut is in the hands of a request of its connection.
LEMMA HandCutNext ==
  ASSUME TableInv, StrayInv, CutInv, [LossNext]_lossVars PROVE HandCut'
<1>1. TypeOK /\ [Next]_vars /\ cuts \subseteq cuts'
  BY CutsGrow DEF TableInv
<1> SUFFICES ASSUME NEW r \in Reqs, hand'[r].kind = "piece", ~hand'[r].whole
             PROVE  client'[r] \in cuts'
  BY DEF HandCut
<1>2. CASE hand'[r] = hand[r]
  <2>1. client[r] \in cuts
    BY <1>2 DEF CutInv, HandCut
  <2>2. client[r] # 0
    BY <1>2 DEF StrayInv, HandsMine, Mine
  <2> QED  BY <1>1, <2>1, <2>2, Stable
<1>3. CASE Takes(r)
  <2>1. /\ 1 \in DOMAIN up /\ up[1].kind = "piece" /\ ~up[1].whole
        /\ link = "up" /\ r \in requests[session]
    BY <1>1, <1>3, UpTaken DEF Takes, SameFrame
  <2>2. session \in cuts
    BY <2>1 DEF CutInv, UpCut
  <2>3. client[r] = session /\ client[r] # 0
    <3>1. session \in Sessions /\ session # 0
      BY <1>1, <2>1 DEF TypeOK, Sessions
    <3> QED  BY <2>1, <3>1 DEF TableInv, TableMatchesWaiters
  <2> QED  BY <1>1, <2>2, <2>3, Stable
<1>4. hand'[r] # NoFrame
  BY DEF NoFrame
<1> QED  BY <1>1, <1>2, <1>3, <1>4, HandSteps

LEMMA UpCutNext ==
  ASSUME TypeOK, CutInv, [LossNext]_lossVars PROVE UpCut'
<1>1. [Next]_vars /\ cuts \subseteq cuts'
  BY CutsGrow
<1>2. session' = session \/ up' = <<>>
  BY <1>1, WireUpNext DEF CutInv
<1>3. CASE up' = up \/ up' = <<>>
  BY <1>1, <1>2, <1>3 DEF CutInv, UpCut
<1>4. CASE ReceiveCut /\ ~up[1].whole /\ up' = <<Rest>>
  <2>1. 1 \in DOMAIN up
    BY <1>4, UpTaken
  <2>2. session \in cuts
    BY <1>4, <2>1 DEF CutInv, UpCut
  <2>3. session' = session
    BY <1>4 DEF ReceiveCut
  <2> QED  BY <1>1, <2>2, <2>3 DEF UpCut
<1>5. CASE Behind(up', up)
  <2>1. PICK m \in Nat \ {0} : \A i \in DOMAIN up' :
           i + m \in DOMAIN up /\ up'[i] = up[i + m]
    BY <1>5 DEF Behind
  <2> QED  BY <1>1, <1>2, <1>5, <2>1 DEF CutInv, UpCut
<1>6. ASSUME NEW r \in Reqs, NEW f \in Pieces \cup Errors,
             JobStep(r), up' = Append(up, f)
      PROVE  UpCut'
  <2>1. f \in UpFrames /\ f.kind # "rest"
    BY FrameTypes DEF UpFrames
  <2>2. /\ Len(up') = Len(up) + 1 /\ up'[Len(up')] = f
        /\ Len(up) \in Nat
        /\ \A i \in DOMAIN up' : (i \in DOMAIN up /\ up'[i] = up[i]) \/ up'[i] = f
    BY <1>6, <2>1, AppendAt, WiresFit
  <2>3. session' = session
    BY <1>6 DEF JobStep, SendPiece, SendPieceFails, SendLast, SendLastFails,
       SendError, UpstreamFails
  <2>4. LossNext
    BY <1>6, <2>2 DEF lossVars, vars, wires
  <2>5. ~f.whole => session \in cuts'
    BY <2>2, <2>4 DEF LossNext, FrameCut
  <2> QED  BY <1>1, <2>1, <2>2, <2>3, <2>5 DEF CutInv, UpCut
<1> QED  BY <1>1, <1>3, <1>4, <1>5, <1>6, UpSteps

LEMMA BodyWholeNext ==
  ASSUME TypeOK, TableInv, StrayInv, CutInv, [LossNext]_lossVars
  PROVE  BodyWhole'
<1>1. [Next]_vars /\ cuts \subseteq cuts'
  BY CutsGrow
<1> SUFFICES ASSUME NEW r \in Reqs, NEW i \in DOMAIN body'[r],
                    ~body'[r][i].whole
             PROVE  client'[r] \in cuts'
  BY DEF BodyWhole
<1>2. CASE i \in DOMAIN body[r] /\ body'[r][i] = body[r][i]
  <2>1. client[r] \in cuts /\ client[r] # 0
    BY <1>2 DEF CutInv, BodyWhole, StrayInv, BodiesMine, Mine
  <2> QED  BY <1>1, <2>1, Stable
<1>3. CASE hand[r].kind = "piece" /\ ~hand[r].whole
  <2>1. client[r] \in cuts /\ client[r] # 0
    BY <1>3 DEF CutInv, HandCut, StrayInv, HandsMine, Mine
  <2> QED  BY <1>1, <2>1, Stable
<1>4. CASE body'[r] = body[r]
  BY <1>2, <1>4
<1>5. CASE /\ hand[r].kind = "piece"
           /\ body'[r] =
                 Append(body[r], [of |-> hand[r].of, idx |-> hand[r].idx,
                                  whole |-> hand[r].whole])
  <2> DEFINE e == [of |-> hand[r].of, idx |-> hand[r].idx,
                   whole |-> hand[r].whole]
  <2>1. body[r] \in Seq(Parts)
    BY DEF TypeOK
  <2>2. hand[r] \in Pieces \cup Errors /\ hand[r].kind = "piece"
    BY <1>5, FrameTypes
  <2>3. e \in Parts /\ e.whole = hand[r].whole
    BY <2>2 DEF Pieces, Errors, Parts
  <2> HIDE DEF e
  <2>4. body'[r][i] = e \/ (i \in DOMAIN body[r] /\ body'[r][i] = body[r][i])
    BY <1>5, <2>1, <2>3, AppendAt DEF e
  <2> QED  BY <1>2, <1>3, <2>2, <2>3, <2>4
<1> QED  BY <1>1, <1>4, <1>5, HandSteps

\* All that the frames are known to be.
FrameInv == TableInv /\ JobInv /\ StrayInv

LEMMA InitFrame == Init => FrameInv
BY InitTable, InitJob, InitStray DEF FrameInv

LEMMA FrameNext == FrameInv /\ [Next]_vars => FrameInv'
BY TableNext, JobNext, StrayNext DEF FrameInv, TableInv

LEMMA CutNext ==
  FrameInv /\ CutInv /\ [LossNext]_lossVars => FrameInv' /\ CutInv'
<1> SUFFICES ASSUME FrameInv, CutInv, [LossNext]_lossVars
             PROVE  FrameInv' /\ CutInv'
  OBVIOUS
<1>1. TypeOK /\ TableInv /\ JobInv /\ StrayInv /\ [Next]_vars
  BY CutsGrow DEF FrameInv, TableInv
<1>2. WireUp'
  BY <1>1, WireUpNext DEF CutInv
<1>3. UpCut' /\ HandCut' /\ BodyWhole'
  BY <1>1, UpCutNext, HandCutNext, BodyWholeNext
<1> QED  BY <1>1, <1>2, <1>3, FrameNext DEF CutInv

\* With a single connection a browser sees pieces of its own response only,
\* and a part of one that was cut only when a Send failed on it half way.
OneSession ==
    /\ ResponseToOwner
    /\ cuts = {} => \A r \in Reqs : AllWhole(r)

LEMMA FrameInvariance == LossSpec => [](FrameInv /\ CutInv)
<1>1. LossInit => FrameInv /\ CutInv
  BY InitFrame, InitCut DEF LossInit
<1> QED  BY <1>1, CutNext, PTL DEF LossSpec

\* A piece of another response is of a request with an older connection, and
\* other frames' bytes come only where a Send was cut.
THEOREM StraysOnlyFromOldSessions == LossSpec => []StraysAreFromOldSessions
<1>1. FrameInv /\ CutInv => StraysAreFromOldSessions
  BY DEF FrameInv, CutInv, StrayInv, BodiesMine, Mine, BodyWhole,
     StraysAreFromOldSessions
<1> QED  BY <1>1, FrameInvariance, PTL

\* An agent that never reconnects never mixes up two responses' pieces.
THEOREM OneSessionNoStrays ==
  ASSUME MaxSessions = 1 PROVE LossSpec => []OneSession
<1>1. ASSUME FrameInv, CutInv PROVE OneSession
  <2>1. ASSUME NEW r \in Reqs, NEW i \in DOMAIN body[r]
        PROVE  body[r][i].of = r
    <3>1. Mine(body[r][i].of, r) /\ body[r][i].of \in Reqs
      BY <1>1, FrameTypes DEF FrameInv, TableInv, StrayInv, BodiesMine
    <3>2. \A o \in Reqs : client[o] \in 0 .. 1
      BY <1>1 DEF FrameInv, TableInv, TypeOK
    <3> QED  BY <3>1, <3>2 DEF Mine
  <2>2. ASSUME cuts = {}, NEW r \in Reqs PROVE AllWhole(r)
    BY <1>1, <2>2 DEF CutInv, BodyWhole, AllWhole
  <2> QED  BY <2>1, <2>2 DEF OneSession, ResponseToOwner
<1>2. FrameInv /\ CutInv => OneSession
  BY <1>1
<1> QED  BY <1>2, FrameInvariance, PTL

-----------------------------------------------------------------------------
(* The order of a response's pieces *)

\* The agent has sent piece k of o, or has tried to; a piece that was cut (w is
\* FALSE) it may still have to send once more.
Sent(o, k, w) ==
    \/ k < next[o]
    \/ k = next[o] /\ (job[o] = "done" \/ (job[o] = "flush" /\ ~w))

SentPiece(p) == Sent(p.of, p.idx, p.whole)

SentOnly ==
    /\ \A i \in DOMAIN up : up[i].kind = "piece" => SentPiece(up[i])
    /\ \A r \in Reqs : hand[r].kind = "piece" => SentPiece(hand[r])
    /\ \A r \in Reqs : \A i \in DOMAIN body[r] : SentPiece(body[r][i])

UpInOrder ==
    \A i, j \in DOMAIN up :
        i < j /\ up[i].kind = "piece" /\ up[j].kind = "piece"
            => Before(up[i], up[j])

HandBeforeUp ==
    \A r \in Reqs : \A j \in DOMAIN up :
        hand[r].kind = "piece" /\ up[j].kind = "piece"
            => Before(hand[r], up[j])

BodyBeforeUp ==
    \A r \in Reqs : \A i \in DOMAIN body[r], j \in DOMAIN up :
        up[j].kind = "piece" => Before(body[r][i], up[j])

BodyBeforeHand ==
    \A r \in Reqs : \A i \in DOMAIN body[r] :
        hand[r].kind = "piece" => Before(body[r][i], hand[r])

OrderInv ==
    /\ SentOnly
    /\ UpInOrder
    /\ HandBeforeUp
    /\ BodyBeforeUp
    /\ BodyBeforeHand
    /\ BodyInOrder

LEMMA InitOrder == Init => OrderInv
BY DEF Init, OrderInv, SentOnly, UpInOrder, HandBeforeUp, BodyBeforeUp,
   BodyBeforeHand, BodyInOrder, NoFrame

\* The piece that the job of f would send next will not be sent again, or only
\* because it was cut.
Counted(f) ==
    job'[f.of] = "done" \/ (job'[f.of] = "flush" /\ ~f.whole)

\* What a job does to the wire and to its progress.
LEMMA JobSteps ==
  ASSUME TypeOK, NEW r \in Reqs, JobStep(r)
  PROVE  /\ UNCHANGED <<hand, body>>
         /\ job[r] # "done" /\ (job[r] = "flush" => job'[r] = "done")
         /\ \A x \in Reqs \ {r} : job'[x] = job[x] /\ next'[x] = next[x]
         /\ next'[r] = next[r] \/ next'[r] = next[r] + 1
         /\ \/ up' = up
            \/ \E f \in Errors : up' = Append(up, f)
            \/ \E f \in Pieces :
                  /\ f.of = r /\ f.idx = next[r]
                  /\ up' = Append(up, f)
                  /\ next'[r] = next[r] + 1
                     \/ (next'[r] = next[r] /\ Counted(f))
<1>1. /\ UNCHANGED <<hand, body>>
      /\ job[r] # "done" /\ (job[r] = "flush" => job'[r] = "done")
      /\ \A x \in Reqs \ {r} : job'[x] = job[x] /\ next'[x] = next[x]
      /\ next'[r] = next[r] \/ next'[r] = next[r] + 1
  BY DEF JobStep, SendPiece, SendPieceFails, SendLast, SendLastFails,
     SendError, UpstreamFails, Finished, serverVars, TypeOK
<1>2. \A last \in BOOLEAN :
        LET f == Piece(r, last) IN
        /\ f \in Pieces /\ f.of = r /\ f.idx = next[r]
        /\ Cut(f) \in Pieces /\ Cut(f).of = r /\ Cut(f).idx = next[r]
        /\ ~Cut(f).whole
  BY PiecesFit, CutFits DEF Piece, Cut
<1>3. ErrorFrame(r) \in Errors /\ Cut(ErrorFrame(r)) \in Errors
  BY ErrorsFit, CutFits
<1>4. CASE SendPiece(r)
  <2>1. next'[r] = next[r] + 1
    BY <1>4 DEF SendPiece, TypeOK
  <2> QED  BY <1>1, <1>2, <1>4, <2>1 DEF SendPiece, Write
<1>5. CASE SendLast(r) \/ SendLastFails(r)
  <2>1. next'[r] = next[r] /\ job'[r] = "done"
    BY <1>5 DEF SendLast, SendLastFails, TypeOK
  <2>2. \A f : f.of = r => Counted(f)
    BY <2>1 DEF Counted
  <2>3. \/ up' = up \/ up' = Append(up, Piece(r, TRUE))
        \/ up' = Append(up, Cut(Piece(r, TRUE)))
    BY <1>5 DEF SendLast, SendLastFails, Write, WriteFailed
  <2> QED  BY <1>1, <1>2, <2>1, <2>2, <2>3
<1>6. CASE SendPieceFails(r)
  <2>1. next'[r] = next[r] /\ job'[r] = "flush"
    BY <1>6 DEF SendPieceFails, TypeOK
  <2>2. \A f : f.of = r /\ ~f.whole => Counted(f)
    BY <2>1 DEF Counted
  <2>3. up' = up \/ up' = Append(up, Cut(Piece(r, FALSE)))
    BY <1>6 DEF SendPieceFails, WriteFailed
  <2> QED  BY <1>1, <1>2, <2>1, <2>2, <2>3
<1>7. CASE UpstreamFails(r)
  BY <1>1, <1>7 DEF UpstreamFails, wires
<1>8. CASE SendError(r)
  BY <1>1, <1>3, <1>8 DEF SendError, Write, WriteFailed
<1> QED  BY <1>4, <1>5, <1>6, <1>7, <1>8 DEF JobStep

LEMMA SentKept ==
  ASSUME TypeOK, JobInv, [Next]_vars,
         NEW o \in Reqs, NEW k \in Nat, NEW w, Sent(o, k, w)
  PROVE  \/ k < next'[o]
         \/ k = next'[o] /\ (job'[o] = "done" \/ (job'[o] = "flush" /\ ~w))
<1>0. next[o] \in Nat
  BY DEF TypeOK
<1>1. ASSUME NEW r \in Reqs, JobStep(r)
      PROVE  \/ k < next'[o]
             \/ k = next'[o] /\ (job'[o] = "done" \/ (job'[o] = "flush" /\ ~w))
  BY <1>0, <1>1, JobSteps DEF Sent
<1>2. CASE StartJob \/ ReceiveCutRequest
  <2> DEFINE x == Head(down).of
  <2>1. /\ x \in Reqs /\ job[x] = "none" /\ next' = next
        /\ job' = job \/ job' = [job EXCEPT ![x] = "run"]
    BY <1>2, DownTaken
  <2> HIDE DEF x
  <2>2. job[o] \in {"done", "flush"} => job'[o] = job[o]
    BY <2>1 DEF TypeOK
  <2> QED  BY <2>1, <2>2 DEF Sent
<1>3. ASSUME NEW r \in Reqs, RequestStep(r) PROVE UNCHANGED <<job, next>>
  BY <1>3 DEF RequestStep, NotFound, Prepare, SendRequest, SendRequestFails,
     Select, Timeout, BadGateway, WriteHeaderPanics, WriteBody, WriteFails,
     agentVars
<1> QED
  BY <1>1, <1>2, <1>3 DEF Sent, Next, Receiver, Connect, Login, Break,
     ReceiveFrame, ReceiveCut, ReceiveRest, vars, agentVars

LEMMA PieceTypes ==
  ASSUME TypeOK
  PROVE  /\ \A f \in Pieces : f.of \in Reqs /\ f.idx \in Nat /\ f.kind = "piece"
         /\ \A i \in DOMAIN up : i \in Nat /\ (up[i].kind = "piece" => up[i] \in Pieces)
         /\ \A r \in Reqs : hand[r].kind = "piece" => hand[r] \in Pieces
         /\ \A r \in Reqs : \A i \in DOMAIN body[r] :
               i \in Nat /\ body[r][i].of \in Reqs /\ body[r][i].idx \in Nat
<1>1. \A f \in Pieces : f.of \in Reqs /\ f.idx \in Nat /\ f.kind = "piece"
  BY MaxFramesType DEF Pieces
<1>2. \A f \in Errors : f.kind # "piece"
  BY DEF Errors
<1>3. \A i \in DOMAIN up : up[i].kind = "piece" => up[i] \in Pieces
  BY <1>2, FrameTypes
<1>4. \A r \in Reqs : hand[r].kind = "piece" => hand[r] \in Pieces
  BY <1>2, FrameTypes
<1>5. \A i \in DOMAIN up : i \in Nat
  BY WiresFit
<1>6. ASSUME NEW r \in Reqs, NEW i \in DOMAIN body[r]
      PROVE  i \in Nat /\ body[r][i].of \in Reqs /\ body[r][i].idx \in Nat
  <2>1. \A e \in Parts : e.of \in Reqs /\ e.idx \in Nat
    BY MaxFramesType DEF Parts
  <2>2. body[r] \in Seq(Parts)
    BY DEF TypeOK
  <2>3. body[r][i] \in Parts /\ i \in Nat
    BY <2>2
  <2> QED  BY <2>1, <2>3
<1> QED  BY <1>1, <1>3, <1>4, <1>5, <1>6

LEMMA NextNat ==
  ASSUME TypeOK PROVE \A o \in Reqs : next[o] \in Nat
BY MaxFramesType DEF TypeOK

\* A new frame carries the piece its job is about to count as sent.
Fresh(f) ==
    /\ f \in Pieces
    /\ f.idx = next[f.of] /\ job[f.of] # "done"
    /\ f.idx < next'[f.of] \/ (f.idx = next'[f.of] /\ Counted(f))
    /\ UNCHANGED <<hand, body>>

\* The pieces on the wire after a step: those of before, in their order, and
\* at most a new one at the end.
LEMMA UpPieces ==
  ASSUME TypeOK, [Next]_vars
  PROVE  \/ up' = up
         \/ \A i \in DOMAIN up' : up'[i].kind = "rest"
         \/ Behind(up', up)
         \/ \E f \in UpFrames :
               (f.kind = "piece" => Fresh(f)) /\ up' = Append(up, f)
<1>1. CASE up' = up \/ Behind(up', up)
  BY <1>1
<1>2. CASE up' = <<>> \/ up' = <<Rest>>
  BY <1>2 DEF Rest
<1>3. ASSUME NEW r \in Reqs, JobStep(r), up' # up
      PROVE  \E f \in UpFrames :
                (f.kind = "piece" => Fresh(f)) /\ up' = Append(up, f)
  <2>1. CASE \E f \in Errors : up' = Append(up, f)
    BY <2>1 DEF UpFrames, Errors
  <2>2. ASSUME NEW f \in Pieces,
               f.of = r, f.idx = next[r], up' = Append(up, f),
               next'[r] = next[r] + 1
                  \/ (next'[r] = next[r] /\ Counted(f))
        PROVE  Fresh(f) /\ f \in UpFrames
    <3>1. UNCHANGED <<hand, body>> /\ job[r] # "done" /\ next[r] \in Nat
      BY <1>3, JobSteps, NextNat
    <3> QED  BY <2>2, <3>1 DEF Fresh, UpFrames
  <2> QED  BY <1>3, <2>1, <2>2, JobSteps
<1> QED  BY <1>1, <1>2, <1>3, UpSteps

LEMMA UpNew ==
  ASSUME TypeOK, [Next]_vars
  PROVE  \A j \in DOMAIN up' : up'[j].kind = "piece" =>
            \/ \E k \in DOMAIN up : up'[j] = up[k]
            \/ Fresh(up'[j])
<1> SUFFICES ASSUME NEW j \in DOMAIN up', up'[j].kind = "piece"
             PROVE  (\E k \in DOMAIN up : up'[j] = up[k]) \/ Fresh(up'[j])
  OBVIOUS
<1>1. CASE up' = up
  BY <1>1
<1>2. CASE Behind(up', up)
  BY <1>2 DEF Behind
<1>3. ASSUME NEW f \in UpFrames, up' = Append(up, f)
      PROVE  (j \in DOMAIN up /\ up'[j] = up[j]) \/ up'[j] = f
  <2>1. j \in DOMAIN Append(up, f)
    BY <1>3
  <2> QED  BY <1>3, <2>1, AppendAt, WiresFit
<1> QED  BY <1>1, <1>2, <1>3, UpPieces

LEMMA UpKeepsOrder ==
  ASSUME TypeOK, [Next]_vars
  PROVE  \A i, j \in DOMAIN up' :
            i < j /\ up'[i].kind = "piece" /\ up'[j].kind = "piece" =>
               \E k \in DOMAIN up : up'[i] = up[k] /\
                  \/ \E l \in DOMAIN up : k < l /\ up'[j] = up[l]
                  \/ Fresh(up'[j])
<1> DEFINE Goal(i, j) ==
             \E k \in DOMAIN up : up'[i] = up[k] /\
                \/ \E l \in DOMAIN up : k < l /\ up'[j] = up[l]
                \/ Fresh(up'[j])
<1> SUFFICES ASSUME NEW i \in DOMAIN up', NEW j \in DOMAIN up', i < j,
                    up'[i].kind = "piece", up'[j].kind = "piece"
             PROVE  Goal(i, j)
  OBVIOUS
<1>1. CASE up' = up
  BY <1>1
<1>2. CASE Behind(up', up)
  <2>1. PICK m \in Nat \ {0} : \A n \in DOMAIN up' :
           n \in Nat \ {0} /\ n + m \in DOMAIN up /\ up'[n] = up[n + m]
    BY <1>2 DEF Behind
  <2>2. i + m < j + m
    BY <2>1
  <2> QED  BY <2>1, <2>2
<1>3. ASSUME NEW f \in UpFrames, up' = Append(up, f)
      PROVE  /\ i \in DOMAIN up /\ up'[i] = up[i]
             /\ (j \in DOMAIN up /\ up'[j] = up[j]) \/ up'[j] = f
  <2>1. i \in DOMAIN Append(up, f) /\ j \in DOMAIN Append(up, f)
    BY <1>3
  <2>2. /\ j \in Nat
        /\ \/ j \in DOMAIN up /\ j <= Len(up) /\ up'[j] = up[j]
           \/ j = Len(up) + 1 /\ up'[j] = f
    BY <1>3, <2>1, AppendAt, WiresFit
  <2>3. /\ i \in Nat
        /\ \/ i \in DOMAIN up /\ i <= Len(up) /\ up'[i] = up[i]
           \/ i = Len(up) + 1 /\ up'[i] = f
    BY <1>3, <2>1, AppendAt, WiresFit
  <2>4. Len(up) \in Nat
    BY WiresFit
  <2>5. i # Len(up) + 1
    BY <2>2, <2>3, <2>4
  <2> QED  BY <2>2, <2>3, <2>5
<1>4. ASSUME NEW f \in UpFrames, f.kind = "piece" => Fresh(f),
             up' = Append(up, f)
      PROVE  Goal(i, j)
  BY <1>3, <1>4
<1> QED  BY <1>1, <1>2, <1>4, UpPieces

\* A body's pieces after a step: those of before, and at most one from the hand.
LEMMA BodyNew ==
  ASSUME TypeOK, [Next]_vars, NEW r \in Reqs
  PROVE  \A i \in DOMAIN body'[r] :
            \/ i \in DOMAIN body[r] /\ body'[r][i] = body[r][i]
            \/ /\ hand[r].kind = "piece" /\ hand'[r] = NoFrame /\ up' = up
               /\ body'[r][i].of = hand[r].of /\ body'[r][i].idx = hand[r].idx
               /\ body'[r][i].whole = hand[r].whole
               /\ \A k \in DOMAIN body'[r] : k <= i
<1>1. CASE body'[r] = body[r]
  BY <1>1
<1>2. CASE /\ hand[r].kind = "piece" /\ hand'[r] = NoFrame /\ up' = up
           /\ body'[r] =
                 Append(body[r], [of |-> hand[r].of, idx |-> hand[r].idx,
                                  whole |-> hand[r].whole])
  <2> DEFINE e == [of |-> hand[r].of, idx |-> hand[r].idx,
                   whole |-> hand[r].whole]
  <2>1. body[r] \in Seq(Parts)
    BY DEF TypeOK
  <2>2. hand[r] \in Pieces
    BY <1>2, PieceTypes
  <2>3. e \in Parts
    BY <2>2 DEF Pieces, Parts
  <2>4. e.of = hand[r].of /\ e.idx = hand[r].idx /\ e.whole = hand[r].whole
    OBVIOUS
  <2> HIDE DEF e
  <2>5. body'[r] = Append(body[r], e)
    BY <1>2 DEF e
  <2>6. Len(body[r]) \in Nat
    BY <2>1
  <2>7. \A i \in DOMAIN body'[r] :
           /\ i \in Nat
           /\ \/ i \in DOMAIN body[r] /\ i <= Len(body[r])
                 /\ body'[r][i] = body[r][i]
              \/ i = Len(body[r]) + 1 /\ body'[r][i] = e
    BY <2>1, <2>3, <2>5, AppendAt
  <2> QED  BY <1>2, <2>4, <2>6, <2>7
<1> QED  BY <1>1, <1>2, HandSteps

\* A piece that DoRequest takes is the first on the wire.
LEMMA PieceTaken ==
  ASSUME TypeOK, NEW r \in Reqs, Takes(r), hand'[r].kind = "piece"
  PROVE  /\ 1 \in DOMAIN up /\ up[1].kind = "piece"
         /\ hand'[r].of = up[1].of /\ hand'[r].idx = up[1].idx
         /\ hand'[r].whole = up[1].whole
         /\ up' = <<Rest>> \/ Behind(up', up)
BY UpTaken DEF Takes, SameFrame

\* What was sent comes before what is new.
LEMMA SentBeforeFresh ==
  ASSUME TypeOK, NEW f, Fresh(f), NEW p, p.idx \in Nat, SentPiece(p)
  PROVE  Before(p, f)
BY DEF Fresh, SentPiece, Sent, Before

LEMMA SentOnlyNext ==
  ASSUME TypeOK, JobInv, SentOnly, [Next]_vars PROVE SentOnly'
<1> DEFINE Sent1(o, k, w) ==
             \/ k < next'[o]
             \/ k = next'[o] /\ (job'[o] = "done" \/ (job'[o] = "flush" /\ ~w))
<1>1. ASSUME NEW p, p.of \in Reqs, p.idx \in Nat, SentPiece(p)
      PROVE  Sent1(p.of, p.idx, p.whole)
  BY <1>1, SentKept DEF SentPiece
<1> HIDE DEF Sent1
<1>2. \A i \in DOMAIN up' :
         up'[i].kind = "piece" => Sent1(up'[i].of, up'[i].idx, up'[i].whole)
  <2>1. \A i \in DOMAIN up :
           up[i].kind = "piece" => Sent1(up[i].of, up[i].idx, up[i].whole)
    BY <1>1, PieceTypes DEF SentOnly
  <2>2. \A f : Fresh(f) => Sent1(f.of, f.idx, f.whole)
    BY DEF Fresh, Counted, Sent1
  <2> QED  BY <2>1, <2>2, UpNew
<1>3. ASSUME NEW r \in Reqs, hand'[r].kind = "piece"
      PROVE  Sent1(hand'[r].of, hand'[r].idx, hand'[r].whole)
  <2>1. CASE hand'[r] = hand[r]
    BY <1>1, <1>3, <2>1, PieceTypes DEF SentOnly
  <2>2. CASE Takes(r)
    <3>1. /\ 1 \in DOMAIN up /\ up[1].kind = "piece"
          /\ hand'[r].of = up[1].of /\ hand'[r].idx = up[1].idx
          /\ hand'[r].whole = up[1].whole
      BY <1>3, <2>2, PieceTaken
    <3>2. Sent1(up[1].of, up[1].idx, up[1].whole)
      BY <1>1, <3>1, PieceTypes DEF SentOnly
    <3> QED  BY <3>1, <3>2
  <2>3. hand'[r] # NoFrame
    BY <1>3 DEF NoFrame
  <2> QED  BY <2>1, <2>2, <2>3, HandSteps
<1>4. ASSUME NEW r \in Reqs, NEW i \in DOMAIN body'[r]
      PROVE  Sent1(body'[r][i].of, body'[r][i].idx, body'[r][i].whole)
  <2>1. CASE i \in DOMAIN body[r] /\ body'[r][i] = body[r][i]
    BY <1>1, <2>1, PieceTypes DEF SentOnly
  <2>2. CASE /\ hand[r].kind = "piece"
             /\ body'[r][i].of = hand[r].of /\ body'[r][i].idx = hand[r].idx
             /\ body'[r][i].whole = hand[r].whole
    <3>1. Sent1(hand[r].of, hand[r].idx, hand[r].whole)
      BY <1>1, <2>2, PieceTypes DEF SentOnly
    <3> QED  BY <2>2, <3>1
  <2> QED  BY <2>1, <2>2, BodyNew
<1> QED  BY <1>2, <1>3, <1>4 DEF SentOnly, SentPiece, Sent, Sent1

LEMMA UpInOrderNext ==
  ASSUME TypeOK, SentOnly, UpInOrder, [Next]_vars PROVE UpInOrder'
<1> SUFFICES ASSUME NEW i \in DOMAIN up', NEW j \in DOMAIN up', i < j,
                    up'[i].kind = "piece", up'[j].kind = "piece"
             PROVE  Before(up'[i], up'[j])
  BY DEF UpInOrder, Before
<1>1. PICK k \in DOMAIN up : up'[i] = up[k] /\
         \/ \E l \in DOMAIN up : k < l /\ up'[j] = up[l]
         \/ Fresh(up'[j])
  BY UpKeepsOrder
<1>2. CASE \E l \in DOMAIN up : k < l /\ up'[j] = up[l]
  BY <1>1, <1>2 DEF UpInOrder
<1>3. CASE Fresh(up'[j])
  <2>1. SentPiece(up[k]) /\ up[k].idx \in Nat
    BY <1>1, PieceTypes DEF SentOnly
  <2> QED  BY <1>1, <1>3, <2>1, SentBeforeFresh
<1> QED  BY <1>1, <1>2, <1>3

LEMMA HandBeforeUpNext ==
  ASSUME TypeOK, SentOnly, UpInOrder, HandBeforeUp, [Next]_vars
  PROVE  HandBeforeUp'
<1> SUFFICES ASSUME NEW r \in Reqs, NEW j \in DOMAIN up',
                    hand'[r].kind = "piece", up'[j].kind = "piece"
             PROVE  Before(hand'[r], up'[j])
  BY DEF HandBeforeUp, Before
<1>1. CASE hand'[r] = hand[r]
  <2>1. CASE Fresh(up'[j])
    <3>1. SentPiece(hand[r]) /\ hand[r].idx \in Nat
      BY <1>1, PieceTypes DEF SentOnly
    <3> QED  BY <1>1, <2>1, <3>1, SentBeforeFresh
  <2> QED  BY <1>1, <2>1, UpNew DEF HandBeforeUp
<1>2. CASE Takes(r)
  <2>1. /\ 1 \in DOMAIN up /\ up[1].kind = "piece"
        /\ hand'[r].of = up[1].of /\ hand'[r].idx = up[1].idx
        /\ hand'[r].whole = up[1].whole
        /\ up' = <<Rest>> \/ Behind(up', up)
    BY <1>2, PieceTaken
  <2>2. Behind(up', up)
    BY <2>1 DEF Rest
  <2>3. PICK m \in Nat \ {0} : \A n \in DOMAIN up' :
           n \in Nat \ {0} /\ n + m \in DOMAIN up /\ up'[n] = up[n + m]
    BY <2>2 DEF Behind
  <2>4. 1 < j + m
    BY <2>3
  <2>5. Before(up[1], up'[j])
    BY <2>1, <2>3, <2>4 DEF UpInOrder
  <2> QED  BY <2>1, <2>5 DEF Before
<1>3. hand'[r] # NoFrame
  BY DEF NoFrame
<1> QED  BY <1>1, <1>2, <1>3, HandSteps

LEMMA BodyBeforeUpNext ==
  ASSUME TypeOK, SentOnly, HandBeforeUp, BodyBeforeUp, [Next]_vars
  PROVE  BodyBeforeUp'
<1> SUFFICES ASSUME NEW r \in Reqs, NEW i \in DOMAIN body'[r],
                    NEW j \in DOMAIN up', up'[j].kind = "piece"
             PROVE  Before(body'[r][i], up'[j])
  BY DEF BodyBeforeUp, Before
<1>1. CASE i \in DOMAIN body[r] /\ body'[r][i] = body[r][i]
  <2>1. CASE Fresh(up'[j])
    <3>1. SentPiece(body[r][i]) /\ body[r][i].idx \in Nat
      BY <1>1, PieceTypes DEF SentOnly
    <3> QED  BY <1>1, <2>1, <3>1, SentBeforeFresh
  <2> QED  BY <1>1, <2>1, UpNew DEF BodyBeforeUp
<1>2. CASE /\ hand[r].kind = "piece" /\ up' = up
           /\ body'[r][i].of = hand[r].of /\ body'[r][i].idx = hand[r].idx
           /\ body'[r][i].whole = hand[r].whole
  BY <1>2 DEF HandBeforeUp, Before
<1> QED  BY <1>1, <1>2, BodyNew

LEMMA BodyBeforeHandNext ==
  ASSUME TypeOK, BodyBeforeUp, BodyBeforeHand, [Next]_vars
  PROVE  BodyBeforeHand'
<1> SUFFICES ASSUME NEW r \in Reqs, NEW i \in DOMAIN body'[r],
                    hand'[r].kind = "piece"
             PROVE  Before(body'[r][i], hand'[r])
  BY DEF BodyBeforeHand, Before
<1>1. i \in DOMAIN body[r] /\ body'[r][i] = body[r][i]
  BY BodyNew DEF NoFrame
<1>2. CASE hand'[r] = hand[r]
  BY <1>1, <1>2 DEF BodyBeforeHand
<1>3. CASE Takes(r)
  <2>1. /\ 1 \in DOMAIN up /\ up[1].kind = "piece"
        /\ hand'[r].of = up[1].of /\ hand'[r].idx = up[1].idx
    BY <1>3, PieceTaken
  <2> QED  BY <1>1, <2>1 DEF BodyBeforeUp, Before
<1>4. hand'[r] # NoFrame
  BY DEF NoFrame
<1> QED  BY <1>2, <1>3, <1>4, HandSteps

LEMMA BodyInOrderNext ==
  ASSUME TypeOK, BodyBeforeHand, BodyInOrder, [Next]_vars
  PROVE  BodyInOrder'
<1> SUFFICES ASSUME NEW r \in Reqs, NEW i \in DOMAIN body'[r],
                    NEW j \in DOMAIN body'[r], i < j
             PROVE  Before(body'[r][i], body'[r][j])
  BY DEF BodyInOrder, Before
<1>0. i \in Nat /\ j \in Nat
  <2>1. TypeOK'
    BY NextType
  <2>2. body' \in [Reqs -> Seq(Parts)]
    BY <2>1 DEF TypeOK, Parts
  <2>3. body'[r] \in Seq(Parts)
    BY <2>2
  <2> QED  BY <2>3
<1>1. i \in DOMAIN body[r] /\ body'[r][i] = body[r][i]
  BY <1>0, BodyNew
<1>2. CASE j \in DOMAIN body[r] /\ body'[r][j] = body[r][j]
  BY <1>1, <1>2 DEF BodyInOrder
<1>3. CASE /\ hand[r].kind = "piece"
           /\ body'[r][j].of = hand[r].of /\ body'[r][j].idx = hand[r].idx
  BY <1>1, <1>3 DEF BodyBeforeHand, Before
<1> QED  BY <1>2, <1>3, BodyNew

LEMMA OrderNext ==
  TypeOK /\ JobInv /\ OrderInv /\ [Next]_vars => OrderInv'
BY SentOnlyNext, UpInOrderNext, HandBeforeUpNext, BodyBeforeUpNext,
   BodyBeforeHandNext, BodyInOrderNext DEF OrderInv

\* The browser gets the pieces of a response in their order, none twice but
\* one that was cut off.
THEOREM PiecesStayInOrder == Spec => []BodyInOrder
<1>1. Init => JobInv /\ OrderInv
  BY InitJob, InitOrder
<1>2. OrderInv => BodyInOrder
  BY DEF OrderInv
<1> QED  BY <1>1, <1>2, TypeCorrect, JobNext, OrderNext, PTL DEF Spec

=============================================================================
