--------------------------- MODULE FrameConnProofs ---------------------------
(***************************************************************************)
(* FrameConn for any number of senders and frames of any length.  The two  *)
(* facts the safety properties rest on: the piece the lock's holder has    *)
(* written last is the last one of the stream, and what has arrived begins *)
(* where Receive reads, until a frame is left half way.                    *)
(***************************************************************************)
EXTENDS FrameConn, SequenceTheorems, TLAPS

\* The lock is held from Lock to Unlock, and only then has a Send written.
LockHeld ==
    /\ \A k \in Senders : pc[k] \in {"write", "unlock"} <=> lock = k
    /\ lock = None => wrote = 0

\* A deadline is that of a Send under way.
ArmedIsBusy == deadline \in Senders => pc[deadline] # "idle"

\* The holder stopped inside a frame only if the stream is cut.
StopsAtEnd ==
    /\ lock \in Senders /\ pc[lock] = "write" => wrote < Pieces
    /\ lock \in Senders /\ pc[lock] = "unlock" /\ ~cut => wrote \in {0, Pieces}

\* The stream ends with what the holder has written, or with a whole frame.
EndsWithWrote ==
    ~cut /\ out # <<>> =>
        IF wrote = 0
        THEN out[Len(out)].piece = Pieces
        ELSE out[Len(out)] = [of |-> lock, piece |-> wrote]

After(p) == IF p = Pieces THEN 1 ELSE p + 1

\* What has arrived continues what Receive has read.
InStep ==
    closed = "no" /\ ~lost /\ rcv # "gone" =>
        /\ in = <<>> => next = pos + 1
        /\ in # <<>> => in[1] = pos + 1 /\ next = After(in[Len(in)])
        /\ \A i \in 1 .. Len(in) - 1 : in[i + 1] = After(in[i])

StartsAtZero == rcv = "start" => pos = 0

IInv ==
    /\ TypeOK
    /\ LockHeld
    /\ ArmedIsBusy
    /\ StopsAtEnd
    /\ EndsWithWrote
    /\ FramesAreWhole
    /\ StartsAtZero
    /\ InStep
    /\ KeepsItsPlace

-----------------------------------------------------------------------------

\* A frame's piece may be followed by this one.
Follows(a, b) ==
    \/ a.piece < Pieces /\ b = [of |-> a.of, piece |-> a.piece + 1]
    \/ a.piece = Pieces /\ b.piece = 1

LEMMA InitIInv == Init => IInv
<1> SUFFICES ASSUME Init PROVE IInv
  OBVIOUS
<1> USE PiecesType DEF Init
<1>1. TypeOK
  <2>1. pc \in [Senders -> {"idle", "marshal", "write", "unlock", "clear"}]
    OBVIOUS
  <2>2. out \in Seq(OutPieces) /\ in \in Seq(1 .. Pieces) OBVIOUS
  <2>3. wrote \in 0 .. Pieces /\ pos \in 0 .. Pieces - 1 /\ next \in 1 .. Pieces
    OBVIOUS
  <2> QED BY <2>1, <2>2, <2>3 DEF TypeOK
<1>2. LockHeld /\ ArmedIsBusy /\ StopsAtEnd
  BY NoneFresh DEF LockHeld, ArmedIsBusy, StopsAtEnd
<1>3. EndsWithWrote /\ FramesAreWhole
  BY EmptySeq DEF EndsWithWrote, FramesAreWhole
<1>4. StartsAtZero /\ KeepsItsPlace
  BY DEF StartsAtZero, KeepsItsPlace
<1>5. InStep BY EmptySeq DEF InStep
<1> QED BY <1>1, <1>2, <1>3, <1>4, <1>5 DEF IInv

\* Steps of a Send that write nothing.
LEMMA SendQuietly ==
  ASSUME IInv, NEW k \in Senders,
         SetDeadline(k) \/ MarshalFails(k) \/ Lock(k) \/ WriteFails(k)
            \/ Unlock(k) \/ ClearDeadline(k)
  PROVE  IInv'
<1> USE NoneFresh, PiecesType DEF IInv, Goto
<1>u. UNCHANGED <<out, rcv, pos, lost, in, next, closed>>
  BY DEF SetDeadline, MarshalFails, Lock, WriteFails, Unlock, ClearDeadline,
         rcvVars, peerVars
<1>1. TypeOK'
  <2>1. TypeOK BY DEF IInv
  <2>2. CASE SetDeadline(k) BY <2>1, <2>2, <1>u DEF SetDeadline, Arm, TypeOK
  <2>3. CASE MarshalFails(k)
    BY <2>1, <2>3, <1>u DEF MarshalFails, Disarm, Arm, TypeOK
  <2>4. CASE Lock(k) BY <2>1, <2>4, <1>u DEF Lock, deadlineVars, TypeOK
  <2>5. CASE WriteFails(k)
    BY <2>1, <2>5, <1>u DEF WriteFails, deadlineVars, TypeOK
  <2>6. CASE Unlock(k) BY <2>1, <2>6, <1>u DEF Unlock, deadlineVars, TypeOK
  <2>7. CASE ClearDeadline(k)
    BY <2>1, <2>7, <1>u DEF ClearDeadline, Disarm, Arm, TypeOK
  <2> QED BY <2>2, <2>3, <2>4, <2>5, <2>6, <2>7
<1>2. LockHeld'
  <2>1. CASE SetDeadline(k) BY <2>1 DEF SetDeadline, LockHeld, TypeOK
  <2>2. CASE MarshalFails(k) BY <2>2 DEF MarshalFails, LockHeld, TypeOK
  <2>3. CASE Lock(k) BY <2>3 DEF Lock, LockHeld, TypeOK
  <2>4. CASE WriteFails(k) BY <2>4 DEF WriteFails, LockHeld, TypeOK
  <2>5. CASE Unlock(k) BY <2>5 DEF Unlock, LockHeld, TypeOK
  <2>6. CASE ClearDeadline(k) BY <2>6 DEF ClearDeadline, LockHeld, TypeOK
  <2> QED BY <2>1, <2>2, <2>3, <2>4, <2>5, <2>6
<1>3. ArmedIsBusy'
  <2>1. CASE SetDeadline(k) BY <2>1 DEF SetDeadline, Arm, ArmedIsBusy, TypeOK
  <2>2. CASE MarshalFails(k) \/ ClearDeadline(k)
    BY <2>2 DEF MarshalFails, ClearDeadline, Disarm, Arm, ArmedIsBusy
  <2>3. CASE Lock(k) \/ WriteFails(k) \/ Unlock(k)
    BY <2>3 DEF Lock, WriteFails, Unlock, deadlineVars, ArmedIsBusy, TypeOK
  <2> QED BY <2>1, <2>2, <2>3
<1>4. StopsAtEnd'
  <2>1. CASE SetDeadline(k) \/ MarshalFails(k) \/ ClearDeadline(k)
    BY <2>1, <1>u DEF SetDeadline, MarshalFails, ClearDeadline, StopsAtEnd,
       LockHeld, TypeOK
  <2>2. CASE Lock(k) BY <2>2, <1>u DEF Lock, StopsAtEnd, LockHeld, TypeOK
  <2>3. CASE WriteFails(k)
    <3>1. /\ pc[k] = "write" /\ lock = k /\ lock' = lock /\ wrote' = wrote
          /\ pc' = [pc EXCEPT ![k] = "unlock"]
      BY <2>3 DEF WriteFails, LockHeld
    <3>2. pc'[k] = "unlock" BY <3>1 DEF TypeOK
    <3>3. wrote > 0 => cut' BY <2>3 DEF WriteFails
    <3>4. wrote \in Nat BY DEF TypeOK
    <3> QED BY <3>1, <3>2, <3>3, <3>4 DEF StopsAtEnd
  <2>4. CASE Unlock(k) BY <2>4, <1>u DEF Unlock, StopsAtEnd
  <2> QED BY <2>1, <2>2, <2>3, <2>4
<1>5. EndsWithWrote'
  <2>1. CASE SetDeadline(k) \/ MarshalFails(k) \/ ClearDeadline(k)
    BY <2>1, <1>u
       DEF SetDeadline, MarshalFails, ClearDeadline, EndsWithWrote
  <2>2. CASE Lock(k) BY <2>2, <1>u DEF Lock, EndsWithWrote, LockHeld
  <2>3. CASE WriteFails(k) BY <2>3, <1>u DEF WriteFails, EndsWithWrote, TypeOK
  <2>4. CASE Unlock(k)
    <3>1. lock = k /\ ~cut => wrote \in {0, Pieces}
      BY <2>4 DEF Unlock, StopsAtEnd, LockHeld
    <3>2. lock = k BY <2>4 DEF Unlock, LockHeld
    <3>3. wrote' = 0 /\ cut' = cut /\ out' = out BY <2>4, <1>u DEF Unlock
    <3> QED BY <3>1, <3>2, <3>3 DEF EndsWithWrote
  <2> QED BY <2>1, <2>2, <2>3, <2>4
<1>6. FramesAreWhole'
  <2>1. cut' \/ cut' = cut
    BY DEF SetDeadline, MarshalFails, Lock, WriteFails, Unlock, ClearDeadline,
           TypeOK
  <2>2. ~cut' => ~cut
    BY DEF SetDeadline, MarshalFails, Lock, WriteFails, Unlock, ClearDeadline,
           TypeOK
  <2> QED BY <1>u, <2>2 DEF FramesAreWhole
<1>7. StartsAtZero' /\ KeepsItsPlace' /\ InStep'
  BY <1>u DEF StartsAtZero, KeepsItsPlace, InStep, After
<1> QED BY <1>1, <1>2, <1>3, <1>4, <1>5, <1>6, <1>7

LEMMA WriteWhole ==
  ASSUME IInv, NEW k \in Senders, Write(k)
  PROVE  IInv'
<1> USE NoneFresh, PiecesType
<1> DEFINE p == [of |-> k, piece |-> wrote + 1]
<1>t. TypeOK BY DEF IInv
<1>u. UNCHANGED <<lock, cut, deadline, expired, rcv, pos, lost, in, next, closed>>
  BY DEF Write, deadlineVars, rcvVars, peerVars
<1>h. pc[k] = "write" /\ lock = k /\ wrote < Pieces /\ wrote \in Nat
      /\ wrote' = wrote + 1 /\ out' = Append(out, p)
  BY DEF Write, IInv, LockHeld, StopsAtEnd, TypeOK
<1>p. /\ pc' = IF wrote + 1 = Pieces THEN [pc EXCEPT ![k] = "unlock"] ELSE pc
      /\ pc \in [Senders -> {"idle", "marshal", "write", "unlock", "clear"}]
  BY DEF Write, Goto, IInv, TypeOK
<1>o. out \in Seq(OutPieces) /\ p \in OutPieces
  BY <1>t, <1>h DEF TypeOK, OutPieces
<1>a. /\ out' \in Seq(OutPieces) /\ Len(out') = Len(out) + 1
      /\ \A i \in 1 .. Len(out) : out'[i] = out[i]
      /\ out'[Len(out) + 1] = p
      /\ Len(out) \in Nat
  BY <1>o, <1>h, AppendProperties, LenProperties
<1>1. TypeOK'
  <2>1. pc' \in [Senders -> {"idle", "marshal", "write", "unlock", "clear"}]
    BY <1>p
  <2> QED BY <1>t, <1>u, <1>h, <1>a, <2>1 DEF TypeOK
<1>2. LockHeld' BY <1>u, <1>h, <1>p DEF IInv, LockHeld
<1>3. ArmedIsBusy' BY <1>u, <1>p, <1>h DEF IInv, ArmedIsBusy
<1>4. StopsAtEnd' BY <1>u, <1>p, <1>h DEF IInv, StopsAtEnd
<1>5. EndsWithWrote' BY <1>u, <1>a, <1>h DEF EndsWithWrote
<1>6. FramesAreWhole'
  <2> SUFFICES ASSUME ~cut, NEW i \in 1 .. Len(out)
               PROVE  Follows(out'[i], out'[i + 1])
    BY <1>u, <1>a DEF FramesAreWhole, Follows
  <2>1. CASE i < Len(out)
    <3>1. i \in 1 .. Len(out) - 1 /\ i + 1 \in 1 .. Len(out)
      BY <2>1, <1>a
    <3>2. Follows(out[i], out[i + 1])
      BY <3>1 DEF IInv, FramesAreWhole, Follows
    <3> QED BY <3>1, <3>2, <1>a
  <2>2. CASE i = Len(out)
    <3>1. out # <<>> BY <2>2, <1>a
    <3>2. IF wrote = 0 THEN out[i].piece = Pieces
          ELSE out[i] = [of |-> k, piece |-> wrote]
      BY <3>1, <2>2, <1>h DEF IInv, EndsWithWrote
    <3>3. out'[i] = out[i] /\ out'[i + 1] = p BY <2>2, <1>a
    <3> QED BY <3>2, <3>3, <1>h DEF Follows
  <2> QED BY <2>1, <2>2, <1>a
<1>7. StartsAtZero' /\ KeepsItsPlace' /\ InStep'
  BY <1>u DEF IInv, StartsAtZero, KeepsItsPlace, InStep, After
<1> QED BY <1>1, <1>2, <1>3, <1>4, <1>5, <1>6, <1>7 DEF IInv

LEMMA PeerReadsWhole ==
  ASSUME IInv, PeerReads
  PROVE  IInv'
<1> USE PiecesType
<1>u. UNCHANGED <<pc, lock, wrote, cut, deadline, expired, rcv, pos, lost, in,
                  next, closed>>
  BY DEF PeerReads, deadlineVars, rcvVars, peerVars
<1>o. out \in Seq(OutPieces) /\ out # <<>> /\ out' = Tail(out)
  BY DEF IInv, TypeOK, PeerReads
<1>a. /\ out' \in Seq(OutPieces) /\ Len(out') = Len(out) - 1
      /\ Len(out) \in Nat /\ Len(out) > 0
      /\ \A i \in 1 .. Len(out') : out'[i] = out[i + 1]
  BY <1>o, HeadTailProperties, LenProperties, EmptySeq
<1>1. TypeOK' BY <1>u, <1>a DEF IInv, TypeOK
<1>2. LockHeld' /\ ArmedIsBusy' /\ StopsAtEnd'
  BY <1>u DEF IInv, LockHeld, ArmedIsBusy, StopsAtEnd
<1>3. EndsWithWrote'
  <2> SUFFICES ASSUME ~cut, out' # <<>>
               PROVE  out'[Len(out')] = out[Len(out)]
    BY <1>u, <1>o DEF IInv, EndsWithWrote
  <2>1. Len(out') \in 1 .. Len(out') BY <1>a, EmptySeq
  <2> QED BY <2>1, <1>a
<1>4. FramesAreWhole'
  <2> SUFFICES ASSUME ~cut, NEW i \in 1 .. Len(out') - 1
               PROVE  Follows(out'[i], out'[i + 1])
    BY <1>u DEF FramesAreWhole, Follows
  <2>1. i + 1 \in 1 .. Len(out) - 1 BY <1>a
  <2>2. Follows(out[i + 1], out[(i + 1) + 1])
    BY <2>1 DEF IInv, FramesAreWhole, Follows
  <2>3. out'[i] = out[i + 1] /\ out'[i + 1] = out[(i + 1) + 1] BY <1>a
  <2> QED BY <2>2, <2>3
<1>5. StartsAtZero' /\ KeepsItsPlace' /\ InStep'
  BY <1>u DEF IInv, StartsAtZero, KeepsItsPlace, InStep, After
<1> QED BY <1>1, <1>2, <1>3, <1>4, <1>5 DEF IInv

-----------------------------------------------------------------------------

\* What Receive and the peer's sending leave alone.
LEMMA SendSideStays ==
  ASSUME IInv, UNCHANGED sendVars,
         UNCHANGED deadlineVars \/ Disarm \/ Due
  PROVE  /\ LockHeld' /\ ArmedIsBusy' /\ StopsAtEnd'
         /\ EndsWithWrote' /\ FramesAreWhole'
         /\ pc' = pc /\ lock' = lock /\ wrote' = wrote
         /\ out' = out /\ cut' = cut
         /\ deadline' \in Senders \cup {None} /\ expired' \in BOOLEAN
<1>1. UNCHANGED <<pc, lock, wrote, out, cut>> BY DEF sendVars
<1>2. /\ deadline' \in {deadline, None}
      /\ deadline' \in Senders \cup {None} /\ expired' \in BOOLEAN
  BY DEF deadlineVars, Disarm, Arm, Due, IInv, TypeOK
<1>3. LockHeld' /\ StopsAtEnd' BY <1>1 DEF IInv, LockHeld, StopsAtEnd
<1>4. EndsWithWrote' /\ FramesAreWhole'
  BY <1>1 DEF IInv, EndsWithWrote, FramesAreWhole
<1>5. ArmedIsBusy' BY <1>1, <1>2, NoneFresh DEF IInv, ArmedIsBusy
<1> QED BY <1>1, <1>2, <1>3, <1>4, <1>5

LEMMA ReceiverInStep ==
  ASSUME IInv, Receiver
  PROVE  IInv'
<1> USE PiecesType
<1>s. UNCHANGED sendVars /\ (UNCHANGED deadlineVars \/ Disarm)
  BY DEF Receiver, ReceiveStart, Read, ReadTimesOut, ReadFails
<1>k. next' = next /\ closed' = closed
  BY DEF Receiver, ReceiveStart, Read, ReadTimesOut, ReadFails, peerVars
<1>t. /\ rcv \in {"start", "read", "gone"} /\ pos \in 0 .. Pieces - 1
      /\ lost \in BOOLEAN /\ in \in Seq(1 .. Pieces) /\ next \in 1 .. Pieces
      /\ closed \in {"no", "here", "peer"}
  BY DEF IInv, TypeOK
<1>r. /\ rcv' \in {"start", "read", "gone"} /\ pos' \in 0 .. Pieces - 1
      /\ lost' \in BOOLEAN /\ in' \in Seq(1 .. Pieces)
      /\ StartsAtZero' /\ KeepsItsPlace' /\ InStep'
  <2>1. CASE ReceiveStart
    <3>1. /\ rcv = "start" /\ rcv' = "read" /\ pos' = 0 /\ pos = 0
          /\ lost' = lost /\ in' = in
      BY <2>1 DEF ReceiveStart, IInv, StartsAtZero
    <3> QED BY <3>1, <1>t, <1>k
            DEF IInv, StartsAtZero, KeepsItsPlace, InStep, After
  <2>2. CASE ReadTimesOut
    <3>1. /\ rcv = "read" /\ rcv' = "start" /\ pos' = 0 /\ in' = in
          /\ lost' = (lost \/ pos > 0)
      BY <2>2 DEF ReadTimesOut
    <3>2. CASE pos > 0
      <4>1. lost' = TRUE BY <3>1, <3>2
      <4> QED BY <3>1, <4>1, <1>t DEF StartsAtZero, KeepsItsPlace, InStep
    <3>3. CASE ~(pos > 0)
      <4>1. lost' = lost /\ pos = 0 BY <3>1, <3>3, <1>t
      <4> QED BY <3>1, <4>1, <1>t, <1>k
              DEF IInv, StartsAtZero, KeepsItsPlace, InStep, After
    <3> QED BY <3>2, <3>3
  <2>3. CASE ReadFails
    BY <2>3, <1>t, <1>k DEF ReadFails, StartsAtZero, KeepsItsPlace, InStep
  <2>4. CASE Read
    <3>1. /\ rcv = "read" /\ in # <<>> /\ in' = Tail(in) /\ lost' = lost
      BY <2>4 DEF Read
    <3>2. /\ in' \in Seq(1 .. Pieces) /\ Len(in') = Len(in) - 1
          /\ Len(in) \in Nat /\ Len(in) > 0
          /\ Head(in) = in[1] /\ Len(in') \in Nat
          /\ \A i \in 1 .. Len(in') : in'[i] = in[i + 1]
      BY <3>1, <1>t, HeadTailProperties, LenProperties, EmptySeq
    <3>3. in' = <<>> <=> Len(in') = 0 BY <3>2, EmptySeq
    <3>4. CASE closed = "no" /\ ~lost
      <4>1. /\ in[1] = pos + 1 /\ next = After(in[Len(in)])
            /\ \A i \in 1 .. Len(in) - 1 : in[i + 1] = After(in[i])
        BY <3>4, <3>1 DEF IInv, InStep
      <4>2. /\ rcv' \in {"start", "read"}
            /\ rcv' = "start" => pos' = 0
            /\ pos' = IF pos + 1 = Pieces THEN 0 ELSE pos + 1
        BY <2>4, <4>1, <3>2, <1>t DEF Read
      <4>3. pos' \in 0 .. Pieces - 1 /\ pos' + 1 = After(in[1])
        BY <4>1, <4>2, <1>t DEF After
      <4>4. in' = <<>> => next' = pos' + 1
        <5>1. in' = <<>> => Len(in) = 1 BY <3>2, <3>3
        <5> QED BY <5>1, <4>1, <4>3, <1>k
      <4>5. in' # <<>> => in'[1] = pos' + 1 /\ next' = After(in'[Len(in')])
        <5>1. in' # <<>> => 1 \in 1 .. Len(in') /\ Len(in') \in 1 .. Len(in')
                            /\ 1 \in 1 .. Len(in) - 1
          BY <3>2, <3>3
        <5>2. in' # <<>> => in'[1] = in[1 + 1] /\ in'[Len(in')] = in[Len(in)]
          BY <5>1, <3>2
        <5>3. in' # <<>> => in[1 + 1] = After(in[1]) BY <5>1, <4>1
        <5> QED BY <5>2, <5>3, <4>1, <4>3, <1>k
      <4>6. ASSUME NEW i \in 1 .. Len(in') - 1
            PROVE  in'[i + 1] = After(in'[i])
        <5>1. i + 1 \in 1 .. Len(in) - 1 /\ i \in 1 .. Len(in')
              /\ i + 1 \in 1 .. Len(in')
          BY <3>2
        <5>2. in[(i + 1) + 1] = After(in[i + 1]) BY <5>1, <4>1
        <5> QED BY <5>1, <5>2, <3>2
      <4>7. InStep' BY <4>4, <4>5, <4>6 DEF InStep, After
      <4> QED BY <4>2, <4>3, <4>7, <3>1, <3>2, <1>t
              DEF StartsAtZero, KeepsItsPlace
    <3>5. CASE closed # "no" \/ lost
      <4>1. /\ rcv' \in {"start", "read", "gone"} /\ pos' \in 0 .. Pieces - 1
            /\ rcv' = "start" => pos' = 0
        BY <2>4, <1>t DEF Read
      <4> QED BY <4>1, <3>1, <3>2, <3>5, <1>k, <1>t
              DEF StartsAtZero, KeepsItsPlace, InStep
    <3> QED BY <3>4, <3>5, <1>t
  <2> QED BY <2>1, <2>2, <2>3, <2>4 DEF Receiver
<1>1. TypeOK' BY <1>s, <1>k, <1>r, SendSideStays DEF IInv, TypeOK
<1> QED BY <1>s, <1>r, <1>1, SendSideStays DEF IInv

LEMMA PeerInStep ==
  ASSUME IInv, Due \/ PeerSends \/ PeerCuts \/ Close
  PROVE  IInv'
<1> USE PiecesType
<1>s. UNCHANGED sendVars /\ (UNCHANGED deadlineVars \/ Disarm \/ Due)
  BY DEF Due, PeerSends, PeerCuts, Close
<1>k. rcv' = rcv /\ pos' = pos
  BY DEF Due, PeerSends, PeerCuts, Close, rcvVars
<1>t. /\ rcv \in {"start", "read", "gone"} /\ pos \in 0 .. Pieces - 1
      /\ lost \in BOOLEAN /\ in \in Seq(1 .. Pieces) /\ next \in 1 .. Pieces
      /\ closed \in {"no", "here", "peer"}
  BY DEF IInv, TypeOK
<1>r. /\ lost' \in BOOLEAN /\ in' \in Seq(1 .. Pieces)
      /\ next' \in 1 .. Pieces /\ closed' \in {"no", "here", "peer"}
      /\ KeepsItsPlace' /\ InStep'
  <2>1. CASE Due
    BY <2>1, <1>t DEF Due, rcvVars, peerVars, IInv, KeepsItsPlace, InStep, After
  <2>2. CASE PeerCuts
    BY <2>2, <1>t DEF PeerCuts, KeepsItsPlace, InStep
  <2>3. CASE Close
    BY <2>3, <1>t DEF Close, rcvVars, KeepsItsPlace, InStep
  <2>4. CASE PeerSends
    <3>1. /\ in' = Append(in, next) /\ next' = After(next)
          /\ lost' = lost /\ closed' = closed
      BY <2>4 DEF PeerSends, After
    <3>2. /\ in' \in Seq(1 .. Pieces) /\ Len(in') = Len(in) + 1
          /\ \A i \in 1 .. Len(in) : in'[i] = in[i]
          /\ in'[Len(in) + 1] = next /\ Len(in) \in Nat
          /\ in' # <<>>
          /\ in = <<>> <=> Len(in) = 0
      BY <3>1, <1>t, AppendProperties, LenProperties, EmptySeq
    <3>3. InStep'
      <4> SUFFICES ASSUME closed = "no", ~lost, rcv # "gone"
                   PROVE  /\ in'[1] = pos' + 1 /\ next' = After(in'[Len(in')])
                          /\ \A i \in 1 .. Len(in') - 1 :
                                in'[i + 1] = After(in'[i])
        BY <3>1, <3>2, <1>k DEF InStep, After
      <4>1. in'[1] = pos' + 1
        <5>1. CASE in = <<>> BY <5>1, <3>2, <1>k DEF IInv, InStep
        <5>2. CASE in # <<>>
          <6>1. 1 \in 1 .. Len(in) BY <5>2, <3>2
          <6> QED BY <6>1, <5>2, <3>2, <1>k DEF IInv, InStep
        <5> QED BY <5>1, <5>2
      <4>2. next' = After(in'[Len(in')]) BY <3>1, <3>2
      <4>3. ASSUME NEW i \in 1 .. Len(in)
            PROVE  in'[i + 1] = After(in'[i])
        <5>1. CASE i < Len(in)
          <6>1. i \in 1 .. Len(in) - 1 /\ i + 1 \in 1 .. Len(in)
            BY <5>1, <3>2
          <6>2. in[i + 1] = After(in[i]) BY <6>1 DEF IInv, InStep
          <6> QED BY <6>1, <6>2, <3>2
        <5>2. CASE i = Len(in)
          <6>1. next = After(in[Len(in)])
            BY <5>2, <3>2 DEF IInv, InStep
          <6> QED BY <6>1, <5>2, <3>2
        <5> QED BY <5>1, <5>2, <3>2
      <4>4. 1 .. Len(in') - 1 = 1 .. Len(in) BY <3>2
      <4> QED BY <4>1, <4>2, <4>3, <4>4
    <3>4. next' \in 1 .. Pieces BY <3>1, <1>t DEF After
    <3>5. KeepsItsPlace' BY <3>1, <1>k DEF IInv, KeepsItsPlace
    <3> QED BY <3>1, <3>2, <3>3, <3>4, <3>5, <1>t
  <2> QED BY <2>1, <2>2, <2>3, <2>4
<1>1. TypeOK' BY <1>s, <1>k, <1>t, <1>r, SendSideStays DEF IInv, TypeOK
<1>2. StartsAtZero' BY <1>k DEF IInv, StartsAtZero
<1> QED BY <1>s, <1>r, <1>1, <1>2, SendSideStays DEF IInv

LEMMA StutterIInv == IInv /\ UNCHANGED vars => IInv'
BY DEF vars, sendVars, deadlineVars, rcvVars, peerVars, IInv, TypeOK, LockHeld,
       ArmedIsBusy, StopsAtEnd, EndsWithWrote, FramesAreWhole, StartsAtZero,
       InStep, After, KeepsItsPlace

LEMMA NextIInv == IInv /\ [Next]_vars => IInv'
<1> SUFFICES ASSUME IInv, [Next]_vars PROVE IInv'
  OBVIOUS
<1>1. ASSUME NEW k \in Senders, SetDeadline(k) \/ Lock(k) \/ SendStep(k)
      PROVE  IInv'
  BY <1>1, SendQuietly, WriteWhole DEF SendStep
<1>2. CASE Receiver BY <1>2, ReceiverInStep
<1>3. CASE PeerReads BY <1>3, PeerReadsWhole
<1>4. CASE Due \/ PeerSends \/ PeerCuts \/ Close BY <1>4, PeerInStep
<1>5. CASE UNCHANGED vars BY <1>5, StutterIInv
<1> QED BY ONLY <1>1, <1>2, <1>3, <1>4, <1>5, [Next]_vars DEF Next

LEMMA AlwaysIInv == Spec => []IInv
BY InitIInv, NextIInv, PTL DEF Spec

-----------------------------------------------------------------------------

\* Send and Receive keep the connection's bookkeeping of its type.
THEOREM TypeCorrect == Spec => []TypeOK
<1>1. IInv => TypeOK BY DEF IInv
<1> QED BY AlwaysIInv, <1>1, PTL

\* net.go Send: however many goroutines send, frames of any length never mix
\* until a Send gives up inside one.
THEOREM WholeFrames == Spec => []FramesAreWhole
<1>1. IInv => FramesAreWhole BY DEF IInv
<1> QED BY AlwaysIInv, <1>1, PTL

\* net.go Send, Receive: with all calls ended no deadline is left behind.
THEOREM Unarmed == Spec => []IdleIsUnarmed
<1>1. IInv => IdleIsUnarmed BY DEF IInv, TypeOK, ArmedIsBusy, IdleIsUnarmed
<1> QED BY AlwaysIInv, <1>1, PTL

\* net.go Receive: deadlines of Sends that pass while it waits for a frame,
\* any number of them, do not make the receiving loop lose its place.
THEOREM KeepsPlace == Spec => []KeepsItsPlace
<1>1. IInv => KeepsItsPlace BY DEF IInv
<1> QED BY AlwaysIInv, <1>1, PTL

=============================================================================
