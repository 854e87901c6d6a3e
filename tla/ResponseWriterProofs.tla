------------------------ MODULE ResponseWriterProofs ------------------------
(***************************************************************************)
(* ResponseWriter for all sizes.  The two facts everything rests on are    *)
(* that hasSend, which decides when ReadFrom flushes, is always bufLen,    *)
(* which decides where it reads to, and that the handler finds at most     *)
(* ResponseSizeLimit bytes in the buffer whenever it is called.            *)
(***************************************************************************)
EXTENDS ResponseWriter, TLAPS

\* What bounds the buffer where the next frame is cut.
BufferInLimit ==
    /\ pc = "handler" => bufLen <= ResponseSizeLimit
    /\ pc = "read" => hasSend = bufLen /\ bufLen <= ResponseSizeLimit
    /\ bufLen <= ResponseSizeLimit + MaxWrite
    /\ frame <= ResponseSizeLimit + MaxWrite

IInv ==
    /\ TypeOK
    /\ BytesConserved
    /\ BufferInLimit

-----------------------------------------------------------------------------

\* growBuf makes room for n bytes, and more, behind the bufLen that are there.
LEMMA GrownFits ==
  ASSUME bufCap \in Nat, bufLen \in 0 .. bufCap, NEW n \in Nat
  PROVE  /\ Grown(n) \in Nat
         /\ bufLen + n <= Grown(n)
         /\ n > 0 => bufLen < Grown(n)
BY DEF Grown, Fits

\* A round of ReadFrom leaves at most the limit in the buffer.
LEMMA RoomFits ==
  ASSUME TypeOK, NEW n \in 0 .. Room
  PROVE  /\ n \in Nat
         /\ bufLen + n <= ResponseSizeLimit
         /\ bufLen + n <= Grown(ResponseReadSize)
         /\ Grown(ResponseReadSize) \in Nat
BY GrownFits, SizesType DEF TypeOK, Room, End

LEMMA InitIInv == Init => IInv
BY SizesType
   DEF Init, IInv, TypeOK, BytesConserved, BufferInLimit

\* Write: a frame is cut as soon as the buffer reaches the limit.
LEMMA WriteIInv ==
  ASSUME IInv, NEW n \in 0 .. MaxWrite, Write(n) PROVE IInv'
<1>1. n \in Nat /\ n <= MaxWrite /\ ResponseSizeLimit \in Nat \ {0}
      /\ MaxWrite \in Nat /\ MaxBody \in Nat
  BY SizesType
<1>2. CASE TooLarge(n)
  BY <1>1, <1>2 DEF Write, Returns, IInv, TypeOK, BytesConserved,
     BufferInLimit
<1>3. CASE ~TooLarge(n)
  <2>1. Grown(n) \in Nat /\ bufLen + n <= Grown(n)
    BY <1>1, GrownFits DEF IInv, TypeOK
  <2> QED
    BY <1>1, <1>3, <2>1 DEF Write, Buffers, FlushSucceeds, FlushFails,
       Returns, IInv, TypeOK, BytesConserved, BufferInLimit
<1> QED  BY <1>2, <1>3

\* ReadFrom: the same, in rounds that stop at the limit exactly.
LEMMA ReadIInv ==
  ASSUME IInv, ReadMore \/ ReadEOF \/ ReadError PROVE IInv'
<1> USE SizesType DEF IInv, TypeOK, BytesConserved, BufferInLimit
<1>1. CASE ReadMore
  <2>1. PICK n \in 0 .. Room : Reads(n) /\ GoesOn(n)
    BY <1>1 DEF ReadMore
  <2> QED
    BY <2>1, RoomFits DEF Reads, GoesOn, FlushSucceeds, FlushFails, Returns
<1>2. CASE ReadEOF \/ ReadError
  <2>1. PICK n \in 0 .. Room :
           /\ Reads(n)
           /\ bufLen' = bufLen + n
           /\ hasSend' = hasSend + n
           /\ UNCHANGED <<sent, frame>>
           /\ pc' \in {"handler", "return"}
           /\ error' \in {"read", error}
    BY <1>2 DEF ReadEOF, ReadError, Returns
  <2> QED  BY <2>1, RoomFits DEF Reads
<1> QED  BY <1>1, <1>2

LEMMA NextIInv == IInv /\ [Next]_vars => IInv'
<1> SUFFICES ASSUME IInv, [Next]_vars PROVE IInv'
  OBVIOUS
<1>1. ASSUME NEW n \in 0 .. MaxWrite, Write(n) PROVE IInv'
  BY <1>1, WriteIInv
<1>2. CASE ReadMore \/ ReadEOF \/ ReadError
  BY <1>2, ReadIInv
<1>3. CASE LastFlush
  BY <1>3, SizesType DEF LastFlush, FlushSucceeds, FlushFails, IInv, TypeOK,
     BytesConserved, BufferInLimit
<1>4. CASE ReadFrom \/ ReadTooLarge \/ Return \/ UNCHANGED vars
  BY <1>4 DEF ReadFrom, ReadTooLarge, Return, Returns, vars, IInv, TypeOK,
     BytesConserved, BufferInLimit
<1> QED  BY <1>1, <1>2, <1>3, <1>4 DEF Next

\* The counters and the buffer of the writer agree in every reachable state.
THEOREM Invariance == Spec => []IInv
BY InitIInv, NextIInv, PTL DEF Spec

\* bufLen, which counts what the buffer holds, never exceeds its capacity, so
\* that no copy of growBuf or read of ReadFrom goes beyond it.
THEOREM TypeCorrect == Spec => []TypeOK
BY Invariance, PTL DEF IInv

\* The writer neither loses nor duplicates a byte, for all sizes.
THEOREM BodyConserved == Spec => []BytesConserved
BY Invariance, PTL DEF IInv

\* No slice of the buffer has a negative length.
THEOREM SlicesInBounds == Spec => []RoomIsThere
<1>1. IInv => RoomIsThere
  BY GrownFits, SizesType DEF IInv, TypeOK, BufferInLimit, RoomIsThere, End
<1> QED  BY <1>1, Invariance, PTL

\* With sizes ordered as in the code, ReadFrom is never refused a buffer.
THEOREM ReadsAlwaysFit ==
  ASSUME ResponseSizeLimit + 2 * ResponseReadSize <= MaxReceiveSize
  PROVE  Spec => []ReadsFit
<1>1. IInv => ReadsFit
  BY SizesType DEF IInv, TypeOK, BufferInLimit, ReadsFit, TooLarge, Fits
<1> QED  BY <1>1, Invariance, PTL

\* No frame makes the server's Receive panic, whatever the buffers of the pool
\* can hold, as long as the limit leaves room for one Write and the header.
THEOREM FramesAlwaysFit == ASSUME SizesFit PROVE Spec => []FramesFit
<1>1. IInv => FramesFit
  BY SizesType, SizesFit DEF IInv, TypeOK, BufferInLimit, FramesFit, SizesFit
<1> QED  BY <1>1, Invariance, PTL

\* ReadFrom's loop makes progress in every round.
THEOREM ReadFromNeverSpins == Spec => NeverSpins
<1>1. IInv => bufLen < Grown(ResponseReadSize)
  BY GrownFits, SizesType DEF IInv, TypeOK
<1>2. IInv /\ (bufLen < Grown(ResponseReadSize))' /\ [Next]_vars
      => (pc = "read" /\ pc' = "read" /\ sent' = sent
            => HasRoom' \/ UNCHANGED vars)
  <2> SUFFICES ASSUME IInv, (bufLen < Grown(ResponseReadSize))', Next,
                      pc = "read", pc' = "read", sent' = sent
               PROVE  HasRoom'
    OBVIOUS
  <2>1. ReadMore
    BY DEF Next, Write, ReadFrom, ReadTooLarge, ReadEOF, ReadError, Return,
       Returns, LastFlush
  <2>2. bufLen' < ResponseSizeLimit
    <3>1. PICK n \in 0 .. Room : Reads(n) /\ GoesOn(n)
      BY <2>1 DEF ReadMore
    <3> QED
      BY <3>1, RoomFits, SizesType DEF GoesOn, Reads, FlushSucceeds,
         FlushFails, Returns, IInv, TypeOK, BufferInLimit
  <2> QED  BY <2>2 DEF HasRoom, End
<1> QED  BY <1>1, <1>2, Invariance, PTL DEF Spec, NeverSpins

=============================================================================
