--------------------------- MODULE ResponseWriter ---------------------------
(***************************************************************************)
(* The agent's HttpResponseWriter, which cuts the body a handler produces  *)
(* into response frames: Write and ReadFrom fill a buffer that growBuf     *)
(* enlarges, Flush sends it, and httpRequest flushes the rest when the     *)
(* handler has returned.  Bytes are counted, not stored.                   *)
(*                                                                         *)
(* The handler is RequestHandler or any other http.Handler: it may mix     *)
(* Write and ReadFrom as it likes, and returns at the first error they     *)
(* report.                                                                 *)
(***************************************************************************)
EXTENDS Naturals

CONSTANTS
    ResponseSizeLimit, ResponseReadSize, \* portal.go:20
    MaxReceiveSize,                      \* net.go:22
    PoolCaps,  \* capacities of the buffers in bytesPool
    MaxWrite,  \* bound: bytes of one Write
    MaxBody,   \* bound: bytes of a response
    MaxFields  \* bound: bytes a frame carries beside its body

ASSUME SizesType ==
    /\ ResponseSizeLimit \in Nat \ {0}
    /\ ResponseReadSize \in Nat \ {0}
    /\ MaxReceiveSize \in Nat
    /\ PoolCaps \subseteq Nat
    /\ MaxWrite \in Nat
    /\ MaxBody \in Nat
    /\ MaxFields \in Nat

VARIABLES
    pc,       \* "handler", "read" (in ReadFrom), "return" or "done"
    bufCap,   \* cap(w.buf)
    bufLen,   \* w.bufLen
    hasSend,  \* the local of ReadFrom: bytes since its last flush
    produced, \* bytes accepted from the handler or the upstream body
    sent,     \* bytes in frames whose send succeeded
    frame,    \* body of the last frame handed to sendFunc
    error     \* what made the handler return: "none", "send", "tooLarge", "read"

vars == <<pc, bufCap, bufLen, hasSend, produced, sent, frame, error>>

TypeOK ==
    /\ pc \in {"handler", "read", "return", "done"}
    /\ bufCap \in Nat
    /\ bufLen \in 0 .. bufCap
    /\ hasSend \in Nat
    /\ produced \in 0 .. MaxBody
    /\ sent \in Nat
    /\ frame \in Nat
    /\ error \in {"none", "send", "tooLarge", "read"}

\* newHttpResponseWriter with a buffer of the pool.
Init ==
    /\ pc = "handler"
    /\ bufCap \in PoolCaps
    /\ bufLen = 0
    /\ hasSend = 0
    /\ produced = 0
    /\ sent = 0
    /\ frame = 0
    /\ error = "none"

-----------------------------------------------------------------------------
(* growBuf *)

Fits(n) == bufLen + n < bufCap

TooLarge(n) == ~Fits(n) /\ bufCap + n > MaxReceiveSize

\* Mutant of Grown: the new buffer is sized by what was asked for alone.
GrownByRequest(n) == IF Fits(n) THEN bufCap ELSE n

Grown(n) == IF Fits(n) THEN bufCap ELSE 2 * bufCap + n

-----------------------------------------------------------------------------
(* Flush of a buffer that holds n bytes *)

FlushSucceeds(n) ==
    /\ frame' = n
    /\ sent' = sent + n
    /\ bufLen' = 0

\* Mutant of FlushFails: the buffer is emptied before the error is looked at.
FlushDiscards(n) ==
    /\ frame' = n
    /\ bufLen' = 0
    /\ UNCHANGED sent

FlushFails(n) ==
    /\ frame' = n
    /\ bufLen' = n
    /\ UNCHANGED sent

-----------------------------------------------------------------------------
(* What the handler does *)

\* The handler returns, and httpRequest goes on to the last flush.
Returns(why) == pc' = "return" /\ error' = why

\* Mutant of Buffers: the limit is left to the last flush.
BuffersAll(n) ==
    /\ bufLen' = bufLen + n
    /\ UNCHANGED <<pc, sent, frame, error>>

\* Write(data) that fits in the buffer, with the flush at the limit.
Buffers(n) ==
    IF bufLen + n < ResponseSizeLimit
    THEN bufLen' = bufLen + n /\ UNCHANGED <<pc, sent, frame, error>>
    ELSE \/ FlushSucceeds(bufLen + n) /\ UNCHANGED <<pc, error>>
         \/ FlushFails(bufLen + n) /\ Returns("send")

Write(n) ==
    /\ pc = "handler"
    /\ produced + n <= MaxBody
    /\ IF TooLarge(n)
       THEN /\ Returns("tooLarge")
            /\ UNCHANGED <<bufCap, bufLen, produced, sent, frame>>
       ELSE /\ bufCap' = Grown(n)
            /\ produced' = produced + n
            /\ Buffers(n)
    /\ UNCHANGED hasSend

ReadFrom ==
    /\ pc = "handler"
    /\ pc' = "read"
    /\ hasSend' = bufLen
    /\ UNCHANGED <<bufCap, bufLen, produced, sent, frame, error>>

\* The space of w.buf[w.bufLen:end] after growBuf.
End(c) == IF c > ResponseSizeLimit THEN ResponseSizeLimit ELSE c

Room == End(Grown(ResponseReadSize)) - bufLen

ReadTooLarge ==
    /\ pc = "read"
    /\ TooLarge(ResponseReadSize)
    /\ Returns("tooLarge")
    /\ UNCHANGED <<bufCap, bufLen, hasSend, produced, sent, frame>>

\* n bytes arrived, and the loop grows the buffer for more; io.EOF goes back
\* to the handler, another error makes it return.
Reads(n) ==
    /\ pc = "read"
    /\ ~TooLarge(ResponseReadSize)
    /\ produced + n <= MaxBody
    /\ bufCap' = Grown(ResponseReadSize)
    /\ produced' = produced + n

\* The end of the loop's body.  Mutant: the limit itself is not flushed.
GoesOnPastLimit(n) ==
    IF hasSend + n <= ResponseSizeLimit
    THEN /\ bufLen' = bufLen + n
         /\ hasSend' = hasSend + n
         /\ UNCHANGED <<pc, sent, frame, error>>
    ELSE \/ /\ FlushSucceeds(bufLen + n)
            /\ hasSend' = 0
            /\ UNCHANGED <<pc, error>>
         \/ /\ FlushFails(bufLen + n)
            /\ hasSend' = hasSend + n
            /\ Returns("send")

GoesOn(n) ==
    IF hasSend + n < ResponseSizeLimit
    THEN /\ bufLen' = bufLen + n
         /\ hasSend' = hasSend + n
         /\ UNCHANGED <<pc, sent, frame, error>>
    ELSE \/ /\ FlushSucceeds(bufLen + n)
            /\ hasSend' = 0
            /\ UNCHANGED <<pc, error>>
         \/ /\ FlushFails(bufLen + n)
            /\ hasSend' = hasSend + n
            /\ Returns("send")

ReadMore ==
    \E n \in 0 .. Room : Reads(n) /\ GoesOn(n)

ReadEOF ==
    \E n \in 0 .. Room :
        /\ Reads(n)
        /\ bufLen' = bufLen + n
        /\ hasSend' = hasSend + n
        /\ pc' = "handler"
        /\ UNCHANGED <<sent, frame, error>>

ReadError ==
    \E n \in 0 .. Room :
        /\ Reads(n)
        /\ bufLen' = bufLen + n
        /\ hasSend' = hasSend + n
        /\ Returns("read")
        /\ UNCHANGED <<sent, frame>>

Return ==
    /\ pc = "handler"
    /\ Returns("none")
    /\ UNCHANGED <<bufCap, bufLen, hasSend, produced, sent, frame>>

\* Flush(true) by httpRequest, whatever the handler met with.
LastFlush ==
    /\ pc = "return"
    /\ pc' = "done"
    /\ \/ FlushSucceeds(bufLen) /\ UNCHANGED error
       \/ FlushFails(bufLen) /\ error' = "send"
    /\ UNCHANGED <<bufCap, hasSend, produced>>

Next ==
    \/ \E n \in 0 .. MaxWrite : Write(n)
    \/ ReadFrom
    \/ ReadTooLarge
    \/ ReadMore
    \/ ReadEOF
    \/ ReadError
    \/ Return
    \/ LastFlush

Spec == Init /\ [][Next]_vars

-----------------------------------------------------------------------------
(* Properties *)

\* No byte is lost, sent twice or invented between the handler and the frames,
\* even when a flush fails and the handler's last flush sends the buffer again.
BytesConserved == sent + bufLen = produced

\* A slice of the buffer never has a negative length, in whichever order Write,
\* ReadFrom and failing flushes leave bufLen.
RoomIsThere ==
    pc = "read" => bufLen <= End(Grown(ResponseReadSize))

\* An upstream body is never too large for the buffer: ReadFrom flushes long
\* before growBuf would refuse.
ReadsFit == pc = "read" => ~TooLarge(ResponseReadSize)

\* A frame, header fields and body together, never exceeds MaxReceiveSize, on
\* which the server's Receive would panic.  It takes flushes that come in time:
\* growBuf compares with MaxReceiveSize only what it has to allocate, and lets
\* a large buffer of the pool fill up.
FramesFit == frame + MaxFields <= MaxReceiveSize

\* What the sizes must be for that: 4 MB and the longest Write and the longest
\* header are less than 50 MB.
SizesFit == ResponseSizeLimit + MaxWrite + MaxFields <= MaxReceiveSize

\* A round of ReadFrom's loop that flushes nothing leaves some space for the
\* next one, though hasSend decides on the flush and bufLen on the space: the
\* loop cannot spin on a full buffer, reading nothing for ever.
HasRoom == bufLen < End(Grown(ResponseReadSize))

NeverSpins ==
    [][pc = "read" /\ pc' = "read" /\ sent' = sent => HasRoom']_vars

=============================================================================
