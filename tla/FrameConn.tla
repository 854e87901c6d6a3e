----------------------------- MODULE FrameConn ------------------------------
(***************************************************************************)
(* One end of a connection: any number of core.Send calls, serialised by a *)
(* lock, and one goroutine that calls core.Receive in a loop.  They share  *)
(* the connection's single deadline: every Send sets it, every call clears *)
(* it when it ends, and every Receive when it begins, for whichever call   *)
(* is under way.                                                           *)
(*                                                                         *)
(* A frame is Pieces pieces, of which the first holds the begin flag.  No  *)
(* caller of Receive gives it a deadline.  Close stands for everything     *)
(* else that closes the connection (checkOnline, Stop, heartbeatLoop).     *)
(***************************************************************************)
EXTENDS Naturals, Sequences

CONSTANTS
    Senders, \* goroutines that send
    None,    \* no sender
    Pieces,  \* pieces of a frame
    Window,  \* bound: pieces on their way to the peer
    Ahead    \* bound: pieces on their way from the peer

ASSUME NoneFresh  == None \notin Senders
ASSUME PiecesType == Pieces \in Nat /\ Pieces > 1
ASSUME WindowType == Window \in Nat \ {0} /\ Ahead \in Nat \ {0}

VARIABLES
    pc,       \* per sender: where its Send is
    deadline, \* the connection's deadline, by the sender whose it is
    expired,  \* it has passed: reads and writes fail, also with data or room
    lock,     \* the holder of the send lock
    wrote,    \* how many pieces the lock's holder has written
    out,      \* pieces the peer has not read
    cut,      \* a Send has left part of a frame
    rcv,      \* where Receive is
    pos,      \* pieces of the current frame it has read
    lost,     \* a frame has been left half way, by the peer or by Receive
    in,       \* pieces that have arrived
    next,     \* the piece the peer will send next
    closed    \* "no", or who closed the connection

sendVars == <<pc, lock, wrote, out, cut>>
deadlineVars == <<deadline, expired>>
rcvVars == <<rcv, pos, lost, in>>
peerVars == <<next, closed>>
vars == <<sendVars, deadlineVars, rcvVars, peerVars>>

OutPieces == [of : Senders, piece : 1 .. Pieces]

TypeOK ==
    /\ pc \in [Senders -> {"idle", "marshal", "write", "unlock", "clear"}]
    /\ deadline \in Senders \cup {None}
    /\ expired \in BOOLEAN
    /\ lock \in Senders \cup {None}
    /\ wrote \in 0 .. Pieces
    /\ out \in Seq(OutPieces)
    /\ cut \in BOOLEAN
    /\ rcv \in {"start", "read", "gone"}
    /\ pos \in 0 .. Pieces - 1
    /\ lost \in BOOLEAN
    /\ in \in Seq(1 .. Pieces)
    /\ next \in 1 .. Pieces
    /\ closed \in {"no", "here", "peer"}

Init ==
    /\ pc = [k \in Senders |-> "idle"]
    /\ expired = FALSE
    /\ deadline = None
    /\ lock = None
    /\ wrote = 0
    /\ out = <<>>
    /\ cut = FALSE
    /\ rcv = "start"
    /\ pos = 0
    /\ lost = FALSE
    /\ in = <<>>
    /\ next = 1
    /\ closed = "no"

Arm(k) == deadline' = k /\ expired' = FALSE
Disarm == Arm(None)

-----------------------------------------------------------------------------
(* core.Send *)

Goto(k, l) == pc' = [pc EXCEPT ![k] = l]

\* conn.SetDeadline, before the message is made and the lock taken.
SetDeadline(k) ==
    /\ pc[k] = "idle"
    /\ Goto(k, "marshal")
    /\ Arm(k)
    /\ UNCHANGED <<lock, wrote, out, cut, rcvVars, peerVars>>

\* Mutant of MarshalFails: the deadline is cleared only after a write.
MarshalFailsArmed(k) ==
    /\ pc[k] = "marshal"
    /\ Goto(k, "idle")
    /\ UNCHANGED <<lock, wrote, out, cut, deadlineVars, rcvVars, peerVars>>

\* The reply of a refused login is a nil message.
MarshalFails(k) ==
    /\ pc[k] = "marshal"
    /\ Goto(k, "idle")
    /\ Disarm
    /\ UNCHANGED <<lock, wrote, out, cut, rcvVars, peerVars>>

\* Mutant of Lock: everybody has a lock of his own.
LockOwn(k) ==
    /\ pc[k] = "marshal"
    /\ Goto(k, "write")
    /\ lock' = k
    /\ UNCHANGED <<wrote, out, cut, deadlineVars, rcvVars, peerVars>>

Lock(k) ==
    /\ pc[k] = "marshal"
    /\ lock = None
    /\ Goto(k, "write")
    /\ lock' = k
    /\ UNCHANGED <<wrote, out, cut, deadlineVars, rcvVars, peerVars>>

\* Mutant of Write: one piece too many.
WriteOneMore(k) ==
    /\ pc[k] = "write"
    /\ closed # "here" /\ ~expired /\ Len(out) < Window
    /\ wrote' = wrote + 1
    /\ out' = Append(out, [of |-> k, piece |-> wrote + 1])
    /\ IF wrote = Pieces THEN Goto(k, "unlock") ELSE UNCHANGED pc
    /\ UNCHANGED <<lock, cut, deadlineVars, rcvVars, peerVars>>

\* conn.Write of the lengths and then of the data: it goes on while there is
\* room.  To a peer that has closed it may be accepted.
Write(k) ==
    /\ pc[k] = "write"
    /\ closed # "here"
    /\ ~expired
    /\ Len(out) < Window
    /\ wrote' = wrote + 1
    /\ out' = Append(out, [of |-> k, piece |-> wrote + 1])
    /\ IF wrote + 1 = Pieces THEN Goto(k, "unlock") ELSE UNCHANGED pc
    /\ UNCHANGED <<lock, cut, deadlineVars, rcvVars, peerVars>>

\* Mutants of WriteFails: a timeout is taken for temporary and the write tried
\* again; an error returns past the unlock.
WriteFailsClosed(k) ==
    /\ pc[k] = "write"
    /\ closed # "no"
    /\ Goto(k, "unlock")
    /\ cut' = (cut \/ wrote > 0)
    /\ UNCHANGED <<lock, wrote, out, deadlineVars, rcvVars, peerVars>>

WriteFailsLocked(k) ==
    /\ pc[k] = "write"
    /\ closed # "no" \/ expired
    /\ Goto(k, "clear")
    /\ cut' = (cut \/ wrote > 0)
    /\ UNCHANGED <<lock, wrote, out, deadlineVars, rcvVars, peerVars>>

WriteFails(k) ==
    /\ pc[k] = "write"
    /\ closed # "no" \/ expired
    /\ Goto(k, "unlock")
    /\ cut' = (cut \/ wrote > 0)
    /\ UNCHANGED <<lock, wrote, out, deadlineVars, rcvVars, peerVars>>

\* The deferred Unlock comes before the deferred SetDeadline.
Unlock(k) ==
    /\ pc[k] = "unlock"
    /\ Goto(k, "clear")
    /\ lock' = None
    /\ wrote' = 0
    /\ UNCHANGED <<out, cut, deadlineVars, rcvVars, peerVars>>

ClearDeadline(k) ==
    /\ pc[k] = "clear"
    /\ Goto(k, "idle")
    /\ Disarm
    /\ UNCHANGED <<lock, wrote, out, cut, rcvVars, peerVars>>

\* The time of the deadline.
Due ==
    /\ deadline # None
    /\ ~expired
    /\ expired' = TRUE
    /\ UNCHANGED <<sendVars, deadline, rcvVars, peerVars>>

-----------------------------------------------------------------------------
(* core.Receive, in the loops of keepConnection and LocalPortal.receive *)

ReceiveStart ==
    /\ rcv = "start"
    /\ rcv' = "read"
    /\ pos' = 0
    /\ Disarm
    /\ UNCHANGED <<sendVars, lost, in, peerVars>>

\* What is not a begin flag where one has to be makes the loop return; inside
\* a frame anything is read, and fails to unmarshal later.
Read ==
    /\ rcv = "read"
    /\ closed # "here"
    /\ ~expired
    /\ in # <<>>
    /\ in' = Tail(in)
    /\ IF pos = 0 /\ Head(in) # 1 THEN rcv' = "gone" /\ UNCHANGED pos
       ELSE IF pos + 1 = Pieces THEN rcv' = "start" /\ pos' = 0
       ELSE pos' = pos + 1 /\ UNCHANGED rcv
    /\ UNCHANGED <<sendVars, deadlineVars, lost, peerVars>>

\* Mutant of ReadTimesOut: the loop ends at every error.
ReadTimesOutGone ==
    /\ rcv = "read"
    /\ expired
    /\ rcv' = "gone"
    /\ pos' = 0
    /\ lost' = (lost \/ pos > 0)
    /\ UNCHANGED <<sendVars, deadlineVars, in, peerVars>>

\* The deadline is that of a Send.  The error is temporary: the loop calls
\* Receive again, which begins a new frame.
ReadTimesOut ==
    /\ rcv = "read"
    /\ expired
    /\ rcv' = "start"
    /\ pos' = 0
    /\ lost' = (lost \/ pos > 0)
    /\ UNCHANGED <<sendVars, deadlineVars, in, peerVars>>

\* io.EOF and a closed connection end the loop, io.ErrUnexpectedEOF does not.
ReadFails ==
    /\ rcv = "read"
    /\ \/ closed = "here" /\ rcv' = "gone"
       \/ closed = "peer" /\ in = <<>> /\ rcv' = "gone"
       \/ closed = "peer" /\ in = <<>> /\ pos > 0 /\ rcv' = "start"
    /\ pos' = 0
    /\ UNCHANGED <<sendVars, deadlineVars, lost, in, peerVars>>

-----------------------------------------------------------------------------
(* The peer, and who closes the connection *)

PeerReads ==
    /\ out # <<>>
    /\ closed # "peer"
    /\ out' = Tail(out)
    /\ UNCHANGED <<pc, lock, wrote, cut, deadlineVars, rcvVars, peerVars>>

PeerSends ==
    /\ closed = "no"
    /\ Len(in) < Ahead
    /\ in' = Append(in, next)
    /\ next' = IF next = Pieces THEN 1 ELSE next + 1
    /\ UNCHANGED <<sendVars, deadlineVars, rcv, pos, lost, closed>>

\* The peer's own Send has failed inside a frame.
PeerCuts ==
    /\ next > 1
    /\ next' = 1
    /\ lost' = TRUE
    /\ UNCHANGED <<sendVars, deadlineVars, rcv, pos, in, closed>>

Close ==
    /\ closed = "no"
    /\ closed' \in {"here", "peer"}
    /\ UNCHANGED <<sendVars, deadlineVars, rcvVars, next>>

-----------------------------------------------------------------------------

SendStep(k) ==
    \/ MarshalFails(k)
    \/ Write(k)
    \/ WriteFails(k)
    \/ Unlock(k)
    \/ ClearDeadline(k)

Receiver == ReceiveStart \/ Read \/ ReadTimesOut \/ ReadFails

Next ==
    \/ \E k \in Senders : SetDeadline(k) \/ Lock(k) \/ SendStep(k)
    \/ Due
    \/ Receiver
    \/ PeerReads
    \/ PeerSends
    \/ PeerCuts
    \/ Close

Spec == Init /\ [][Next]_vars

\* Goroutines run, a mutex is not withheld from one of them for ever, and time
\* passes.  The peer owes nothing.
Fairness ==
    /\ WF_vars(Receiver)
    /\ WF_vars(Due)
    /\ \A k \in Senders :
          /\ WF_vars(Write(k) \/ WriteFails(k) \/ Unlock(k) \/ ClearDeadline(k))
          /\ SF_vars(Lock(k))

FairSpec == Spec /\ Fairness

-----------------------------------------------------------------------------
(* Properties *)

\* Frames do not mix: until a Send gives up half way, every frame is followed
\* by a frame's beginning, whoever sends, so that Exchange and AgentSession may
\* take a Send for one step.
FramesAreWhole ==
    ~cut => \A i \in 1 .. Len(out) - 1 :
        \/ /\ out[i].piece < Pieces
           /\ out[i + 1] = [of |-> out[i].of, piece |-> out[i].piece + 1]
        \/ /\ out[i].piece = Pieces
           /\ out[i + 1].piece = 1

\* No call leaves a deadline behind that a later, unrelated read would meet,
\* in whatever order the calls set and clear it.
IdleIsUnarmed == (\A k \in Senders : pc[k] = "idle") => deadline = None

\* The deadline of a Send interrupts a Receive that merely waits, and may do so
\* any number of times: the place in the stream is lost only by one that passes
\* inside a frame.
KeepsItsPlace == rcv = "gone" => closed # "no" \/ lost

\* A write to a peer that does not read ends at its deadline, unless another
\* call has set or cleared the deadline meanwhile.  (Then it may wait for ever:
\* until the connection is closed.)
WriteEndsByDeadline ==
    \A k \in Senders :
        pc[k] = "write" ~> pc[k] # "write" \/ deadline # k

\* Send calls wait for nobody but the peer: as long as it reads, each of them
\* gets the lock and ends, also after others have failed.
SendEnds ==
    []<>(out = <<>>) =>
        \A k \in Senders : pc[k] = "marshal" ~> pc[k] = "idle"

=============================================================================
