--------------------------- MODULE ResponseStream ---------------------------
(***************************************************************************)
(* What the portal server promises the browsers, whatever happens behind   *)
(* it: the answer to a request is a header followed by pieces of response  *)
(* bodies, and then an end.  The header goes out with the first piece of a *)
(* response, the pieces of a response come in the order the upstream       *)
(* produced them, each at most once, nothing is written after the end, and *)
(* an answer that ends "ok" has a header.  The pieces are of the response  *)
(* to that very request, unless the agent has reconnected: then those of a *)
(* request that used an older connection may be among them.  Later pieces  *)
(* may be missing: the code promises order, not completeness.              *)
(*   All this holds of a connection as long as no write to it is cut off   *)
(* in the middle.  A spoilt connection may deliver a piece that has only   *)
(* the beginning of what it should be, and after it bytes of whatever      *)
(* followed on that connection; such a piece, and it only, may come again. *)
(***************************************************************************)
EXTENDS Naturals, Sequences

CONSTANTS
    Reqs,        \* browser requests
    MaxSessions, \* connections the agent makes
    MaxFrames    \* pieces of a response

VARIABLES
    client,    \* the agent's connection that serves the request, 0 for none
    head,      \* the header of the answer is out
    body,      \* the pieces written after it
    status,    \* how the answer ended, or "none"
    spoilt     \* the connections on which a frame was cut off

vars == <<client, head, body, status, spoilt>>

Ends == {"ok", "notFound", "sendError", "badGateway", "timeout",
         "writeError", "aborted"}

Parts == [of : Reqs, idx : 1 .. MaxFrames, whole : BOOLEAN]

\* Piece p may follow what is written already.
Follows(p, s) ==
    /\ s = <<>> => p.idx = 1
    /\ \A i \in DOMAIN s : s[i].of = p.of =>
          s[i].idx < p.idx \/ (s[i].idx = p.idx /\ ~s[i].whole)

\* The browser of r may see pieces of the response to o.
Sees(r, o) == o = r \/ (client[o] # 0 /\ client[o] < client[r])

Init ==
    /\ client = [r \in Reqs |-> 0]
    /\ head = [r \in Reqs |-> FALSE]
    /\ body = [r \in Reqs |-> <<>>]
    /\ status = [r \in Reqs |-> "none"]
    /\ spoilt = {}

\* A request gets one connection, for good, and never one that is older than
\* another request's.
Assign(r, s) ==
    /\ \A o \in Reqs : client[o] <= s
    /\ client' = [client EXCEPT ![r] = s]
    /\ UNCHANGED <<head, body, status, spoilt>>

\* A frame is cut off on a connection; no request has a newer one.
Spoil(s) ==
    /\ \A o \in Reqs : client[o] <= s
    /\ spoilt' = spoilt \cup {s}
    /\ UNCHANGED <<client, head, body, status>>

\* Write the first piece, with the header, or a later one; the piece that
\* completes the answer also ends it.
Write(r, p) ==
    /\ body' = [body EXCEPT ![r] = Append(@, p)]
    /\ head' = [head EXCEPT ![r] = TRUE]
    /\ \E end \in {"none", "ok"} : status' = [status EXCEPT ![r] = end]
    /\ Sees(r, p.of)
    /\ Follows(p, body[r])
    /\ p.whole \/ client[r] \in spoilt
    /\ UNCHANGED <<client, spoilt>>

\* End without a further piece; a write that fails may have got the header out.
End(r, end) ==
    /\ status' = [status EXCEPT ![r] = end]
    /\ \/ UNCHANGED head
       \/ end = "writeError" /\ head' = [head EXCEPT ![r] = TRUE]
    /\ UNCHANGED <<client, body, spoilt>>

\* A request whose answer has not ended.
Step(r) ==
    /\ status[r] = "none"
    /\ \/ client[r] = 0 /\ \E s \in 1 .. MaxSessions : Assign(r, s)
       \/ client[r] # 0 /\ \E p \in Parts : Write(r, p)
       \/ \E end \in Ends \ {"ok"} : End(r, end)

Next ==
    \/ \E s \in 1 .. MaxSessions : Spoil(s)
    \/ \E r \in Reqs : Step(r)

Spec == Init /\ [][Next]_vars

=============================================================================
