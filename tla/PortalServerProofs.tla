------------------------- MODULE PortalServerProofs --------------------------
(***************************************************************************)
(* PortalServer for any hosts, any routing between them, any depth limit   *)
(* and any headers of the browser, also negative depths.  Each hop knows   *)
(* its place in the chain: its depth is that of the first hop plus the     *)
(* hops before it, and only a hop that was not too deep has a successor.   *)
(***************************************************************************)
EXTENDS PortalServer, SequenceTheorems, WellFoundedInduction, TLAPS

ProcType ==
    /\ main \in {"start", "catch", "http", "serving", "stop", "close",
                 "clear", "exited", "panicked", "killed"}
    /\ stopped \in BOOLEAN
    /\ listener \in {"none", "open", "closed"}
    /\ acceptor \in {"none", "accept", "sleep", "failed", "nil", "end"}
    /\ catcher \in {"none", "notify", "wait", "stop", "end"}
    /\ http \in {"none", "serving", "failed", "closed"}
    /\ fault \in BOOLEAN

\* Stop cancels before it closes, so accept can tell a stop from a failure.
ClosedIsStopped ==
    /\ main \in {"close", "clear"} => stopped
    /\ listener = "closed" => stopped
    /\ acceptor = "failed" => fault \/ stopped
    /\ acceptor = "nil" => fault

ProcInv == ProcType /\ ClosedIsStopped /\ OnlyFaultsPanic

ChainType ==
    /\ via \in [Hosts -> Hosts \cup {Web, Nobody, Unknown}]
    /\ hops \in Seq(Hop)

\* Only the last hop is not sent on, and only hops that passed the check and
\* whose agent is there are.  A handler waits for an agent that it has asked.
OnlyAcceptedGoOn ==
    \A i \in 1 .. Len(hops) :
        /\ i < Len(hops) => hops[i].agt \in {"sent", "done", "lost"}
        /\ hops[i].agt = "sent" => i < Len(hops)
        /\ hops[i].agt # "none" => ~TooDeep(hops[i])
        /\ hops[i].agt # "none" => via[hops[i].host] # Unknown
        /\ hops[i].srv = "read" => hops[i].agt = "none"
        /\ hops[i].srv = "wait" => hops[i].agt # "none"

\* A hop's headers say where it is in the chain.
Counted ==
    /\ \A i \in 1 .. Len(hops) : hops[i].deep = hops[1].deep + i - 1
    /\ \A i \in 1 .. Len(hops) - 1 : hops[i + 1].from = hops[i].host

OkIsFinal ==
    \A i \in 1 .. Len(hops) :
        /\ hops[i].answer # "none" => hops[i].srv = "done"
        /\ hops[i].result # "none" => hops[i].agt \in {"done", "lost"}
        /\ hops[i].answer = "ok" => hops[i].result = "ok"

\* An agent has success to report if all behind it have reported it.
OkResult ==
    \A i \in 1 .. Len(hops) : hops[i].result = "ok" =>
        /\ \A j \in i + 1 .. Len(hops) : hops[j].answer = "ok"
        /\ via[hops[Len(hops)].host] = Web

ChainInv ==
    /\ ChainType
    /\ OnlyAcceptedGoOn
    /\ Counted
    /\ OkIsFinal
    /\ OkResult

-----------------------------------------------------------------------------
(* The process *)

LEMMA ProcInit == Init => ProcInv
BY DEF Init, ProcInv, ProcType, ClosedIsStopped, OnlyFaultsPanic

LEMMA ProcStep ==
  ASSUME ProcInv, [Next]_vars
  PROVE  ProcInv'
<1> USE DEF ProcInv, ProcType, ClosedIsStopped, OnlyFaultsPanic
<1>1. CASE Start BY <1>1 DEF Start
<1>2. CASE CatchExitSignal BY <1>2 DEF CatchExitSignal
<1>3. CASE ListenAndServe BY <1>3 DEF ListenAndServe
<1>4. CASE ListenAndServeReturns BY <1>4 DEF ListenAndServeReturns
<1>5. CASE Stop BY <1>5 DEF Stop
<1>6. CASE Signal BY <1>6 DEF Signal
<1>7. CASE Catch BY <1>7 DEF Catch
<1>8. CASE AcceptFails
  <2>1. CASE acceptor' = "sleep" /\ UNCHANGED fault BY <1>8, <2>1 DEF AcceptFails
  <2>2. CASE acceptor' = "failed" /\ fault' = TRUE BY <1>8, <2>2 DEF AcceptFails
  <2>3. CASE listener = "closed" /\ acceptor' = "failed" /\ UNCHANGED fault
    BY <1>8, <2>3 DEF AcceptFails
  <2> QED BY ONLY <1>8, <2>1, <2>2, <2>3 DEF AcceptFails
<1>9. CASE Sleep BY <1>9 DEF Sleep
<1>10. CASE AcceptAfterFailure BY <1>10 DEF AcceptAfterFailure
<1>11. CASE HandleNilConn BY <1>11 DEF HandleNilConn
<1>12. CASE UNCHANGED procVars BY <1>12 DEF procVars
<1>13. CASE Request BY <1>12, <1>13 DEF Request
<1>14. ASSUME NEW i \in DOMAIN hops,
              Serve(i) \/ AnswerLost(i) \/ Timeout(i) \/ Cancelled(i)
                 \/ Ask(i) \/ GiveUp(i)
       PROVE  ProcInv'
  <2>1. UNCHANGED procVars
    BY <1>14 DEF Serve, Refuse, DoRequest, Respond, AnswerLost, Timeout,
       Cancelled, Ask, Forward, AskOther, Relay, GiveUp
  <2> QED BY ONLY <1>12, <2>1
<1>15. CASE UNCHANGED vars BY <1>12, <1>15 DEF vars
<1>16. CASE Main BY <1>1, <1>2, <1>3, <1>4, <1>5, <1>16 DEF Main
<1> QED
  BY ONLY <1>4, <1>6, <1>7, <1>8, <1>9, <1>10, <1>11, <1>13, <1>14, <1>15,
     <1>16, [Next]_vars DEF Next

-----------------------------------------------------------------------------
(* The chain *)

LEMMA ChainInit == Init => ChainInv
<1> SUFFICES ASSUME Init PROVE ChainInv
  OBVIOUS
<1>1. hops = <<>> /\ Len(hops) = 0 BY EmptySeq DEF Init
<1>2. ChainType BY DEF Init, ChainType
<1> QED BY <1>1, <1>2
        DEF ChainInv, OnlyAcceptedGoOn, Counted, OkIsFinal, OkResult

\* One hop changes, and neither its host nor its headers.
LEMMA OneHop ==
  ASSUME ChainInv, NEW i \in DOMAIN hops, NEW e \in Hop,
         hops' = [hops EXCEPT ![i] = e], UNCHANGED via
  PROVE  /\ ChainType'
         /\ i \in 1 .. Len(hops) /\ Len(hops) \in Nat
         /\ Len(hops') = Len(hops)
         /\ hops'[i] = e
         /\ \A j \in 1 .. Len(hops) : j # i => hops'[j] = hops[j]
         /\ hops[i] \in Hop
<1>1. hops \in Seq(Hop) BY DEF ChainInv, ChainType
<1>2. i \in 1 .. Len(hops) /\ Len(hops) \in Nat /\ hops[i] \in Hop
  BY <1>1, LenProperties, ElementOfSeq
<1>3. /\ hops' \in Seq(Hop) /\ Len(hops') = Len(hops)
      /\ \A j \in 1 .. Len(hops) : hops'[j] = IF j = i THEN e ELSE hops[j]
  BY ONLY <1>1, <1>2, ExceptSeq, e \in Hop, hops' = [hops EXCEPT ![i] = e]
<1> QED BY <1>2, <1>3 DEF ChainInv, ChainType

\* A step of the hop that does not answer ok, or reports no success, or may.
LEMMA HopSteps ==
  ASSUME ChainInv, NEW i \in DOMAIN hops, NEW e \in Hop,
         hops' = [hops EXCEPT ![i] = e], UNCHANGED via,
         e.host = hops[i].host, e.deep = hops[i].deep, e.from = hops[i].from,
         \* OnlyAcceptedGoOn
         i < Len(hops) => e.agt \in {"sent", "done", "lost"},
         e.agt = "sent" => i < Len(hops),
         e.agt # "none" => ~TooDeep(e),
         e.agt # "none" => via[e.host] # Unknown,
         e.srv = "read" => e.agt = "none",
         e.srv = "wait" => e.agt # "none",
         \* OkIsFinal
         e.answer # "none" => e.srv = "done",
         e.result # "none" => e.agt \in {"done", "lost"},
         e.answer = "ok" => e.result = "ok",
         \* what is ok stays, and becomes ok with all that follow
         hops[i].answer = "ok" => e.answer = "ok",
         e.result = "ok" =>
            /\ \A j \in i + 1 .. Len(hops) : hops[j].answer = "ok"
            /\ via[hops[Len(hops)].host] = Web
  PROVE  ChainInv'
<1>h. /\ ChainType'
      /\ i \in 1 .. Len(hops) /\ Len(hops) \in Nat
      /\ Len(hops') = Len(hops)
      /\ hops'[i] = e
      /\ \A j \in 1 .. Len(hops) : j # i => hops'[j] = hops[j]
      /\ hops[i] \in Hop
  BY OneHop
<1>s. \A j \in 1 .. Len(hops) : /\ hops'[j].host = hops[j].host
                                /\ hops'[j].deep = hops[j].deep
                                /\ hops'[j].from = hops[j].from
  BY <1>h
<1>1. OnlyAcceptedGoOn'
  <2> SUFFICES ASSUME NEW j \in 1 .. Len(hops)
               PROVE  /\ j < Len(hops) =>
                            hops'[j].agt \in {"sent", "done", "lost"}
                      /\ hops'[j].agt = "sent" => j < Len(hops)
                      /\ hops'[j].agt # "none" => ~TooDeep(hops'[j])
                      /\ hops'[j].agt # "none" => via[hops'[j].host] # Unknown
                      /\ hops'[j].srv = "read" => hops'[j].agt = "none"
                      /\ hops'[j].srv = "wait" => hops'[j].agt # "none"
    BY <1>h, via' = via DEF OnlyAcceptedGoOn, TooDeep
  <2>1. CASE j = i BY <2>1, <1>h
  <2>2. CASE j # i BY <2>2, <1>h DEF ChainInv, OnlyAcceptedGoOn
  <2> QED BY <2>1, <2>2
<1>2. Counted'
  <2>1. ASSUME NEW j \in 1 .. Len(hops)
        PROVE  hops'[j].deep = hops'[1].deep + j - 1
    <3>1. 1 \in 1 .. Len(hops) BY <1>h
    <3>2. hops[j].deep = hops[1].deep + j - 1 BY DEF ChainInv, Counted
    <3> QED BY <3>1, <3>2, <1>s
  <2>2. ASSUME NEW j \in 1 .. Len(hops) - 1
        PROVE  hops'[j + 1].from = hops'[j].host
    <3>1. j \in 1 .. Len(hops) /\ j + 1 \in 1 .. Len(hops) BY <1>h
    <3>2. hops[j + 1].from = hops[j].host BY DEF ChainInv, Counted
    <3> QED BY <3>1, <3>2, <1>s
  <2> QED BY <2>1, <2>2, <1>h DEF Counted
<1>3. OkIsFinal'
  <2> SUFFICES ASSUME NEW j \in 1 .. Len(hops)
               PROVE  /\ hops'[j].answer # "none" => hops'[j].srv = "done"
                      /\ hops'[j].result # "none" =>
                           hops'[j].agt \in {"done", "lost"}
                      /\ hops'[j].answer = "ok" => hops'[j].result = "ok"
    BY <1>h DEF OkIsFinal
  <2>1. CASE j = i BY <2>1, <1>h
  <2>2. CASE j # i BY <2>2, <1>h DEF ChainInv, OkIsFinal
  <2> QED BY <2>1, <2>2
<1>4. OkResult'
  <2>1. \A j \in 1 .. Len(hops) : hops[j].answer = "ok" => hops'[j].answer = "ok"
    BY <1>h
  <2> SUFFICES ASSUME NEW j \in 1 .. Len(hops), hops'[j].result = "ok"
               PROVE  /\ \A k \in j + 1 .. Len(hops) : hops'[k].answer = "ok"
                      /\ via[hops'[Len(hops)].host] = Web
    BY <1>h DEF OkResult
  <2>2. /\ \A k \in j + 1 .. Len(hops) : hops[k].answer = "ok"
        /\ via[hops[Len(hops)].host] = Web
    <3>1. CASE j = i BY <3>1, <1>h
    <3>2. CASE j # i
      <4>1. hops[j].result = "ok" BY <3>2, <1>h
      <4> QED BY <4>1 DEF ChainInv, OkResult
    <3> QED BY <3>1, <3>2
  <2>3. Len(hops) \in 1 .. Len(hops) BY <1>h
  <2>4. \A k \in j + 1 .. Len(hops) : k \in 1 .. Len(hops) BY <1>h
  <2> QED BY <2>1, <2>2, <2>3, <2>4, <1>s
<1> QED BY <1>h, <1>1, <1>2, <1>3, <1>4 DEF ChainInv

\* What HopSteps asks for holds of the hop before the step.
LEMMA HopBefore ==
  ASSUME ChainInv, NEW i \in DOMAIN hops
  PROVE  /\ hops[i] \in Hop /\ i \in 1 .. Len(hops) /\ Len(hops) \in Nat
         /\ i < Len(hops) => hops[i].agt \in {"sent", "done", "lost"}
         /\ hops[i].agt = "sent" => i < Len(hops)
         /\ hops[i].agt # "none" => ~TooDeep(hops[i])
         /\ hops[i].agt # "none" => via[hops[i].host] # Unknown
         /\ hops[i].srv = "read" => hops[i].agt = "none"
         /\ hops[i].srv = "wait" => hops[i].agt # "none"
         /\ hops[i].answer # "none" => hops[i].srv = "done"
         /\ hops[i].result # "none" => hops[i].agt \in {"done", "lost"}
         /\ hops[i].answer = "ok" => hops[i].result = "ok"
         /\ hops[i].result = "ok" =>
               /\ \A j \in i + 1 .. Len(hops) : hops[j].answer = "ok"
               /\ via[hops[Len(hops)].host] = Web
<1>1. hops \in Seq(Hop) BY DEF ChainInv, ChainType
<1>2. i \in 1 .. Len(hops) /\ Len(hops) \in Nat /\ hops[i] \in Hop
  BY <1>1, LenProperties, ElementOfSeq
<1> QED BY <1>2 DEF ChainInv, OnlyAcceptedGoOn, OkIsFinal, OkResult

LEMMA ReplyStep ==
  ASSUME ChainInv, NEW i \in DOMAIN hops, NEW st \in Statuses,
         Reply(i, st), UNCHANGED via, hops[i].srv # "done",
         st = "ok" => hops[i].result = "ok"
  PROVE  ChainInv'
<1> DEFINE e == [hops[i] EXCEPT !.srv = "done", !.answer = st]
<1>b. hops[i] \in Hop BY HopBefore
<1>1. /\ e \in Hop /\ e.host = hops[i].host /\ e.deep = hops[i].deep
      /\ e.from = hops[i].from /\ e.srv = "done" /\ e.answer = st
      /\ e.agt = hops[i].agt /\ e.result = hops[i].result
  BY <1>b DEF Hop
<1>2. hops' = [hops EXCEPT ![i] = e] BY DEF Reply
<1>3. TooDeep(e) = TooDeep(hops[i]) BY <1>1 DEF TooDeep
<1> HIDE DEF e
<1> QED BY <1>1, <1>2, <1>3, HopBefore, HopSteps

LEMMA ResultStep ==
  ASSUME ChainInv, NEW i \in DOMAIN hops, NEW st \in Statuses,
         Result(i, st), UNCHANGED via, hops[i].agt \in {"ask", "sent"},
         st = "ok" =>
            /\ \A j \in i + 1 .. Len(hops) : hops[j].answer = "ok"
            /\ via[hops[Len(hops)].host] = Web
  PROVE  ChainInv'
<1> DEFINE e == [hops[i] EXCEPT !.agt = "done", !.result = st]
<1>b. hops[i] \in Hop BY HopBefore
<1>1. /\ e \in Hop /\ e.host = hops[i].host /\ e.deep = hops[i].deep
      /\ e.from = hops[i].from /\ e.agt = "done" /\ e.result = st
      /\ e.srv = hops[i].srv /\ e.answer = hops[i].answer
  BY <1>b DEF Hop
<1>2. hops' = [hops EXCEPT ![i] = e] BY DEF Result
<1>3. TooDeep(e) = TooDeep(hops[i]) BY <1>1 DEF TooDeep
<1>4. hops[i].result = "none"
  <2>1. hops[i].agt \notin {"done", "lost"} OBVIOUS
  <2> QED BY ONLY <2>1, <1>b, HopBefore, ChainInv, i \in DOMAIN hops
<1>5. hops[i].answer # "ok" /\ hops[i].srv # "read"
  BY <1>4, HopBefore
<1> HIDE DEF e
<1> QED BY <1>1, <1>2, <1>3, <1>5, HopBefore, HopSteps

LEMMA DoRequestStep ==
  ASSUME ChainInv, NEW i \in DOMAIN hops, DoRequest(i)
  PROVE  ChainInv'
<1> DEFINE e == [hops[i] EXCEPT !.srv = "wait", !.agt = "ask"]
<1>b. hops[i] \in Hop BY HopBefore
<1>1. /\ e \in Hop /\ e.host = hops[i].host /\ e.deep = hops[i].deep
      /\ e.from = hops[i].from /\ e.srv = "wait" /\ e.agt = "ask"
      /\ e.answer = hops[i].answer /\ e.result = hops[i].result
  BY <1>b DEF Hop
<1>2. /\ hops' = [hops EXCEPT ![i] = e] /\ via' = via
      /\ hops[i].srv = "read" /\ ~TooDeep(hops[i])
      /\ via[hops[i].host] # Unknown
  BY DEF DoRequest
<1>3. TooDeep(e) = TooDeep(hops[i]) BY <1>1 DEF TooDeep
<1>4. /\ hops[i].agt = "none" /\ ~(i < Len(hops))
      /\ hops[i].answer = "none" /\ hops[i].result = "none"
  BY <1>2, HopBefore
<1> HIDE DEF e
<1> QED BY <1>1, <1>2, <1>3, <1>4, HopSteps

LEMMA AnswerLostStep ==
  ASSUME ChainInv, NEW i \in DOMAIN hops, AnswerLost(i)
  PROVE  ChainInv'
<1> DEFINE e == [hops[i] EXCEPT !.agt = "lost"]
<1>b. hops[i] \in Hop BY HopBefore
<1>1. /\ e \in Hop /\ e.host = hops[i].host /\ e.deep = hops[i].deep
      /\ e.from = hops[i].from /\ e.srv = hops[i].srv /\ e.agt = "lost"
      /\ e.answer = hops[i].answer /\ e.result = hops[i].result
  BY <1>b DEF Hop
<1>2. /\ hops' = [hops EXCEPT ![i] = e] /\ via' = via
      /\ hops[i].srv = "wait" /\ hops[i].agt = "done"
  BY DEF AnswerLost
<1>3. TooDeep(e) = TooDeep(hops[i]) BY <1>1 DEF TooDeep
<1> HIDE DEF e
<1> QED BY <1>1, <1>2, <1>3, HopBefore, HopSteps

\* The next hop is one deeper than the last, which was not too deep.
LEMMA ForwardStep ==
  ASSUME ChainInv, NEW i \in DOMAIN hops, Forward(i)
  PROVE  ChainInv'
<1> DEFINE e == [hops[i] EXCEPT !.agt = "sent"]
           n == NewHop(Onward(i))
           s == Sent(i)
<1>b. /\ hops[i] \in Hop /\ i \in 1 .. Len(hops) /\ Len(hops) \in Nat
      /\ hops[i].agt = "ask" /\ Target(i) \in Hosts /\ via' = via
      /\ hops' = Append(s, n) /\ hops \in Seq(Hop)
  BY HopBefore DEF Forward, ChainInv, ChainType
<1>1. /\ e \in Hop /\ e.host = hops[i].host /\ e.deep = hops[i].deep
      /\ e.from = hops[i].from /\ e.srv = hops[i].srv /\ e.agt = "sent"
      /\ e.answer = hops[i].answer /\ e.result = hops[i].result
  BY <1>b DEF Hop
<1>2. /\ n \in Hop /\ n.host = via[hops[i].host] /\ n.deep = hops[i].deep + 1
      /\ n.from = hops[i].host /\ n.srv = "read" /\ n.agt = "none"
      /\ n.answer = "none" /\ n.result = "none"
  <2>1. n = [host |-> via[hops[i].host], deep |-> hops[i].deep + 1,
             from |-> hops[i].host, srv |-> "read", answer |-> "none",
             agt |-> "none", result |-> "none"]
    BY DEF NewHop, Onward, Target
  <2>2. /\ via[hops[i].host] \in Hosts /\ hops[i].deep + 1 \in Int
        /\ hops[i].host \in Hosts
    BY <1>b DEF Hop, Target
  <2> QED BY <2>1, <2>2 DEF Hop, Statuses
<1>3. /\ i = Len(hops) /\ ~TooDeep(hops[i]) /\ hops[i].srv # "read"
      /\ hops[i].answer # "ok" /\ hops[i].result = "none"
      /\ via[hops[i].host] # Unknown
  BY <1>b, HopBefore
<1>4. TooDeep(e) = TooDeep(hops[i]) BY <1>1 DEF TooDeep
<1>5. /\ s \in Seq(Hop) /\ Len(s) = Len(hops)
      /\ \A j \in 1 .. Len(hops) : s[j] = IF j = i THEN e ELSE hops[j]
  <2>1. s = [hops EXCEPT ![i] = e] BY DEF Sent
  <2> QED BY ONLY <2>1, <1>b, <1>1, ExceptSeq
<1>6. /\ hops' \in Seq(Hop) /\ Len(hops') = Len(hops) + 1
      /\ \A j \in 1 .. Len(hops) : hops'[j] = IF j = i THEN e ELSE hops[j]
      /\ hops'[Len(hops) + 1] = n
  <2> HIDE DEF s, n, e
  <2>1. Append(s, n) \in Seq(Hop) /\ Len(Append(s, n)) = Len(s) + 1
        /\ (\A j \in 1 .. Len(s) : Append(s, n)[j] = s[j])
        /\ Append(s, n)[Len(s) + 1] = n
    BY ONLY <1>5, <1>2, AppendProperties
  <2> QED BY ONLY <2>1, <1>5, <1>b
<1> HIDE DEF e, n, s
<1>j. \A j \in 1 .. Len(hops) + 1 : j = Len(hops) + 1 \/ j \in 1 .. Len(hops)
  <2>1. Len(hops) \in Nat BY <1>b
  <2> QED BY ONLY <2>1
<1>s. \A j \in 1 .. Len(hops) : /\ hops'[j].host = hops[j].host
                                /\ hops'[j].deep = hops[j].deep
                                /\ hops'[j].from = hops[j].from
                                /\ hops'[j].answer = hops[j].answer
                                /\ hops'[j].result = hops[j].result
                                /\ hops'[j].srv = hops[j].srv
  BY <1>6, <1>1
<1>7. ChainType' BY <1>6, <1>b DEF ChainInv, ChainType
<1>8. OnlyAcceptedGoOn'
  <2> SUFFICES ASSUME NEW j \in 1 .. Len(hops) + 1
               PROVE  /\ j < Len(hops) + 1 =>
                            hops'[j].agt \in {"sent", "done", "lost"}
                      /\ hops'[j].agt = "sent" => j < Len(hops) + 1
                      /\ hops'[j].agt # "none" => ~TooDeep(hops'[j])
                      /\ hops'[j].agt # "none" => via[hops'[j].host] # Unknown
                      /\ hops'[j].srv = "read" => hops'[j].agt = "none"
                      /\ hops'[j].srv = "wait" => hops'[j].agt # "none"
    BY <1>6, <1>b DEF OnlyAcceptedGoOn, TooDeep
  <2>1. CASE j = Len(hops) + 1 BY <2>1, <1>6, <1>2
  <2>2. CASE j = i BY <2>2, <1>6, <1>1, <1>3, <1>4, <1>b
  <2>3. CASE j \in 1 .. Len(hops) /\ j # i
    <3>1. hops'[j] = hops[j] /\ j < Len(hops) BY <2>3, <1>6, <1>3, <1>b
    <3> QED BY <2>3, <3>1, <1>b DEF ChainInv, OnlyAcceptedGoOn
  <2> QED BY ONLY <2>1, <2>2, <2>3, <1>j
<1>9. Counted'
  <2>0. 1 \in 1 .. Len(hops) BY <1>b
  <2>1. ASSUME NEW j \in 1 .. Len(hops) + 1
        PROVE  hops'[j].deep = hops'[1].deep + j - 1
    <3>1. CASE j \in 1 .. Len(hops)
      <4>1. hops[j].deep = hops[1].deep + j - 1
        BY <3>1 DEF ChainInv, Counted
      <4> QED BY <4>1, <2>0, <3>1, <1>s
    <3>2. CASE j = Len(hops) + 1
      <4>1. hops[i].deep = hops[1].deep + i - 1
        BY <1>b DEF ChainInv, Counted
      <4>2. hops[1] \in Hop BY ONLY <1>b, <2>0, ElementOfSeq
      <4>3. hops[1].deep \in Int BY <4>2 DEF Hop
      <4>4. hops'[j].deep = hops[i].deep + 1 BY <3>2, <1>6, <1>2
      <4>5. hops'[1].deep = hops[1].deep BY <2>0, <1>s
      <4>6. i = Len(hops) /\ i \in Nat BY <1>3, <1>b
      <4> QED BY ONLY <4>1, <4>3, <4>4, <4>5, <4>6, <3>2
    <3> QED BY ONLY <3>1, <3>2, <1>j
  <2>2. ASSUME NEW j \in 1 .. Len(hops)
        PROVE  hops'[j + 1].from = hops'[j].host
    <3>1. CASE j = i BY <3>1, <1>3, <1>6, <1>2, <1>s
    <3>2. CASE j # i
      <4>1. j \in 1 .. Len(hops) - 1 /\ j + 1 \in 1 .. Len(hops)
        BY <3>2, <1>3, <1>b
      <4>2. hops[j + 1].from = hops[j].host
        BY <4>1 DEF ChainInv, Counted
      <4> QED BY <4>1, <4>2, <1>s
    <3> QED BY <3>1, <3>2
  <2>3. Len(hops') - 1 = Len(hops) BY <1>6, <1>b
  <2> QED BY <2>1, <2>2, <2>3, <1>6 DEF Counted
<1>10. OkIsFinal'
  <2> SUFFICES ASSUME NEW j \in 1 .. Len(hops) + 1
               PROVE  /\ hops'[j].answer # "none" => hops'[j].srv = "done"
                      /\ hops'[j].result # "none" =>
                           hops'[j].agt \in {"done", "lost"}
                      /\ hops'[j].answer = "ok" => hops'[j].result = "ok"
    BY <1>6 DEF OkIsFinal
  <2>1. CASE j = Len(hops) + 1 BY <2>1, <1>6, <1>2
  <2>2. CASE j = i
    BY <2>2, <1>s, <1>3, <1>b DEF ChainInv, OkIsFinal
  <2>3. CASE j \in 1 .. Len(hops) /\ j # i
    <3>1. hops'[j] = hops[j] BY <2>3, <1>6
    <3> QED BY <2>3, <3>1 DEF ChainInv, OkIsFinal
  <2> QED BY ONLY <2>1, <2>2, <2>3, <1>j
<1>11. OkResult'
  <2>1. \A j \in 1 .. Len(hops) + 1 : hops'[j].result # "ok"
    <3> SUFFICES ASSUME NEW j \in 1 .. Len(hops) + 1 PROVE hops'[j].result # "ok"
      OBVIOUS
    <3>1. CASE j = Len(hops) + 1 BY <3>1, <1>6, <1>2
    <3>2. CASE j = i BY <3>2, <1>s, <1>3, <1>b
    <3>3. CASE j \in 1 .. Len(hops) /\ j # i
      <4>1. i \in j + 1 .. Len(hops) BY <3>3, <1>3, <1>b
      <4>2. hops[j].result = "ok" => hops[i].answer = "ok"
        BY <3>3, <4>1 DEF ChainInv, OkResult
      <4> QED BY <3>3, <4>2, <1>3, <1>s
    <3> QED BY ONLY <3>1, <3>2, <3>3, <1>j
  <2> QED BY <2>1, <1>6 DEF OkResult
<1> QED BY <1>7, <1>8, <1>9, <1>10, <1>11 DEF ChainInv

LEMMA RequestStep ==
  ASSUME ChainInv, Request
  PROVE  ChainInv'
<1>1. PICK req \in Requests : hops' = <<NewHop(req)>> BY DEF Request
<1> DEFINE n == NewHop(req)
<1>2. req \in [host : Hosts, deep : Int, from : Hosts \cup {NoHost}]
  BY RequestType
<1>3. /\ n \in Hop /\ n.srv = "read" /\ n.agt = "none" /\ n.answer = "none"
      /\ n.result = "none" /\ n.deep \in Int
  BY <1>2 DEF NewHop, Hop, Statuses
<1> HIDE DEF n
<1>4. /\ hops' \in Seq(Hop) /\ Len(hops') = 1 /\ hops'[1] = n
  BY <1>1, <1>3 DEF n
<1>5. ChainType' BY <1>4 DEF Request, ChainInv, ChainType
<1>6. \A j \in 1 .. Len(hops') : j = 1 /\ hops'[j] = n BY <1>4
<1>7. OnlyAcceptedGoOn' BY <1>4, <1>6, <1>3 DEF OnlyAcceptedGoOn, TooDeep
<1>8. Counted' BY <1>4, <1>6, <1>3 DEF Counted
<1>9. OkIsFinal' /\ OkResult' BY <1>4, <1>6, <1>3 DEF OkIsFinal, OkResult
<1> QED BY <1>5, <1>7, <1>8, <1>9 DEF ChainInv

LEMMA HopStep ==
  ASSUME ChainInv, NEW i \in DOMAIN hops,
         Serve(i) \/ AnswerLost(i) \/ Timeout(i) \/ Cancelled(i)
                 \/ Ask(i) \/ GiveUp(i)
  PROVE  ChainInv'
<1>b. /\ hops[i] \in Hop /\ i \in 1 .. Len(hops) /\ Len(hops) \in Nat
      /\ i < Len(hops) => hops[i].agt \in {"sent", "done", "lost"}
      /\ hops[i].agt = "sent" => i < Len(hops)
  BY HopBefore
<1>r. hops[i].result \in Statuses BY <1>b DEF Hop
<1>v. "none" \in Statuses /\ "ok" \in Statuses /\ "error" \in Statuses
      /\ "deep" \in Statuses /\ "notFound" \in Statuses
  BY DEF Statuses
<1>1. CASE Refuse(i)
  <2>1. UNCHANGED via /\ hops[i].srv # "done" BY <1>1 DEF Refuse
  <2>2. Reply(i, "error") \/ Reply(i, "deep") \/ Reply(i, "notFound")
    BY <1>1 DEF Refuse
  <2> QED BY <2>1, <2>2, <1>v, ReplyStep
<1>2. CASE DoRequest(i) BY <1>2, DoRequestStep
<1>3. CASE Respond(i)
  <2>1. UNCHANGED via /\ hops[i].srv # "done" /\ Reply(i, hops[i].result)
    BY <1>3 DEF Respond
  <2> QED BY <2>1, <1>r, ReplyStep
<1>4. CASE Timeout(i) \/ Cancelled(i)
  <2>1. UNCHANGED via /\ hops[i].srv # "done"
        /\ (Reply(i, "error") \/ Reply(i, "none"))
    BY <1>4 DEF Timeout, Cancelled
  <2> QED BY <2>1, <1>v, ReplyStep
<1>5. CASE Forward(i) BY <1>5, ForwardStep
<1>6. CASE AskOther(i)
  <2>1. /\ UNCHANGED via /\ hops[i].agt = "ask"
        /\ (via[hops[i].host] = Web /\ Result(i, "ok")) \/ Result(i, "error")
    BY <1>6 DEF AskOther, Target
  <2>2. i = Len(hops) BY <2>1, <1>b
  <2>3. \A j \in i + 1 .. Len(hops) : FALSE BY <2>2, <1>b
  <2> QED BY <2>1, <2>2, <2>3, <1>v, ResultStep
<1>7. CASE Relay(i)
  <2>1. UNCHANGED via /\ hops[i].agt = "sent" BY <1>7 DEF Relay
  <2>2. i + 1 \in 1 .. Len(hops) BY <2>1, <1>b
  <2>3. hops[i + 1] \in Hop
    BY <2>2, ElementOfSeq DEF ChainInv, ChainType
  <2>4. hops[i + 1].answer \in Statuses BY <2>3 DEF Hop
  <2>5. CASE Result(i, "error") BY <2>1, <2>5, <1>v, ResultStep
  <2>6. CASE Result(i, hops[i + 1].answer)
    <3>1. hops[i + 1].answer = "ok" =>
             /\ \A j \in i + 1 .. Len(hops) : hops[j].answer = "ok"
             /\ via[hops[Len(hops)].host] = Web
      <4> SUFFICES ASSUME hops[i + 1].answer = "ok"
                   PROVE  /\ \A j \in i + 1 .. Len(hops) : hops[j].answer = "ok"
                          /\ via[hops[Len(hops)].host] = Web
        OBVIOUS
      <4>1. hops[i + 1].result = "ok" BY <2>2 DEF ChainInv, OkIsFinal
      <4>2. /\ \A j \in (i + 1) + 1 .. Len(hops) : hops[j].answer = "ok"
            /\ via[hops[Len(hops)].host] = Web
        BY <4>1, <2>2 DEF ChainInv, OkResult
      <4>3. \A j \in i + 1 .. Len(hops) :
               j = i + 1 \/ j \in (i + 1) + 1 .. Len(hops)
        BY <1>b
      <4> QED BY <4>2, <4>3
    <3> QED BY <3>1, <2>1, <2>4, <2>6, ResultStep
  <2> QED BY <1>7, <2>5, <2>6 DEF Relay
<1>8. CASE GiveUp(i)
  <2>1. UNCHANGED via /\ hops[i].agt \in {"ask", "sent"} /\ Result(i, "error")
    BY <1>8 DEF GiveUp
  <2> QED BY <2>1, <1>v, ResultStep
<1>9. CASE AnswerLost(i) BY <1>9, AnswerLostStep
<1> QED BY ONLY <1>1, <1>2, <1>3, <1>4, <1>5, <1>6, <1>7, <1>8, <1>9,
           Serve(i) \/ AnswerLost(i) \/ Timeout(i) \/ Cancelled(i)
                 \/ Ask(i) \/ GiveUp(i)
        DEF Serve, Ask

LEMMA ChainStep ==
  ASSUME ChainInv, [Next]_vars
  PROVE  ChainInv'
<1>1. ASSUME UNCHANGED <<via, hops>> PROVE ChainInv'
  BY <1>1 DEF ChainInv, ChainType, OnlyAcceptedGoOn, TooDeep, Counted,
              OkIsFinal, OkResult
<1>2. CASE Main \/ ListenAndServeReturns
  <2>1. UNCHANGED <<via, hops>>
    BY <1>2 DEF Main, Start, CatchExitSignal, ListenAndServe,
       ListenAndServeReturns, Stop
  <2> QED BY ONLY <2>1, <1>1
<1>3. CASE Signal \/ Catch \/ AcceptFails \/ Sleep \/ AcceptAfterFailure
              \/ HandleNilConn
  <2>1. UNCHANGED <<via, hops>>
    BY <1>3 DEF Signal, Catch, AcceptFails, Sleep, AcceptAfterFailure,
       HandleNilConn
  <2> QED BY ONLY <2>1, <1>1
<1>4. CASE Request BY <1>4, RequestStep
<1>5. ASSUME NEW i \in DOMAIN hops,
             Serve(i) \/ AnswerLost(i) \/ Timeout(i) \/ Cancelled(i)
                 \/ Ask(i) \/ GiveUp(i)
      PROVE  ChainInv'
  BY <1>5, HopStep
<1>6. CASE UNCHANGED vars BY <1>6, <1>1 DEF vars
<1> QED BY ONLY <1>2, <1>3, <1>4, <1>5, <1>6, [Next]_vars DEF Next

LEMMA AlwaysInv == Spec => [](ProcInv /\ ChainInv)
<1>1. Init => ProcInv /\ ChainInv BY ProcInit, ChainInit
<1>2. ProcInv /\ ChainInv /\ [Next]_vars => (ProcInv /\ ChainInv)'
  BY ProcStep, ChainStep
<1> QED BY <1>1, <1>2, PTL DEF Spec

-----------------------------------------------------------------------------

\* The process and the chain of its request keep to their types.
THEOREM TypeCorrect == Spec => []TypeOK
<1>1. ProcInv /\ ChainInv => TypeOK
  BY DEF ProcInv, ProcType, ChainInv, ChainType, TypeOK
<1> QED BY AlwaysInv, <1>1, PTL

\* http_server.go serveHTTP: a circle of portals is left after at most
\* MaxPortalDeep + 2 turns, whatever the routing and the browser's header.
THEOREM BoundedChain == Spec => []ChainIsBounded
<1>1. ChainInv => ChainIsBounded
  <2> SUFFICES ASSUME ChainInv, hops # <<>> PROVE ChainIsBounded
    BY DEF ChainIsBounded
  <2>0. /\ hops \in Seq(Hop)
        /\ Len(hops) \in Nat
        /\ \A i \in 1 .. Len(hops) : hops[i].deep \in Int
    <3>1. hops \in Seq(Hop) BY DEF ChainInv, ChainType
    <3>2. Len(hops) \in Nat /\ \A i \in 1 .. Len(hops) : hops[i] \in Hop
      BY ONLY <3>1, LenProperties, ElementOfSeq
    <3> QED BY <3>1, <3>2 DEF Hop
  <2>1. \A i \in 1 .. Len(hops) - 1 : ~TooDeep(hops[i])
    <3> SUFFICES ASSUME NEW i \in 1 .. Len(hops) - 1 PROVE ~TooDeep(hops[i])
      OBVIOUS
    <3>1. i \in 1 .. Len(hops) /\ i < Len(hops) BY <2>0
    <3>2. hops[i].agt \in {"sent", "done", "lost"}
      BY <3>1 DEF ChainInv, OnlyAcceptedGoOn
    <3> QED BY <3>1, <3>2 DEF ChainInv, OnlyAcceptedGoOn
  <2>2. Len(hops) > 1 => Len(hops) <= MaxPortalDeep + 2 - hops[1].deep
    <3> SUFFICES ASSUME Len(hops) > 1
                 PROVE  Len(hops) <= MaxPortalDeep + 2 - hops[1].deep
      OBVIOUS
    <3> DEFINE k == Len(hops) - 1
    <3>1. k \in 1 .. Len(hops) - 1 /\ k \in 1 .. Len(hops) /\ 1 \in 1 .. Len(hops)
      BY <2>0
    <3>2. hops[k].deep = hops[1].deep + k - 1 BY <3>1 DEF ChainInv, Counted
    <3>3. ~(hops[k].deep > MaxPortalDeep) BY <3>1, <2>1 DEF TooDeep
    <3>4. hops[k].deep \in Int /\ hops[1].deep \in Int BY <3>1, <2>0
    <3> HIDE DEF k
    <3>5. k = Len(hops) - 1 BY DEF k
    <3> QED BY <3>2, <3>3, <3>4, <3>5, <2>0, DeepType
  <2>3. \A i \in 1 .. Len(hops) - 2 : hops[i].host # hops[i + 1].host
    <3> SUFFICES ASSUME NEW i \in 1 .. Len(hops) - 2
                 PROVE  hops[i].host # hops[i + 1].host
      OBVIOUS
    <3>1. i \in 1 .. Len(hops) - 1 /\ i + 1 \in 1 .. Len(hops) - 1 BY <2>0
    <3>2. hops[i + 1].from = hops[i].host BY <3>1 DEF ChainInv, Counted
    <3>3. hops[i + 1].from # hops[i + 1].host BY <3>1, <2>1 DEF TooDeep
    <3> QED BY <3>2, <3>3
  <2> QED BY <2>0, <2>2, <2>3 DEF ChainIsBounded
<1> QED BY AlwaysInv, <1>1, PTL

\* RequestHandler.serveHTTP, DoRequest: a success that the browser sees was
\* one at every portal behind it and at the ordinary server.
THEOREM OkIsFromWeb == Spec => []OkComesFromWeb
<1>1. ChainInv => OkComesFromWeb
  <2> SUFFICES ASSUME ChainInv, NEW i \in DOMAIN hops, hops[i].answer = "ok"
               PROVE  /\ \A j \in i .. Len(hops) : hops[j].answer = "ok"
                      /\ via[hops[Len(hops)].host] = Web
    BY DEF OkComesFromWeb
  <2>1. i \in 1 .. Len(hops) /\ Len(hops) \in Nat BY HopBefore
  <2>2. /\ \A j \in i + 1 .. Len(hops) : hops[j].answer = "ok"
        /\ via[hops[Len(hops)].host] = Web
    BY HopBefore
  <2>3. \A j \in i .. Len(hops) : j = i \/ j \in i + 1 .. Len(hops) BY <2>1
  <2> QED BY <2>2, <2>3
<1> QED BY AlwaysInv, <1>1, PTL

\* ProxyServer.accept, Stop: only a failure of the operating system makes the
\* process panic or accept give up.
THEOREM FaultsPanic == Spec => []OnlyFaultsPanic
<1>1. ProcInv => OnlyFaultsPanic BY DEF ProcInv
<1> QED BY AlwaysInv, <1>1, PTL

-----------------------------------------------------------------------------
(* The circle is no deadlock *)

\* The handler has answered, and nobody works on the request any more.
Settled(i) ==
    hops[i].srv = "done" /\ hops[i].agt \in {"none", "done", "lost"}

\* Serve(i) can take place: the request is read, or the agent has answered.
CanServe(i) ==
    \/ hops[i].srv = "read"
    \/ hops[i].srv = "wait" /\ hops[i].agt = "done"

\* Ask(i) can take place: the agent has to send the request on, or what it
\* sent on is answered.
CanAsk(i) ==
    \/ hops[i].agt = "ask" /\ Target(i) # Unknown
    \/ hops[i].agt = "sent" /\ hops[i + 1].srv = "done"

\* The agent has answered, but the answer was dropped or not sent: nothing but
\* DoRequest's own timer ends the wait.
MustTimeOut(i) == hops[i].srv = "wait" /\ hops[i].agt = "lost"

\* As long as the browser has no answer one hop of the chain can go on without
\* anybody leaving, and all that it waited for is settled.  It needs its timer
\* only if the answer of its own agent is lost.
NoCircularWait ==
    ~Ended /\ hops # <<>> /\ hops[1].srv # "done" =>
        \E i \in DOMAIN hops :
            /\ CanServe(i) \/ CanAsk(i) \/ MustTimeOut(i)
            /\ \A j \in i + 1 .. Len(hops) : Settled(j)

\* A set of places in a chain has a last one.
LEMMA LastPlace ==
  ASSUME NEW n \in Nat, NEW S, S \subseteq 1 .. n, S # {}
  PROVE  \E i \in S : \A j \in i + 1 .. n : j \notin S
<1> DEFINE T == {n - i : i \in S}
<1>0. \A i \in S : n - i \in Nat
  <2>1. \A i \in 1 .. n : n - i \in Nat OBVIOUS
  <2> QED BY <2>1
<1>1. T \subseteq Nat /\ T # {} BY <1>0
<1>2. PICK x \in T : \A y \in T : ~ (<<y, x>> \in OpToRel(<, Nat))
  BY <1>1, NatLessThanWellFounded, WFMin
<1>3. \A y \in T : ~ (y < x) BY <1>1, <1>2 DEF OpToRel
<1>4. PICK i \in S : x = n - i OBVIOUS
<1>5. ASSUME NEW j \in i + 1 .. n, j \in S PROVE FALSE
  <2>1. n - j \in T BY <1>5
  <2>2. ~ (n - j < n - i) BY <2>1, <1>3, <1>4
  <2> QED BY <2>2, <1>5
<1> QED BY <1>5

\* Of the hops that are not settled the deepest can always go on.
LEMMA DeepestGoesOn ==
  ASSUME ChainInv, NEW i \in DOMAIN hops, ~Settled(i),
         \A j \in i + 1 .. Len(hops) : Settled(j)
  PROVE  CanServe(i) \/ CanAsk(i) \/ MustTimeOut(i)
<1>1. /\ hops[i] \in Hop /\ i \in 1 .. Len(hops) /\ Len(hops) \in Nat
      /\ hops[i].agt = "sent" => i < Len(hops)
      /\ hops[i].agt # "none" => via[hops[i].host] # Unknown
      /\ hops[i].srv = "wait" => hops[i].agt # "none"
  BY HopBefore
<1>2. /\ hops[i].srv \in {"read", "wait", "done"}
      /\ hops[i].agt \in {"none", "ask", "sent", "done", "lost"}
  BY <1>1 DEF Hop
<1>3. CASE hops[i].agt = "sent"
  <2>1. i + 1 \in i + 1 .. Len(hops) BY <1>1, <1>3
  <2> QED BY <2>1, <1>3 DEF Settled, CanAsk
<1>4. CASE hops[i].agt = "ask" BY <1>1, <1>4 DEF CanAsk, Target
<1>5. CASE hops[i].agt \in {"none", "done"}
  BY <1>1, <1>2, <1>5 DEF Settled, CanServe
<1>6. CASE hops[i].agt = "lost"
  <2>1. hops[i].srv # "read" BY <1>6, HopBefore
  <2> QED BY <1>2, <1>6, <2>1 DEF Settled, MustTimeOut
<1> QED BY <1>2, <1>3, <1>4, <1>5, <1>6

\* DoRequest, RequestHandler.serveHTTP: although every portal of a circle waits
\* for the next one, which may be itself, they never all wait: the deepest one
\* waits for nobody, or for an answer that SendResponse has dropped.
THEOREM NeverAllWait == Spec => []NoCircularWait
<1>1. ChainInv => NoCircularWait
  <2> SUFFICES ASSUME ChainInv, hops # <<>>, hops[1].srv # "done"
               PROVE  \E i \in DOMAIN hops :
                         /\ CanServe(i) \/ CanAsk(i) \/ MustTimeOut(i)
                         /\ \A j \in i + 1 .. Len(hops) : Settled(j)
    BY DEF NoCircularWait
  <2> DEFINE S == {i \in 1 .. Len(hops) : ~Settled(i)}
  <2>1. hops \in Seq(Hop) BY DEF ChainInv, ChainType
  <2>2. /\ DOMAIN hops = 1 .. Len(hops) /\ Len(hops) \in Nat
        /\ 1 \in 1 .. Len(hops)
    <3>1. DOMAIN hops = 1 .. Len(hops) /\ Len(hops) \in Nat
      BY <2>1, LenProperties
    <3>2. Len(hops) # 0 BY <2>1, EmptySeq
    <3> QED BY <3>1, <3>2
  <2>3. 1 \in S BY <2>2 DEF Settled
  <2>4. S \subseteq 1 .. Len(hops) /\ S # {} BY <2>3
  <2>5. PICK i \in S : \A j \in i + 1 .. Len(hops) : j \notin S
    <3> HIDE DEF S
    <3> QED BY <2>2, <2>4, LastPlace
  <2>6. i \in DOMAIN hops /\ ~Settled(i) BY <2>2
  <2>7. \A j \in i + 1 .. Len(hops) : Settled(j) BY <2>2, <2>5
  <2>8. CanServe(i) \/ CanAsk(i) \/ MustTimeOut(i)
    BY <2>6, <2>7, DeepestGoesOn
  <2> QED BY <2>6, <2>7, <2>8
<1> QED BY AlwaysInv, <1>1, PTL

=============================================================================
