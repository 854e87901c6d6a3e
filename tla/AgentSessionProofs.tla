------------------------- MODULE AgentSessionProofs -------------------------
(***************************************************************************)
(* AgentSession for any number of connections, faults and unread frames.   *)
(* What the agent believes rests on one observation: a request is live     *)
(* only while Run waits for its reply, and while Run waits p.conn does not *)
(* change.  So the reply that Run sees comes from p.conn, whatever became  *)
(* of older connections, their goroutines and their frames.  That requests *)
(* go to p.conn then rests on the server: a connection that was logged in  *)
(* and works has the name.                                                 *)
(***************************************************************************)
EXTENDS AgentSession, SequenceTheorems, TLAPS

Waiting == pc \in {"sent", "wait"}

\* Live frames belong to the request that Run waits for.
LiveFrames ==
    \A c \in Conns : \A i \in DOMAIN up[c] :
        up[c][i].live => Waiting /\ c = conn /\ up[c][i].kind = await

\* So does a reply, and it says what the server has done.
LiveReply ==
    /\ reply # "none" => Waiting
    /\ reply = "success" => conn \in Conns /\ isLogin[conn]
    /\ reply = "notLogin" => await = "hb"

\* p.conn is set once Run sends or loops, and it is closed or broken when Run
\* dials.  (An agent that stops takes any failure to send for a lost connection,
\* but it does not get round to dialling.)
Dialling ==
    /\ pc \in {"send", "sent", "wait"} \/ looping => conn \in Conns
    /\ pc = "timer" \/ await = "hb" => looping
    /\ /\ pc = "dial" \/ (status = "notConnect" /\ stop = "no")
       /\ conn \in Conns
       => link[conn] # "open"

\* Goroutines read once p.conn is set.
Dialled == conn \in Conns \/ \A g \in Conns : reader[g] = "gone"

Believes == status = "ok" => conn \in Conns /\ isLogin[conn]

Safe ==
    /\ LiveFrames
    /\ LiveReply
    /\ Dialling
    /\ Dialled
    /\ Believes
    /\ AbandonedIsBroken

\* Who holds the name has a handler that will give it up; a connection that
\* works has one as well, and has the name if it was logged in.
ServerFits ==
    /\ holder # NoConn => handler[holder] /\ isLogin[holder]
    /\ \A c \in Conns : link[c] = "open" =>
          handler[c] /\ (isLogin[c] => holder = c)

IInv == TypeOK /\ Safe /\ ServerFits

-----------------------------------------------------------------------------
(* Lemmas about the operators *)

\* Forget makes no reply and leaves the frames, none of them live.
LEMMA ForgetFacts ==
  ASSUME TypeOK, Forget
  PROVE  /\ reply' = "none"
         /\ up' \in [Conns -> Seq(Frames)]
         /\ \A c \in Conns : \A i \in DOMAIN up'[c] : ~up'[c][i].live
<1> DEFINE Dull(s) == [i \in DOMAIN s |-> [s[i] EXCEPT !.live = FALSE]]
<1>1. ASSUME NEW s \in Seq(Frames) PROVE Dull(s) \in Seq(Frames)
  <2>1. PICK n \in Nat : s \in [1 .. n -> Frames]
    BY SeqDef
  <2>2. \A i \in 1 .. n : [s[i] EXCEPT !.live = FALSE] \in Frames
    BY <2>1 DEF Frames
  <2>3. Dull(s) \in [1 .. n -> Frames]
    BY <2>1, <2>2
  <2> HIDE DEF Dull
  <2> QED
    BY <2>3, SeqDef
<1>2. ASSUME NEW s \in Seq(Frames), NEW i \in DOMAIN Dull(s)
      PROVE  ~Dull(s)[i].live
  <2>1. s[i] \in Frames
    BY <1>2
  <2> QED
    BY <2>1 DEF Frames
<1>3. up' = [c \in Conns |-> Dull(up[c])]
  BY DEF Forget
<1>4. \A c \in Conns : up[c] \in Seq(Frames)
  BY DEF TypeOK
<1> HIDE DEF Dull
<1> QED
  BY <1>1, <1>2, <1>3, <1>4 DEF Forget

\* What Send and Serve do to a sequence of frames.
LEMMA AppendFrame ==
  ASSUME NEW s \in Seq(Frames), NEW f \in Frames
  PROVE  /\ Append(s, f) \in Seq(Frames)
         /\ \A i \in DOMAIN Append(s, f) :
               \/ i \in DOMAIN s /\ Append(s, f)[i] = s[i]
               \/ Append(s, f)[i] = f
BY AppendProperties

LEMMA TailFrames ==
  ASSUME NEW s \in Seq(Frames), s # <<>>
  PROVE  /\ Tail(s) \in Seq(Frames)
         /\ Head(s) = s[1] /\ 1 \in DOMAIN s /\ Head(s) \in Frames
         /\ \A i \in DOMAIN Tail(s) :
               i + 1 \in DOMAIN s /\ Tail(s)[i] = s[i + 1]
BY HeadTailProperties

\* A heartbeat that ends keeps the types; it is believed if its status says so.
LEMMA EndedFacts ==
  ASSUME TypeOK, NEW st \in {"notConnect", "notLogin", "ok", "error"}, Ended(st)
  PROVE  /\ pc' = "timer"
         /\ status' \in {"notConnect", st}
         /\ failed' \in 0 .. FailedLimit - 1
         /\ recent' \in BOOLEAN
         /\ link' \in [Conns -> {"none", "open", "dead", "eof", "closed"}]
         /\ \A c \in Conns : link'[c] = "open" => link[c] = "open"
         /\ status' = "notConnect" /\ conn \in Conns =>
               \/ link'[conn] # "open"
               \/ st = "notConnect" /\ link' = link
<1> DEFINE Limit == st # "ok" /\ failed + 1 >= FailedLimit
<1>1. CASE Limit
  <2>1. link' = [link EXCEPT ![conn] = "closed"]
    BY <1>1 DEF Ended
  <2>2. /\ link' \in [Conns -> {"none", "open", "dead", "eof", "closed"}]
        /\ \A c \in Conns : link'[c] = "open" => link[c] = "open"
        /\ conn \in Conns => link'[conn] # "open"
    BY <2>1 DEF TypeOK
  <2>3. pc' = "timer" /\ status' = "notConnect" /\ failed' = 0
    BY <1>1 DEF Ended
  <2>4. recent' \in BOOLEAN
    BY DEF Ended, TypeOK
  <2> QED
    BY <2>2, <2>3, <2>4 DEF FailedLimit
<1>2. CASE ~Limit
  <2>1. link' = link /\ status' = st
    BY <1>2 DEF Ended
  <2> QED
    BY <1>2, <2>1 DEF Ended, TypeOK, FailedLimit
<1> QED  BY <1>1, <1>2

LEMMA FailedFacts ==
  ASSUME TypeOK, NEW st \in {"notConnect", "error"}, Failed(st)
  PROVE  /\ pc' \in {"timer", "exit"}
         /\ pc' = "timer" => looping
         /\ status' \in {"notConnect", "notLogin", "error", status}
         /\ status' = "ok" => status = "ok"
         /\ failed' \in 0 .. FailedLimit - 1
         /\ recent' \in BOOLEAN
         /\ link' \in [Conns -> {"none", "open", "dead", "eof", "closed"}]
         /\ \A c \in Conns : link'[c] = "open" => link[c] = "open"
         /\ status' = "notConnect" /\ conn \in Conns =>
               \/ link'[conn] # "open"
               \/ (st = "notConnect" \/ status = "notConnect") /\ link' = link
<1>1. CASE looping /\ await = "login"
  BY <1>1, EndedFacts DEF Failed
<1>2. CASE looping /\ await # "login"
  BY <1>2, EndedFacts DEF Failed
<1>3. CASE ~looping
  BY <1>3 DEF Failed, TypeOK
<1> QED  BY <1>1, <1>2, <1>3
-----------------------------------------------------------------------------
(* Types *)

LEMMA TypeInit == Init => TypeOK
<1>1. <<>> \in Seq(Frames)
  BY EmptySeq
<1>2. Init => up \in [Conns -> Seq(Frames)]
  BY <1>1, Zenon DEF Init
<1>3. Init => /\ reader \in [Conns -> Conns \cup {"gone", "sleep"}]
              /\ link \in [Conns -> {"none", "open", "dead", "eof", "closed"}]
              /\ handler \in [Conns -> BOOLEAN]
              /\ isLogin \in [Conns -> BOOLEAN]
  BY DEF Init
<1>4. Init => failed \in 0 .. FailedLimit - 1 /\ faults \in 0 .. MaxFaults
  BY MaxFaultsType DEF Init, FailedLimit
<1> QED
  BY <1>2, <1>3, <1>4, Zenon DEF Init, TypeOK, Pcs

LEMMA TypeNext == TypeOK /\ Dialled /\ [Next]_vars => TypeOK'
<1> SUFFICES ASSUME TypeOK, Dialled, [Next]_vars PROVE TypeOK'
  OBVIOUS
<1> USE MaxFaultsType
<1>1. ASSUME Tick PROVE TypeOK'
  BY <1>1 DEF Tick, TypeOK, Pcs, agentVars, serverVars
<1>2. ASSUME NEW c \in Conns, Connect(c) PROVE TypeOK'
  BY <1>2 DEF Connect, TypeOK, Pcs, agentVars, serverVars
<1>3. ASSUME ConnectFails PROVE TypeOK'
  <2>1. CASE looping
    BY <1>3, <2>1, EndedFacts DEF ConnectFails, TypeOK, Pcs, serverVars, Fault
  <2>2. CASE ~looping
    BY <1>3, <2>2 DEF ConnectFails, TypeOK, Pcs, serverVars, Fault
  <2> QED  BY <2>1, <2>2
<1>4. ASSUME Send PROVE TypeOK'
  <2>1. [kind |-> await, live |-> TRUE] \in Frames
    BY DEF TypeOK, Frames
  <2>2. up' \in [Conns -> Seq(Frames)]
    BY <1>4, <2>1, AppendFrame DEF Send, TypeOK
  <2> QED
    BY <1>4, <2>2 DEF Send, TypeOK, Pcs, serverVars
<1>5. ASSUME SendFails PROVE TypeOK'
  BY <1>5, FailedFacts DEF SendFails, TypeOK, Pcs, serverVars
<1>6. ASSUME SendTimesOut PROVE TypeOK'
  BY <1>6, FailedFacts DEF SendTimesOut, TypeOK, Pcs, serverVars, Fault
<1>7. ASSUME Select PROVE TypeOK'
  BY <1>7 DEF Select, TypeOK, Pcs, agentVars, serverVars
<1>8. ASSUME Timeout PROVE TypeOK'
  BY <1>8, FailedFacts, ForgetFacts
     DEF Timeout, TypeOK, Pcs, serverVars, Fault
<1>9. ASSUME NEW c \in Conns, Deliver(c) PROVE TypeOK'
  <2>1. CASE await = "login"
    BY <1>9, <2>1, ForgetFacts
       DEF Deliver, Loop, Answered, LoggedIn, TypeOK, Pcs, serverVars
  <2>2. CASE await # "login"
    BY <1>9, <2>2, ForgetFacts, EndedFacts
       DEF Deliver, Loop, Answered, TypeOK, Pcs, serverVars
  <2> QED  BY <2>1, <2>2
<1>10. ASSUME NEW c \in Conns, DeliverEarly(c) PROVE TypeOK'
  BY <1>10 DEF DeliverEarly, Loop, TypeOK, Pcs, agentVars, serverVars, Fault
<1>11. ASSUME NEW c \in Conns, Garble(c) PROVE TypeOK'
  BY <1>11 DEF Garble, TypeOK, Pcs, agentVars, serverVars
<1>12. ASSUME NEW c \in Conns, ReadFails(c) PROVE TypeOK'
  <2>1. /\ UNCHANGED <<agentVars, reply, up, serverVars, faults>>
        /\ \/ reader' = [reader EXCEPT ![c] = "gone"]
           \/ reader' = [reader EXCEPT ![c] = "sleep"]
        /\ \/ link' = link
           \/ \E d \in Conns : link' = [link EXCEPT ![d] = "eof"]
    BY <1>12, Zenon DEF ReadFails
  <2>2. reader' \in [Conns -> Conns \cup {"gone", "sleep"}]
    BY <2>1 DEF TypeOK
  <2>3. link' \in [Conns -> {"none", "open", "dead", "eof", "closed"}]
    BY <2>1 DEF TypeOK
  <2> QED
    BY <2>1, <2>2, <2>3 DEF TypeOK, agentVars, serverVars
<1>13. ASSUME NEW c \in Conns, ReadTimesOut(c) PROVE TypeOK'
  <2>1. PICK after \in {"sleep", "gone"} : reader' = [reader EXCEPT ![c] = after]
    BY <1>13, Zenon DEF ReadTimesOut
  <2>2. reader' \in [Conns -> Conns \cup {"gone", "sleep"}]
    BY <2>1 DEF TypeOK
  <2>3. faults' \in 0 .. MaxFaults
    BY <1>13 DEF ReadTimesOut, Fault, TypeOK
  <2>4. UNCHANGED <<agentVars, reply, link, up, serverVars>>
    BY <1>13 DEF ReadTimesOut
  <2> QED
    BY <2>2, <2>3, <2>4 DEF TypeOK, agentVars, serverVars
<1>14. ASSUME NEW c \in Conns, Wake(c) PROVE TypeOK'
  BY <1>14 DEF Wake, TypeOK, Pcs, agentVars, serverVars, Dialled
<1>15. ASSUME HttpAnswer PROVE TypeOK'
  BY <1>15 DEF HttpAnswer, TypeOK, Pcs, agentVars, serverVars, Fault
<1>16. ASSUME Elapse PROVE TypeOK'
  <2>1. /\ recent' = FALSE
        /\ UNCHANGED <<conn, status, failed, looping, pc, await, stop, reply,
                       reader, link, up, handler, isLogin, holder, faults>>
    BY <1>16 DEF Elapse, serverVars
  <2> QED
    BY <2>1 DEF TypeOK
<1>17. ASSUME NEW c \in Conns, Serve(c) PROVE TypeOK'
  <2>1. up[c] \in Seq(Frames) /\ up[c] # <<>>
    BY <1>17 DEF Serve, TypeOK
  <2>2. Tail(up[c]) \in Seq(Frames) /\ Head(up[c]) \in Frames
    BY <2>1, TailFrames
  <2>3. up' \in [Conns -> Seq(Frames)]
    BY <1>17, <2>2 DEF Serve, TypeOK
  <2>4. reply' \in {"none", "success", "notLogin"}
    BY <1>17 DEF Serve, ServerReply, TypeOK
  <2> QED
    BY <1>17, <2>3, <2>4 DEF Serve, TypeOK, agentVars
<1>18. ASSUME NEW c \in Conns, HandlerEnds(c) PROVE TypeOK'
  BY <1>18 DEF HandlerEnds, TypeOK, Pcs, agentVars, serverVars, Dead, Unread
<1>19. ASSUME NEW c \in Conns, CheckOnline(c) PROVE TypeOK'
  BY <1>19
     DEF CheckOnline, TypeOK, Pcs, agentVars, serverVars, Fault, Dead, Unread
<1>20. ASSUME NEW c \in Conns, Break(c) PROVE TypeOK'
  BY <1>20 DEF Break, TypeOK, Pcs, agentVars, serverVars, Fault, Dead, Unread
<1>21. ASSUME LoopEnds PROVE TypeOK'
  BY <1>21 DEF LoopEnds, TypeOK, Pcs, serverVars
<1>22. ASSUME StopCancel PROVE TypeOK'
  <2>1. faults' \in 0 .. MaxFaults
    BY <1>22 DEF StopCancel, TypeOK
  <2>2. /\ stop' = "cancelled" /\ recent' = FALSE
        /\ UNCHANGED <<conn, status, failed, looping, pc, await, reply, reader,
                       link, up, handler, isLogin, holder>>
    BY <1>22 DEF StopCancel, serverVars
  <2> QED
    BY <2>1, <2>2 DEF TypeOK
<1>23. ASSUME StopClose PROVE TypeOK'
  <2>1. link' \in [Conns -> {"none", "open", "dead", "eof", "closed"}]
        /\ pc' \in Pcs
    BY <1>23 DEF StopClose, TypeOK, Pcs
  <2> QED
    BY <1>23, <2>1 DEF StopClose, TypeOK, serverVars
<1>24. CASE UNCHANGED vars
  BY <1>24 DEF vars, TypeOK, agentVars, serverVars
<1> QED
  BY <1>1, <1>2, <1>3, <1>4, <1>5, <1>6, <1>7, <1>8, <1>9, <1>10, <1>11,
     <1>12, <1>13, <1>14, <1>15, <1>16, <1>17, <1>18, <1>19, <1>20, <1>21,
     <1>22, <1>23, <1>24
     DEF Next, Run, Receive
-----------------------------------------------------------------------------
(* The safety properties *)

LEMMA SafeInit == Init => Safe
BY NoConnFresh
   DEF Init, Safe, LiveFrames, LiveReply, Dialling, Dialled, Believes,
       AbandonedIsBroken, Waiting

LEMMA SafeNext == IInv /\ [Next]_vars => Safe'
<1> SUFFICES ASSUME TypeOK, Safe, [Next]_vars PROVE Safe'
  BY DEF IInv
<1>0. /\ LiveFrames /\ LiveReply /\ Dialling
      /\ Dialled /\ Believes /\ AbandonedIsBroken
  BY DEF Safe
<1>1. ASSUME Tick PROVE Safe'
  BY <1>0, <1>1
     DEF Tick, TypeOK, agentVars, serverVars, Safe, LiveFrames, LiveReply,
         Dialling, Dialled, Believes, AbandonedIsBroken, Waiting
<1>2. ASSUME NEW c \in Conns, Connect(c) PROVE Safe'
  BY <1>0, <1>2, NoConnFresh
     DEF Connect, TypeOK, agentVars, serverVars, Forgotten, Safe, LiveFrames,
         LiveReply, Dialling, Dialled, Believes, AbandonedIsBroken, Waiting
<1>3. ASSUME ConnectFails PROVE Safe'
  BY <1>0, <1>3, EndedFacts
     DEF ConnectFails, TypeOK, agentVars, serverVars, Safe, LiveFrames,
         LiveReply, Dialling, Dialled, Believes, AbandonedIsBroken, Waiting
<1>4. ASSUME Send PROVE Safe'
  BY <1>0, <1>4
     DEF Send, TypeOK, agentVars, serverVars, Safe, LiveFrames, LiveReply,
         Dialling, Dialled, Believes, AbandonedIsBroken, Waiting
<1>5. ASSUME SendFails PROVE Safe'
  BY <1>0, <1>5, FailedFacts
     DEF SendFails, TypeOK, agentVars, serverVars, Safe, LiveFrames,
         LiveReply, Dialling, Dialled, Believes, AbandonedIsBroken, Waiting
<1>6. ASSUME SendTimesOut PROVE Safe'
  BY <1>0, <1>6, FailedFacts
     DEF SendTimesOut, TypeOK, agentVars, serverVars, Safe, LiveFrames,
         LiveReply, Dialling, Dialled, Believes, AbandonedIsBroken, Waiting
<1>7. ASSUME Select PROVE Safe'
  BY <1>0, <1>7
     DEF Select, TypeOK, agentVars, serverVars, Safe, LiveFrames, LiveReply,
         Dialling, Dialled, Believes, AbandonedIsBroken, Waiting
<1>8. ASSUME Timeout PROVE Safe'
  BY <1>0, <1>8, FailedFacts, ForgetFacts
     DEF Timeout, TypeOK, agentVars, serverVars, Safe, LiveFrames, LiveReply,
         Dialling, Dialled, Believes, AbandonedIsBroken, Waiting
<1>9. ASSUME NEW c \in Conns, Deliver(c) PROVE Safe'
  <2>1. LiveFrames' /\ LiveReply'
    BY <1>9, ForgetFacts DEF Deliver, LiveFrames, LiveReply
  <2>2. Dialled'
    BY <1>0, <1>9 DEF Deliver, Loop, Dialled, TypeOK
  <2>3. conn \in Conns /\ (await = "login" => reply = "success")
    BY <1>0, <1>9 DEF Deliver, TypeOK, Dialling, LiveReply
  <2>4. CASE await = "login"
    BY <1>0, <2>1, <2>2, <2>3, <2>4, <1>9
       DEF Deliver, Answered, LoggedIn, TypeOK, serverVars, Safe, LiveReply,
           Dialling, Believes, AbandonedIsBroken
  <2>5. CASE await = "hb"
    <3> DEFINE st == IF reply = "success" THEN "ok" ELSE "notLogin"
    <3>1. Ended(st) /\ looping' = looping
      BY <2>5, <1>9 DEF Deliver, Answered
    <3>2. st \in {"notLogin", "ok"} /\ (st = "ok" => isLogin[conn])
      BY <1>0 DEF LiveReply
    <3> HIDE DEF st
    <3>3. /\ pc' = "timer" /\ status' \in {"notConnect", st}
          /\ \A d \in Conns : link'[d] = "open" => link[d] = "open"
          /\ status' = "notConnect" => link'[conn] # "open"
      BY <2>3, <3>1, <3>2, EndedFacts
    <3>4. looping
      BY <1>0, <2>5 DEF Dialling
    <3>5. conn' = conn /\ isLogin' = isLogin /\ looping' = looping
      BY <3>1, <1>9 DEF Deliver, serverVars
    <3>6. Dialling'
      BY <2>3, <3>2, <3>3, <3>4, <3>5 DEF Dialling
    <3>7. Believes'
      BY <2>3, <3>2, <3>3, <3>5 DEF Believes
    <3>8. AbandonedIsBroken'
      BY <1>0, <3>3, <3>5 DEF AbandonedIsBroken
    <3> QED
      BY <2>1, <2>2, <3>6, <3>7, <3>8 DEF Safe
  <2> QED
    BY <2>4, <2>5 DEF TypeOK
<1>10. ASSUME NEW c \in Conns, DeliverEarly(c) PROVE Safe'
  BY <1>0, <1>10
     DEF DeliverEarly, Loop, TypeOK, agentVars, serverVars, Safe, LiveFrames,
         LiveReply, Dialling, Dialled, Believes, AbandonedIsBroken, Waiting
<1>11. ASSUME NEW c \in Conns, Garble(c) PROVE Safe'
  BY <1>0, <1>11
     DEF Garble, TypeOK, agentVars, serverVars, Safe, LiveFrames, LiveReply,
         Dialling, Dialled, Believes, AbandonedIsBroken, Waiting
<1>12. ASSUME NEW c \in Conns, ReadFails(c) PROVE Safe'
  <2>0. PICK d \in Conns :
           /\ reader[c] = d
           /\ \/ link' = link
              \/ link[d] = "dead" /\ link' = [link EXCEPT ![d] = "eof"]
    BY <1>12 DEF ReadFails
  <2>1. \A e \in Conns : (link'[e] = "open") <=> (link[e] = "open")
    BY <2>0 DEF TypeOK
  <2>2. Dialled'
    BY <1>0, <2>0, <1>12, ConnsFresh DEF ReadFails, Dialled, agentVars
  <2> QED
    BY <1>0, <2>1, <2>2, <1>12
       DEF ReadFails, TypeOK, agentVars, serverVars, Safe, LiveFrames,
           LiveReply, Dialling, Dialled, Believes, AbandonedIsBroken, Waiting
<1>13. ASSUME NEW c \in Conns, ReadTimesOut(c) PROVE Safe'
  BY <1>0, <1>13, NoConnFresh
     DEF ReadTimesOut, TypeOK, agentVars, serverVars, Safe, LiveFrames,
         LiveReply, Dialling, Dialled, Believes, AbandonedIsBroken, Waiting
<1>14. ASSUME NEW c \in Conns, Wake(c) PROVE Safe'
  BY <1>0, <1>14
     DEF Wake, TypeOK, agentVars, serverVars, Safe, LiveFrames, LiveReply,
         Dialling, Dialled, Believes, AbandonedIsBroken, Waiting
<1>15. ASSUME HttpAnswer PROVE Safe'
  BY <1>0, <1>15
     DEF HttpAnswer, TypeOK, agentVars, serverVars, Safe, LiveFrames,
         LiveReply, Dialling, Dialled, Believes, AbandonedIsBroken, Waiting
<1>16. ASSUME Elapse PROVE Safe'
  BY <1>0, <1>16
     DEF Elapse, TypeOK, agentVars, serverVars, Safe, LiveFrames, LiveReply,
         Dialling, Dialled, Believes, AbandonedIsBroken, Waiting
<1>17. ASSUME NEW c \in Conns, Serve(c) PROVE Safe'
  <2>1. up[c] \in Seq(Frames) /\ up[c] # <<>>
    BY <1>17 DEF Serve, TypeOK
  <2>2. up' = [up EXCEPT ![c] = Tail(up[c])]
    BY <1>17 DEF Serve
  <2>3. \A d \in Conns : \A i \in DOMAIN up'[d] :
           \E j \in DOMAIN up[d] : up'[d][i] = up[d][j]
    BY <2>1, <2>2, TailFrames DEF TypeOK
  <2>4. LiveFrames'
    BY <1>0, <2>3, <1>17 DEF Serve, LiveFrames, Waiting, agentVars
  <2>5. isLogin' \in [Conns -> BOOLEAN] /\ \A d \in Conns : isLogin[d] => isLogin'[d]
    BY <1>17 DEF Serve, TypeOK
  <2>6. LiveReply'
    <3>1. CASE ~(Head(up[c]).live /\ link[c] = "open")
      BY <1>0, <2>5, <3>1, <1>17 DEF Serve, LiveReply, Waiting, agentVars
    <3>2. CASE Head(up[c]).live /\ link[c] = "open"
      <4>1. Waiting /\ c = conn /\ Head(up[c]).kind = await
        BY <1>0, <2>1, <3>2, TailFrames DEF LiveFrames
      <4>2. reply' = ServerReply(c, Head(up[c]).kind)
        BY <3>2, <1>17 DEF Serve
      <4>3. reply' = "success" => isLogin'[conn]
        BY <4>1, <4>2, <1>17 DEF Serve, ServerReply, TypeOK
      <4>4. reply' = "notLogin" => await = "hb"
        BY <4>1, <4>2 DEF ServerReply, TypeOK
      <4> QED
        BY <4>1, <4>3, <4>4, <1>17 DEF Serve, LiveReply, Waiting, agentVars
    <3> QED  BY <3>1, <3>2
  <2> QED
    BY <1>0, <2>4, <2>5, <2>6, <1>17
       DEF Serve, Safe, Dialling, Dialled, Believes, AbandonedIsBroken,
           agentVars
<1>18. ASSUME NEW c \in Conns, HandlerEnds(c) PROVE Safe'
  BY <1>0, <1>18
     DEF HandlerEnds, TypeOK, agentVars, serverVars, Dead, Unread, Safe,
         LiveFrames, LiveReply, Dialling, Dialled, Believes,
         AbandonedIsBroken, Waiting
<1>19. ASSUME NEW c \in Conns, CheckOnline(c) PROVE Safe'
  BY <1>0, <1>19
     DEF CheckOnline, TypeOK, agentVars, serverVars, Dead, Unread, Safe,
         LiveFrames, LiveReply, Dialling, Dialled, Believes,
         AbandonedIsBroken, Waiting
<1>20. ASSUME NEW c \in Conns, Break(c) PROVE Safe'
  BY <1>0, <1>20
     DEF Break, TypeOK, agentVars, serverVars, Dead, Unread, Safe, LiveFrames,
         LiveReply, Dialling, Dialled, Believes, AbandonedIsBroken, Waiting
<1>21. ASSUME LoopEnds PROVE Safe'
  BY <1>0, <1>21
     DEF LoopEnds, TypeOK, serverVars, Safe, LiveFrames, LiveReply, Dialling,
         Dialled, Believes, AbandonedIsBroken, Waiting
<1>22. ASSUME StopCancel PROVE Safe'
  BY <1>0, <1>22
     DEF StopCancel, TypeOK, serverVars, Safe, LiveFrames, LiveReply, Dialling,
         Dialled, Believes, AbandonedIsBroken, Waiting
<1>23. ASSUME StopClose PROVE Safe'
  <2>1. /\ UNCHANGED <<conn, status, failed, recent, looping, await, reply,
                       reader, up, serverVars, faults>>
        /\ \A c \in Conns : link'[c] = "open" => link[c] = "open"
        /\ pc' = pc \/ (pc' = "exit" /\ conn = NoConn)
    BY <1>23 DEF StopClose, TypeOK
  <2>2. pc' = "exit" /\ conn = NoConn => ~Waiting
    BY <1>0, NoConnFresh DEF Dialling, Waiting
  <2>3. stop' = "closed"
    BY <1>23 DEF StopClose
  <2>4. LiveFrames' /\ LiveReply'
    BY <1>0, <2>1, <2>2 DEF LiveFrames, LiveReply, Waiting, serverVars
  <2> QED
    BY <1>0, <2>1, <2>3, <2>4
       DEF Safe, Dialling, Dialled, Believes, AbandonedIsBroken, serverVars
<1>24. CASE UNCHANGED vars
  BY <1>0, <1>24
     DEF vars, agentVars, serverVars, Safe, LiveFrames, LiveReply, Dialling,
         Dialled, Believes, AbandonedIsBroken, Waiting
<1> QED
  BY <1>1, <1>2, <1>3, <1>4, <1>5, <1>6, <1>7, <1>8, <1>9, <1>10, <1>11,
     <1>12, <1>13, <1>14, <1>15, <1>16, <1>17, <1>18, <1>19, <1>20, <1>21,
     <1>22, <1>23, <1>24
  DEF Next, Run, Receive

-----------------------------------------------------------------------------
(* The server's table *)

LEMMA ServerInit == Init => ServerFits
BY DEF Init, ServerFits

\* Whatever the agent does to its connections, it opens none but in Connect.
LEMMA ServerQuiet ==
  ASSUME ServerFits, UNCHANGED serverVars,
         \A c \in Conns : link'[c] = "open" => link[c] = "open"
  PROVE  ServerFits'
BY DEF ServerFits, serverVars

LEMMA ServerNext == IInv /\ [Next]_vars => ServerFits'
<1> SUFFICES ASSUME TypeOK, ServerFits, [Next]_vars PROVE ServerFits'
  BY DEF IInv
<1>1. ASSUME NEW c \in Conns, Connect(c) PROVE ServerFits'
  <2>1. /\ holder' = holder /\ holder # c
        /\ link' = [link EXCEPT ![c] = "open"]
        /\ handler' = [handler EXCEPT ![c] = TRUE]
        /\ isLogin' = [isLogin EXCEPT ![c] = FALSE]
    BY <1>1, NoConnFresh DEF Connect, Forgotten, ServerFits
  <2> QED
    BY <2>1 DEF ServerFits, TypeOK
<1>2. ASSUME NEW c \in Conns, Serve(c) PROVE ServerFits'
  <2>1. CASE Head(up[c]).kind = "login" /\ holder = NoConn
    BY <1>2, <2>1, NoConnFresh DEF Serve, ServerFits, TypeOK
  <2>2. CASE ~(Head(up[c]).kind = "login" /\ holder = NoConn)
    BY <1>2, <2>2 DEF Serve, ServerFits
  <2> QED  BY <2>1, <2>2
<1>3. ASSUME NEW c \in Conns, HandlerEnds(c) PROVE ServerFits'
  <2> DEFINE closed == IF isLogin[c] THEN {c, holder} ELSE {c}
  <2>1. /\ handler' = [d \in Conns |-> handler[d] /\ d \notin closed]
        /\ \A d \in Conns : link'[d] = "open" =>
              link[d] = "open" /\ d \notin closed
        /\ holder' = IF isLogin[c] THEN NoConn ELSE holder
        /\ isLogin' = isLogin
    BY <1>3 DEF HandlerEnds, Dead
  <2>2. CASE isLogin[c]
    BY <2>1, <2>2 DEF ServerFits
  <2>3. CASE ~isLogin[c]
    BY <2>1, <2>3 DEF ServerFits, TypeOK
  <2> QED  BY <2>2, <2>3
<1>4. ASSUME NEW c \in Conns, CheckOnline(c) PROVE ServerFits'
  <2>1. /\ holder = c /\ holder' = NoConn
        /\ \A d \in Conns : link'[d] = "open" => link[d] = "open" /\ d # c
        /\ UNCHANGED <<handler, isLogin>>
    BY <1>4 DEF CheckOnline, Dead
  <2> QED
    BY <2>1 DEF ServerFits
<1>5. ASSUME NEW c \in Conns, Break(c) PROVE ServerFits'
  <2>1. \A d \in Conns : link'[d] = "open" => link[d] = "open"
    BY <1>5 DEF Break, Dead
  <2> QED
    BY <1>5, <2>1, ServerQuiet DEF Break
<1>6. ASSUME NEW c \in Conns, Receive(c) \/ DeliverEarly(c) \/ ReadTimesOut(c)
      PROVE  ServerFits'
  <2>1. CASE Deliver(c)
    <3>1. UNCHANGED serverVars BY <2>1 DEF Deliver
    <3>2. CASE await = "login"
      <4>1. link' = link BY <2>1, <3>2 DEF Deliver, Answered, LoggedIn
      <4> QED  BY <3>1, <4>1, ServerQuiet
    <3>3. CASE await # "login"
      <4>1. Ended("ok") \/ Ended("notLogin")
        BY <2>1, <3>3 DEF Deliver, Answered
      <4> QED  BY <3>1, <4>1, EndedFacts, ServerQuiet
    <3> QED  BY <3>2, <3>3
  <2>2. CASE ReadFails(c)
    <3>1. \A d \in Conns : link'[d] = "open" => link[d] = "open"
      BY <2>2 DEF ReadFails, TypeOK
    <3> QED
      BY <2>2, <3>1, ServerQuiet DEF ReadFails
  <2>3. CASE Garble(c) \/ Wake(c) \/ DeliverEarly(c) \/ ReadTimesOut(c)
    BY <2>3, ServerQuiet DEF Garble, Wake, DeliverEarly, ReadTimesOut
  <2> QED
    BY <1>6, <2>1, <2>2, <2>3 DEF Receive
<1>7. CASE ConnectFails
  <2>1. \A d \in Conns : link'[d] = "open" => link[d] = "open"
    BY <1>7, EndedFacts DEF ConnectFails
  <2> QED
    BY <1>7, <2>1, ServerQuiet DEF ConnectFails
<1>8. CASE SendFails \/ SendTimesOut \/ Timeout
  <2>1. Failed("notConnect") \/ Failed("error")
    BY <1>8 DEF SendFails, SendTimesOut, Timeout
  <2> QED
    BY <1>8, <2>1, FailedFacts, ServerQuiet DEF SendFails, SendTimesOut, Timeout
<1>9. CASE StopClose
  <2>1. \A d \in Conns : link'[d] = "open" => link[d] = "open"
    BY <1>9 DEF StopClose, TypeOK
  <2> QED
    BY <1>9, <2>1, ServerQuiet DEF StopClose
<1>10. CASE Tick \/ LoopEnds \/ Send \/ Select \/ HttpAnswer \/ Elapse
               \/ StopCancel \/ UNCHANGED vars
  <2>1. UNCHANGED <<link, serverVars>>
    BY <1>10 DEF Tick, LoopEnds, Send, Select, HttpAnswer, Elapse, StopCancel,
                 vars
  <2> QED
    BY <2>1, ServerQuiet
<1> QED
  BY ONLY <1>1, <1>2, <1>3, <1>4, <1>5, <1>6, <1>7, <1>8, <1>9, <1>10,
     [Next]_vars
  DEF Next, Run

\* The inductive invariant holds in every reachable state.
THEOREM Invariance == Spec => []IInv
<1>1. Init => IInv
  BY TypeInit, SafeInit, ServerInit DEF IInv
<1>2. IInv /\ [Next]_vars => IInv'
  BY TypeNext, SafeNext, ServerNext DEF IInv, Safe
<1> QED
  BY <1>1, <1>2, PTL DEF Spec

\* Types: failedTime never reaches the limit between two heartbeats.
THEOREM TypeCorrect == Spec => []TypeOK
<1>1. IInv => TypeOK
  BY DEF IInv
<1> QED  BY <1>1, Invariance, PTL

\* status ok means that the server has logged in p.conn and sends requests to it
\* until it is lost, for any number of connections, faults and interleavings.
THEOREM BeliefIsRight == Spec => []OkMeansLoggedIn
<1>1. IInv => OkMeansLoggedIn
  BY DEF IInv, Safe, Believes, ServerFits, OkMeansLoggedIn
<1> QED  BY <1>1, Invariance, PTL

\* The agent dials only when the connection before is closed or broken.
THEOREM NoneLeftBehind == Spec => []AbandonedIsBroken
<1>1. IInv => AbandonedIsBroken
  BY DEF IInv, Safe
<1> QED  BY <1>1, Invariance, PTL

\* The server's entry never outlives its handler: its holder was logged in, and
\* has a handler that will remove the entry.  A login that is refused because of
\* an old connection rests on this when it is tried again.
THEOREM EntriesHaveHandlers ==
    Spec => [](holder # NoConn => handler[holder] /\ isLogin[holder])
<1>1. IInv => (holder # NoConn => handler[holder] /\ isLogin[holder])
  BY DEF IInv, ServerFits
<1> QED  BY <1>1, Invariance, PTL
=============================================================================
