------------------------ MODULE ClientRegistryProofs ------------------------
(***************************************************************************)
(* The safety properties of ClientRegistry hold for any connections, names *)
(* and bound on replies.  Remove goes by name, so whether it closes the    *)
(* right connection, or one that is closed already, depends on what the    *)
(* other goroutines of the same name have done before: the parts of IInv   *)
(* tie the entry of the table, the flags of the connection and the number  *)
(* of its checkOnline goroutines to each other.                            *)
(***************************************************************************)
EXTENDS ClientRegistry, TLAPS

\* The frames a connection carries decide whether it is a websocket one.
FramesFit ==
    \A c \in Conns :
        /\ msg[c] \in Frames(c) \cup {"none"}
        /\ isWebsocket[c] => c \in WsConns

\* What an entry of the table says of the connection it holds; a closed
\* connection is in the table only if it was added again after its removal.
EntriesFit ==
    \A n \in Names :
        clients[n] # NoConn =>
            /\ NameOf[clients[n]] = n
            /\ isLogin[clients[n]]
            /\ clients[n] \notin WsConns
            /\ pc[clients[n]] \notin {"idle", "done"}
            /\ Len(watchers[clients[n]]) >= 1
            /\ closed[clients[n]] => Len(watchers[clients[n]]) >= 2

\* Nobody else closes a connection that never logged in.
ClosedFit ==
    \A c \in Conns :
        closed[c] /\ pc[c] # "done" => isLogin[c] /\ Len(watchers[c]) >= 1

\* One watcher per Add; a second Add finds the connection closed, and then
\* its handler receives no third login.
WatchersFit ==
    \A c \in Conns :
        /\ Len(watchers[c]) >= 1 => isLogin[c] /\ c \notin WsConns
        /\ Len(watchers[c]) >= 2 => closed[c] /\ pc[c] # "serve"
        /\ Len(watchers[c]) <= 2

\* Receive left room for the reply of the frame being served.
ReplySlotFree == \A c \in Conns : pc[c] = "serve" => replies[c] < MaxReplies

DoneIsClosed == \A c \in Conns \ WsConns : pc[c] = "done" => closed[c]

IInv ==
    /\ TypeOK
    /\ FramesFit
    /\ ReplySlotFree
    /\ EntriesFit
    /\ OpenSessionIsRegistered
    /\ ClosedFit
    /\ WatchersFit
    /\ RegisteredIsWatched
    /\ DoneIsClosed
    /\ PanicNeedsReAdd

USE WsConnsType, NameOfType, NoConnFresh, MaxRepliesType
USE DEF At, WatcherAt, Goto, Registered, Frames, AllFrames, HandlerPcs,
        WatcherPcs

-----------------------------------------------------------------------------
(* The inductive step *)

\* In the initial state no connection is accepted and the table is empty.
LEMMA InitIInv == Init => IInv
BY DEF Init, IInv, TypeOK, FramesFit, ReplySlotFree, EntriesFit,
       OpenSessionIsRegistered, ClosedFit, WatchersFit, RegisteredIsWatched,
       DoneIsClosed, PanicNeedsReAdd

\* The reply goroutine Receive left room for.
LEMMA ReplyTypes ==
  ASSUME IInv, NEW c \in Conns, NEW where \in HandlerPcs, At(c, "serve"),
         Reply(c, where)
  PROVE  /\ replies' \in [Conns -> 0 .. MaxReplies]
         /\ msg' \in [Conns -> AllFrames]
         /\ pc' \in [Conns -> HandlerPcs]
         /\ \A d \in Conns :
               /\ pc'[d] = IF d = c THEN where ELSE pc[d]
               /\ msg'[d] = IF d = c THEN "none" ELSE msg[d]
               /\ d # c => replies'[d] = replies[d]
<1>1. replies[c] + 1 \in 0 .. MaxReplies
  BY DEF IInv, TypeOK, ReplySlotFree
<1> QED
  BY <1>1 DEF IInv, TypeOK, Reply

\* Adding c keeps the table and the flags consistent: c may have been removed
\* while its login was on the way, and then it is closed.
LEMMA LoginIInv == ASSUME IInv, NEW c \in Conns, Login(c) PROVE IInv'
<1>1. At(c, "serve") /\ Reply(c, "recv") /\ msg[c] = "login"
  BY DEF Login
<1>2. /\ replies' \in [Conns -> 0 .. MaxReplies]
      /\ msg' \in [Conns -> AllFrames]
      /\ pc' \in [Conns -> HandlerPcs]
      /\ \A d \in Conns :
            /\ pc'[d] = IF d = c THEN "recv" ELSE pc[d]
            /\ msg'[d] = IF d = c THEN "none" ELSE msg[d]
            /\ d # c => replies'[d] = replies[d]
  BY <1>1, ReplyTypes
<1>3. UNCHANGED <<isWebsocket, closed, lapsed, stop, alive>> /\ Add(c)
  BY DEF Login
<1>4. c \notin WsConns
  BY <1>1 DEF IInv, TypeOK, FramesFit
<1>5. (FramesFit /\ ReplySlotFree /\ DoneIsClosed)'
  BY <1>2, <1>3
     DEF IInv, TypeOK, FramesFit, ReplySlotFree, DoneIsClosed
<1>6. CASE clients[NameOf[c]] # NoConn
  <2>1. UNCHANGED <<clients, isLogin, watchers>>
    BY <1>3, <1>6 DEF Add
  <2>2. (TypeOK /\ PanicNeedsReAdd)'
    BY <1>2, <1>3, <2>1 DEF IInv, TypeOK, PanicNeedsReAdd
  <2>3. (EntriesFit /\ OpenSessionIsRegistered /\ RegisteredIsWatched)'
    BY <1>2, <1>3, <2>1
       DEF IInv, TypeOK, EntriesFit, OpenSessionIsRegistered, RegisteredIsWatched
  <2>4. (ClosedFit /\ WatchersFit)'
    BY <1>1, <1>2, <1>3, <2>1 DEF IInv, TypeOK, ClosedFit, WatchersFit
  <2> QED  BY <1>5, <2>2, <2>3, <2>4 DEF IInv
<1>7. CASE clients[NameOf[c]] = NoConn
  <2>1. /\ clients' = [clients EXCEPT ![NameOf[c]] = c]
        /\ isLogin' = [isLogin EXCEPT ![c] = TRUE]
        /\ watchers' = [watchers EXCEPT ![c] = Append(watchers[c], "select")]
    BY <1>3, <1>7 DEF Add
  <2>2. \A n \in Names :
           clients'[n] = IF n = NameOf[c] THEN c ELSE clients[n]
    BY <2>1 DEF IInv, TypeOK
  <2>3. \A d \in Conns : isLogin'[d] <=> (d = c \/ isLogin[d])
    BY <2>1 DEF IInv, TypeOK
  <2>4. watchers[c] \in Seq(WatcherPcs) /\ Len(watchers[c]) \in Nat
    BY DEF IInv, TypeOK
  <2>5. /\ \A d \in Conns \ {c} : watchers'[d] = watchers[d]
        /\ watchers'[c] = Append(watchers[c], "select")
        /\ watchers' \in [Conns -> Seq(WatcherPcs)]
    BY <2>1, <2>4 DEF IInv, TypeOK
  <2>6. /\ Len(watchers'[c]) \in Nat
        /\ Len(watchers'[c]) > Len(watchers[c])
        /\ Len(watchers'[c]) <= Len(watchers[c]) + 1
        /\ Len(watchers[c]) + 1 \in DOMAIN watchers'[c]
        /\ watchers'[c][Len(watchers[c]) + 1] = "select"
    BY <2>4, <2>5
  <2>7. Len(watchers[c]) >= 1 => closed[c]
    <3>1. isLogin[c] => closed[c]
      BY <1>4, <1>7, NoConnFresh DEF IInv, TypeOK, OpenSessionIsRegistered
    <3> QED  BY <3>1 DEF IInv, TypeOK, WatchersFit
  <2>8. (closed[c] => Len(watchers[c]) >= 1) /\ Len(watchers[c]) < 2
    <3>1. pc[c] = "serve" /\ pc[c] # "done"
      BY <1>1
    <3>2. ~(Len(watchers[c]) >= 2)
      BY <3>1 DEF IInv, TypeOK, WatchersFit
    <3> QED  BY <2>4, <3>1, <3>2 DEF IInv, TypeOK, ClosedFit
  <2>9. (TypeOK /\ PanicNeedsReAdd)'
    <3>1. clients' \in [Names -> Conns \cup {NoConn}]
      BY <2>1 DEF IInv, TypeOK
    <3>2. isLogin' \in [Conns -> BOOLEAN]
      BY <2>1 DEF IInv, TypeOK
    <3> QED
      BY <1>1, <1>2, <1>3, <2>5, <3>1, <3>2 DEF IInv, TypeOK, PanicNeedsReAdd
  <2>10. EntriesFit'
    <3> SUFFICES ASSUME NEW n \in Names, clients'[n] # NoConn
                 PROVE  LET d == clients'[n]
                        IN  /\ NameOf[d] = n /\ isLogin'[d] /\ d \notin WsConns
                            /\ pc'[d] \notin {"idle", "done"}
                            /\ Len(watchers'[d]) >= 1
                            /\ closed[d] => Len(watchers'[d]) >= 2
      BY <1>3 DEF EntriesFit
    <3>1. CASE n = NameOf[c]
      <4>1. clients'[n] = c
        BY <2>2, <3>1
      <4>2. Len(watchers'[c]) >= 1 /\ (closed[c] => Len(watchers'[c]) >= 2)
        BY <2>4, <2>6, <2>8
      <4> QED  BY <1>2, <1>4, <2>3, <3>1, <4>1, <4>2
    <3>2. CASE n # NameOf[c]
      <4>1. clients'[n] = clients[n] /\ clients[n] \in Conns \ {c}
        BY <2>2, <3>2 DEF IInv, TypeOK, EntriesFit
      <4> QED
        BY <1>2, <2>3, <2>5, <4>1 DEF IInv, TypeOK, EntriesFit
    <3> QED  BY <3>1, <3>2
  <2>11. OpenSessionIsRegistered'
    <3>1. \A d \in Conns \ WsConns :
             isLogin[d] /\ ~closed[d] => NameOf[d] # NameOf[c]
      BY <1>7 DEF IInv, TypeOK, OpenSessionIsRegistered
    <3> QED
      BY <1>3, <2>2, <2>3, <3>1 DEF IInv, TypeOK, OpenSessionIsRegistered
  <2>12. ClosedFit'
    <3> SUFFICES ASSUME NEW d \in Conns, closed[d], pc'[d] # "done"
                 PROVE  isLogin'[d] /\ Len(watchers'[d]) >= 1
      BY <1>3 DEF ClosedFit
    <3>1. CASE d = c
      <4>1. isLogin'[c]
        BY <2>3
      <4>2. Len(watchers'[c]) >= 1
        BY <2>4, <2>6
      <4> QED  BY <3>1, <4>1, <4>2
    <3>2. CASE d # c
      BY <1>2, <2>3, <2>5, <3>2 DEF IInv, TypeOK, ClosedFit
    <3> QED  BY <3>1, <3>2
  <2>13. WatchersFit'
    <3> SUFFICES ASSUME NEW d \in Conns
                 PROVE  /\ Len(watchers'[d]) >= 1 =>
                             isLogin'[d] /\ d \notin WsConns
                        /\ Len(watchers'[d]) >= 2 =>
                             closed[d] /\ pc'[d] # "serve"
                        /\ Len(watchers'[d]) <= 2
      BY <1>3 DEF WatchersFit
    <3>1. CASE d = c
      <4>1. isLogin'[c] /\ c \notin WsConns /\ pc'[c] # "serve"
        BY <1>2, <1>4, <2>3
      <4>2. Len(watchers'[c]) <= 2
        BY <2>4, <2>6, <2>8
      <4>3. Len(watchers'[c]) >= 2 => closed[c]
        BY <2>4, <2>6, <2>7
      <4> QED  BY <3>1, <4>1, <4>2, <4>3
    <3>2. CASE d # c
      BY <1>2, <2>3, <2>5, <3>2 DEF IInv, TypeOK, WatchersFit
    <3> QED  BY <3>1, <3>2
  <2>14. RegisteredIsWatched'
    <3> SUFFICES ASSUME NEW n \in Names, clients'[n] # NoConn,
                        ~closed[clients'[n]]
                 PROVE  \E i \in DOMAIN watchers'[clients'[n]] :
                           watchers'[clients'[n]][i] # "exit"
      BY <1>3 DEF RegisteredIsWatched
    <3>1. CASE clients'[n] = c
      BY <2>6, <3>1
    <3>2. CASE clients'[n] # c
      <4>1. clients'[n] = clients[n] /\ clients[n] \in Conns \ {c}
        BY <2>2, <3>2 DEF IInv, TypeOK
      <4> QED  BY <2>5, <4>1 DEF IInv, RegisteredIsWatched
    <3> QED  BY <3>1, <3>2
  <2> QED  BY <1>5, <2>9, <2>10, <2>11, <2>12, <2>13, <2>14 DEF IInv
<1> QED  BY <1>6, <1>7

\* A websocket connection is flagged and stays out of the table.
LEMMA LoginWebsocketIInv ==
  ASSUME IInv, NEW c \in Conns, LoginWebsocket(c) PROVE IInv'
<1>1. At(c, "serve") /\ Reply(c, "drain")
  BY DEF LoginWebsocket
<1>2. /\ replies' \in [Conns -> 0 .. MaxReplies]
      /\ msg' \in [Conns -> AllFrames]
      /\ pc' \in [Conns -> HandlerPcs]
      /\ \A d \in Conns :
            /\ pc'[d] = IF d = c THEN "drain" ELSE pc[d]
            /\ msg'[d] = IF d = c THEN "none" ELSE msg[d]
            /\ d # c => replies'[d] = replies[d]
  BY <1>1, ReplyTypes
<1>3. /\ UNCHANGED <<clients, closed, lapsed, watchers, stop, alive>>
      /\ isLogin' = [isLogin EXCEPT ![c] = TRUE]
      /\ isWebsocket' = [isWebsocket EXCEPT ![c] = TRUE]
  BY DEF LoginWebsocket
<1>4. \A d \in Conns : /\ isLogin'[d] <=> (d = c \/ isLogin[d])
                       /\ isWebsocket'[d] <=> (d = c \/ isWebsocket[d])
  BY <1>3 DEF IInv, TypeOK
<1>5. c \in WsConns
  BY DEF LoginWebsocket, IInv, TypeOK, FramesFit
<1>6. TypeOK'
  BY <1>2, <1>3 DEF IInv, TypeOK
<1>7. (FramesFit /\ ReplySlotFree /\ DoneIsClosed)'
  BY <1>2, <1>3, <1>4, <1>5
     DEF IInv, TypeOK, FramesFit, ReplySlotFree, DoneIsClosed
<1>8. (EntriesFit /\ OpenSessionIsRegistered /\ RegisteredIsWatched)'
  BY <1>2, <1>3, <1>4, <1>5
     DEF IInv, TypeOK, EntriesFit, OpenSessionIsRegistered,
         RegisteredIsWatched
<1>9. (ClosedFit /\ WatchersFit /\ PanicNeedsReAdd)'
  BY <1>1, <1>2, <1>3, <1>4 DEF IInv, TypeOK, ClosedFit, WatchersFit, PanicNeedsReAdd
<1> QED  BY <1>6, <1>7, <1>8, <1>9 DEF IInv

\* A beat changes nothing but the clock.
LEMMA HeartbeatIInv == ASSUME IInv, NEW c \in Conns, Heartbeat(c) PROVE IInv'
<1>1. At(c, "serve") /\ Reply(c, "recv")
  BY DEF Heartbeat
<1>2. /\ replies' \in [Conns -> 0 .. MaxReplies]
      /\ msg' \in [Conns -> AllFrames]
      /\ pc' \in [Conns -> HandlerPcs]
      /\ \A d \in Conns :
            /\ pc'[d] = IF d = c THEN "recv" ELSE pc[d]
            /\ msg'[d] = IF d = c THEN "none" ELSE msg[d]
            /\ d # c => replies'[d] = replies[d]
  BY <1>1, ReplyTypes
<1>3. /\ UNCHANGED <<clients, isLogin, isWebsocket, closed, watchers, stop,
                      alive>>
      /\ lapsed' \in [Conns -> BOOLEAN]
  BY DEF Heartbeat, IInv, TypeOK
<1>4. TypeOK'
  BY <1>2, <1>3 DEF IInv, TypeOK
<1>5. (FramesFit /\ ReplySlotFree /\ DoneIsClosed /\ PanicNeedsReAdd)'
  BY <1>2, <1>3 DEF IInv, TypeOK, FramesFit, ReplySlotFree, DoneIsClosed,
     PanicNeedsReAdd
<1>6. (EntriesFit /\ OpenSessionIsRegistered /\ RegisteredIsWatched)'
  BY <1>2, <1>3 DEF IInv, TypeOK, EntriesFit, OpenSessionIsRegistered,
     RegisteredIsWatched
<1>7. (ClosedFit /\ WatchersFit)'
  BY <1>1, <1>2, <1>3 DEF IInv, TypeOK, ClosedFit, WatchersFit
<1> QED  BY <1>4, <1>5, <1>6, <1>7 DEF IInv

\* Removing a name closes one connection at most, the one the entry holds; it
\* panics only on a connection that was added twice.
LEMMA RemoveCloses ==
  ASSUME IInv, NEW n \in Names, Remove(n)
  PROVE  /\ clients' \in [Names -> Conns \cup {NoConn}]
         /\ \A m \in Names :
               clients'[m] = IF m = n THEN NoConn ELSE clients[m]
         /\ closed' \in [Conns -> BOOLEAN]
         /\ \A c \in Conns : closed'[c] <=> (closed[c] \/ clients[n] = c)
         /\ alive' \in BOOLEAN
         /\ ~alive' => ~alive \/ \E c \in Conns : Len(watchers[c]) > 1
<1>1. CASE clients[n] = NoConn
  BY <1>1 DEF Remove, IInv, TypeOK
<1>2. CASE clients[n] # NoConn
  <2> DEFINE d == clients[n]
  <2>1. /\ d \in Conns
        /\ closed[d] => Len(watchers[d]) > 1
    BY <1>2 DEF IInv, TypeOK, EntriesFit
  <2>2. /\ clients' = [clients EXCEPT ![n] = NoConn]
        /\ closed' = [closed EXCEPT ![d] = TRUE]
        /\ alive' = ~closed[d]
    BY <1>2 DEF Remove, Close
  <2>3. ~alive' => \E c \in Conns : Len(watchers[c]) > 1
    BY <2>1, <2>2 DEF IInv, TypeOK
  <2>4. alive' \in BOOLEAN
    BY <2>1, <2>2 DEF IInv, TypeOK
  <2>5. /\ clients' \in [Names -> Conns \cup {NoConn}]
        /\ \A m \in Names :
               clients'[m] = IF m = n THEN NoConn ELSE clients[m]
    BY <2>2 DEF IInv, TypeOK
  <2>6. /\ closed' \in [Conns -> BOOLEAN]
        /\ \A c \in Conns : closed'[c] <=> (closed[c] \/ d = c)
    BY <2>1, <2>2 DEF IInv, TypeOK
  <2> QED  BY <2>3, <2>4, <2>5, <2>6
<1> QED  BY <1>1, <1>2

\* The deferred clean-up: an open connection that logged in is still in the
\* table under its name, so going by name closes the right one.
LEMMA ExitIInv == ASSUME IInv, NEW c \in Conns, Exit(c) PROVE IInv'
<1>1. /\ UNCHANGED <<msg, replies, isLogin, isWebsocket, lapsed, watchers, stop>>
      /\ CleanUp(c)
      /\ alive
  BY DEF Exit
<1>2. /\ pc' \in [Conns -> HandlerPcs]
      /\ \A d \in Conns : pc'[d] = IF d = c THEN "done" ELSE pc[d]
  BY DEF IInv, TypeOK, Exit
<1>3. pc[c] = "exit"
  BY DEF Exit
<1>4. CASE isWebsocket[c]
  <2>1. UNCHANGED <<clients, closed, alive>> /\ c \in WsConns
    BY <1>1, <1>4 DEF CleanUp, IInv, TypeOK, FramesFit
  <2>2. (TypeOK /\ FramesFit /\ ReplySlotFree /\ PanicNeedsReAdd)'
    BY <1>1, <1>2, <2>1
       DEF IInv, TypeOK, FramesFit, ReplySlotFree, PanicNeedsReAdd
  <2>3. (EntriesFit /\ OpenSessionIsRegistered /\ RegisteredIsWatched)'
    BY <1>1, <1>2, <2>1
       DEF IInv, TypeOK, EntriesFit, OpenSessionIsRegistered,
           RegisteredIsWatched
  <2>4. (ClosedFit /\ WatchersFit /\ DoneIsClosed)'
    BY <1>1, <1>2, <2>1 DEF IInv, TypeOK, ClosedFit, WatchersFit, DoneIsClosed
  <2> QED  BY <2>2, <2>3, <2>4 DEF IInv
<1>5. CASE ~isWebsocket[c] /\ isLogin[c]
  <2>1. NameOf[c] \in Names /\ Remove(NameOf[c])
    BY <1>1, <1>5 DEF CleanUp
  <2>2. /\ clients' \in [Names -> Conns \cup {NoConn}]
        /\ \A m \in Names :
              clients'[m] = IF m = NameOf[c] THEN NoConn ELSE clients[m]
        /\ closed' \in [Conns -> BOOLEAN]
        /\ \A d \in Conns :
              closed'[d] <=> (closed[d] \/ clients[NameOf[c]] = d)
        /\ alive' \in BOOLEAN
        /\ ~alive' => ~alive \/ \E d \in Conns : Len(watchers[d]) > 1
    BY <2>1, RemoveCloses
  <2>3. (TypeOK /\ FramesFit /\ ReplySlotFree /\ PanicNeedsReAdd)'
    BY <1>1, <1>2, <2>2
       DEF IInv, TypeOK, FramesFit, ReplySlotFree, PanicNeedsReAdd
  <2>4. (EntriesFit /\ RegisteredIsWatched)'
    <3>1. \A n \in Names : clients[n] = c => n = NameOf[c]
      BY DEF IInv, TypeOK, EntriesFit
    <3>2. \A n \in Names : clients'[n] # NoConn =>
             /\ clients'[n] = clients[n]
             /\ clients[n] \in Conns \ {c}
             /\ clients[NameOf[c]] # clients[n]
      BY <2>1, <2>2, <3>1 DEF IInv, TypeOK, EntriesFit
    <3>3. \A n \in Names : clients'[n] # NoConn =>
             /\ closed'[clients[n]] <=> closed[clients[n]]
             /\ pc'[clients[n]] = pc[clients[n]]
      BY <1>2, <2>2, <3>2 DEF IInv, TypeOK
    <3>4. EntriesFit'
      <4> SUFFICES ASSUME NEW n \in Names, clients'[n] # NoConn
                   PROVE  LET d == clients'[n]
                          IN  /\ NameOf[d] = n /\ isLogin'[d] /\ d \notin WsConns
                              /\ pc'[d] \notin {"idle", "done"}
                              /\ Len(watchers'[d]) >= 1
                              /\ closed'[d] => Len(watchers'[d]) >= 2
        BY DEF EntriesFit
      <4> QED  BY <1>1, <3>2, <3>3 DEF IInv, TypeOK, EntriesFit
    <3>5. RegisteredIsWatched'
      BY <1>1, <3>2, <3>3 DEF IInv, TypeOK, RegisteredIsWatched
    <3> QED  BY <3>4, <3>5
  <2>5. OpenSessionIsRegistered'
    BY <1>1, <2>1, <2>2 DEF IInv, TypeOK, OpenSessionIsRegistered
  <2>6. DoneIsClosed'
    BY <1>1, <1>2, <1>5, <2>1, <2>2
       DEF IInv, TypeOK, OpenSessionIsRegistered, DoneIsClosed
  <2>7. ClosedFit'
    <3>1. \A d \in Conns : clients[NameOf[c]] = d =>
             isLogin[d] /\ Len(watchers[d]) >= 1
      BY <2>1 DEF IInv, TypeOK, EntriesFit
    <3> QED  BY <1>1, <1>2, <2>2, <3>1 DEF IInv, TypeOK, ClosedFit
  <2>8. WatchersFit'
    BY <1>1, <1>2, <2>2 DEF IInv, TypeOK, WatchersFit
  <2> QED  BY <2>3, <2>4, <2>5, <2>6, <2>7, <2>8 DEF IInv
<1>6. CASE ~isWebsocket[c] /\ ~isLogin[c]
  <2>1. Close(c) /\ UNCHANGED clients /\ ~closed[c]
    BY <1>1, <1>3, <1>6 DEF CleanUp, IInv, TypeOK, ClosedFit
  <2>2. /\ closed' \in [Conns -> BOOLEAN]
        /\ \A d \in Conns : closed'[d] <=> (closed[d] \/ d = c)
        /\ alive' = TRUE
    BY <2>1 DEF IInv, TypeOK, Close
  <2>3. \A n \in Names : clients[n] # c
    BY <1>6 DEF IInv, TypeOK, EntriesFit
  <2>4. (TypeOK /\ FramesFit /\ ReplySlotFree /\ PanicNeedsReAdd)'
    BY <1>1, <1>2, <2>1, <2>2
       DEF IInv, TypeOK, FramesFit, ReplySlotFree, PanicNeedsReAdd
  <2>5. (EntriesFit /\ OpenSessionIsRegistered /\ RegisteredIsWatched)'
    <3>1. \A n \in Names : clients[n] # NoConn =>
             /\ clients[n] \in Conns \ {c}
             /\ closed'[clients[n]] <=> closed[clients[n]]
             /\ pc'[clients[n]] = pc[clients[n]]
      BY <1>2, <2>2, <2>3 DEF IInv, TypeOK
    <3>2. EntriesFit'
      <4> SUFFICES ASSUME NEW n \in Names, clients'[n] # NoConn
                   PROVE  LET d == clients'[n]
                          IN  /\ NameOf[d] = n /\ isLogin'[d] /\ d \notin WsConns
                              /\ pc'[d] \notin {"idle", "done"}
                              /\ Len(watchers'[d]) >= 1
                              /\ closed'[d] => Len(watchers'[d]) >= 2
        BY DEF EntriesFit
      <4> QED  BY <1>1, <2>1, <3>1 DEF IInv, TypeOK, EntriesFit
    <3>3. OpenSessionIsRegistered'
      BY <1>1, <2>1, <2>2 DEF IInv, TypeOK, OpenSessionIsRegistered
    <3>4. RegisteredIsWatched'
      BY <1>1, <2>1, <3>1 DEF IInv, TypeOK, RegisteredIsWatched
    <3> QED  BY <3>2, <3>3, <3>4
  <2>6. (ClosedFit /\ DoneIsClosed)'
    BY <1>1, <1>2, <2>2 DEF IInv, TypeOK, ClosedFit, DoneIsClosed
  <2>7. WatchersFit'
    BY <1>1, <1>2, <2>2 DEF IInv, TypeOK, WatchersFit
  <2> QED  BY <2>4, <2>5, <2>6, <2>7 DEF IInv
<1> QED  BY <1>4, <1>5, <1>6

\* A watcher may remove a connection that is not its own; the name is free
\* afterwards either way.
LEMMA WatcherRemovesIInv ==
  ASSUME IInv, NEW c \in Conns, NEW i \in DOMAIN watchers[c],
         WatcherRemoves(c, i)
  PROVE  IInv'
<1>1. UNCHANGED <<pc, msg, replies, isLogin, isWebsocket, lapsed, stop>>
  BY DEF WatcherRemoves
<1>2. /\ watchers' \in [Conns -> Seq(WatcherPcs)]
      /\ \A d \in Conns : Len(watchers'[d]) = Len(watchers[d])
      /\ \A d \in Conns \ {c} : watchers'[d] = watchers[d]
  BY DEF IInv, TypeOK, WatcherRemoves
<1>3. NameOf[c] \in Names /\ Remove(NameOf[c])
  BY DEF WatcherRemoves
<1>4. /\ clients' \in [Names -> Conns \cup {NoConn}]
      /\ \A m \in Names :
            clients'[m] = IF m = NameOf[c] THEN NoConn ELSE clients[m]
      /\ closed' \in [Conns -> BOOLEAN]
      /\ \A d \in Conns :
            closed'[d] <=> (closed[d] \/ clients[NameOf[c]] = d)
      /\ alive' \in BOOLEAN
      /\ ~alive' => ~alive \/ \E d \in Conns : Len(watchers[d]) > 1
  BY <1>3, RemoveCloses
<1>5. (TypeOK /\ FramesFit /\ ReplySlotFree /\ PanicNeedsReAdd)'
  BY <1>1, <1>2, <1>4
     DEF IInv, TypeOK, FramesFit, ReplySlotFree, PanicNeedsReAdd
<1>6. (EntriesFit /\ RegisteredIsWatched)'
  <2>1. \A n \in Names : clients[n] = c => n = NameOf[c]
    BY DEF IInv, TypeOK, EntriesFit
  <2>2. \A n \in Names : clients'[n] # NoConn =>
           /\ clients'[n] = clients[n]
           /\ clients[n] \in Conns \ {c}
           /\ clients[NameOf[c]] # clients[n]
    BY <1>3, <1>4, <2>1 DEF IInv, TypeOK, EntriesFit
  <2>3. \A n \in Names : clients'[n] # NoConn =>
           /\ closed'[clients[n]] <=> closed[clients[n]]
           /\ watchers'[clients[n]] = watchers[clients[n]]
    BY <1>2, <1>4, <2>2 DEF IInv, TypeOK
  <2>4. EntriesFit'
    <3> SUFFICES ASSUME NEW n \in Names, clients'[n] # NoConn
                 PROVE  LET d == clients'[n]
                        IN  /\ NameOf[d] = n /\ isLogin'[d] /\ d \notin WsConns
                            /\ pc'[d] \notin {"idle", "done"}
                            /\ Len(watchers'[d]) >= 1
                            /\ closed'[d] => Len(watchers'[d]) >= 2
      BY DEF EntriesFit
    <3> QED  BY <1>1, <2>2, <2>3 DEF IInv, TypeOK, EntriesFit
  <2>5. RegisteredIsWatched'
    <3> SUFFICES ASSUME NEW n \in Names, clients'[n] # NoConn,
                        ~closed'[clients'[n]]
                 PROVE  \E j \in DOMAIN watchers'[clients'[n]] :
                           watchers'[clients'[n]][j] # "exit"
      BY DEF RegisteredIsWatched
    <3>1. /\ clients[n] # NoConn /\ ~closed[clients[n]]
          /\ watchers'[clients'[n]] = watchers[clients[n]]
      BY <2>2, <2>3
    <3> QED  BY <3>1 DEF IInv, RegisteredIsWatched
  <2> QED  BY <2>4, <2>5
<1>7. (OpenSessionIsRegistered /\ DoneIsClosed)'
  BY <1>1, <1>3, <1>4
     DEF IInv, TypeOK, OpenSessionIsRegistered, DoneIsClosed
<1>8. ClosedFit'
  <2>1. \A d \in Conns : clients[NameOf[c]] = d =>
           isLogin[d] /\ Len(watchers[d]) >= 1
    BY <1>3 DEF IInv, TypeOK, EntriesFit
  <2> QED  BY <1>1, <1>2, <1>4, <2>1 DEF IInv, TypeOK, ClosedFit
<1>9. WatchersFit'
  BY <1>1, <1>2, <1>4 DEF IInv, TypeOK, WatchersFit
<1> QED  BY <1>5, <1>6, <1>7, <1>8, <1>9 DEF IInv

\* ClearAll closes every registered connection.
LEMMA StopClearIInv == ASSUME IInv, StopClear PROVE IInv'
<1> USE DEF IInv, StopClear, ClearAll
<1>1. TypeOK'
  BY DEF TypeOK
<1>2. (FramesFit /\ ReplySlotFree /\ WatchersFit /\ DoneIsClosed)'
  BY DEF TypeOK, FramesFit, ReplySlotFree, WatchersFit, DoneIsClosed
<1>3. (EntriesFit /\ RegisteredIsWatched /\ OpenSessionIsRegistered)'
  BY DEF TypeOK, EntriesFit, RegisteredIsWatched, OpenSessionIsRegistered
<1>4. (ClosedFit /\ PanicNeedsReAdd)'
  BY DEF TypeOK, EntriesFit, ClosedFit, PanicNeedsReAdd
<1> QED  BY <1>1, <1>2, <1>3, <1>4

-----------------------------------------------------------------------------
(* The theorems *)

LEMMA NextIInv == IInv /\ [Next]_vars => IInv'
<1> SUFFICES ASSUME IInv, [Next]_vars PROVE IInv'
  OBVIOUS
<1> USE DEF IInv, TypeOK, FramesFit, ReplySlotFree, EntriesFit,
            OpenSessionIsRegistered, ClosedFit, WatchersFit,
            RegisteredIsWatched, DoneIsClosed, PanicNeedsReAdd
<1>1. ASSUME NEW c \in Conns, Accept(c) PROVE IInv'
  BY <1>1 DEF Accept
<1>2. ASSUME NEW c \in Conns, NEW f \in Frames(c), Receive(c, f) PROVE IInv'
  BY <1>2 DEF Receive
<1>3. ASSUME NEW c \in Conns, ReceiveError(c) PROVE IInv'
  BY <1>3 DEF ReceiveError
<1>4. ASSUME NEW c \in Conns, Serve(c) PROVE IInv'
  <2>1. CASE Heartbeat(c)
    BY ONLY <2>1, IInv, HeartbeatIInv
  <2>2. CASE SendHttpResponse(c)
    BY <2>2 DEF SendHttpResponse
  <2> QED
    BY ONLY <1>4, <2>1, <2>2, IInv, LoginIInv, LoginWebsocketIInv DEF Serve
<1>5. ASSUME NEW c \in Conns, ReplySent(c) PROVE IInv'
  BY <1>5 DEF ReplySent
<1>6. ASSUME NEW c \in Conns, Drain(c) PROVE IInv'
  BY <1>6 DEF Drain
<1>7. ASSUME NEW c \in Conns, Exit(c) PROVE IInv'
  BY ONLY <1>7, IInv, ExitIInv
<1>8. ASSUME NEW c \in Conns, DoRequestBeats(c) PROVE IInv'
  BY <1>8 DEF DoRequestBeats
<1>9. ASSUME NEW c \in Conns, Lapse(c) PROVE IInv'
  BY <1>9 DEF Lapse
<1>10. ASSUME NEW c \in Conns, NEW i \in DOMAIN watchers[c], Watcher(c, i)
       PROVE  IInv'
  <2>1. CASE WatcherQuits(c, i)
    BY <2>1 DEF WatcherQuits
  <2>2. CASE WatcherSeesLapse(c, i)
    BY <2>2 DEF WatcherSeesLapse
  <2> QED
    BY ONLY <1>10, <2>1, <2>2, IInv, WatcherRemovesIInv DEF Watcher
<1>11. CASE StopCancel
  BY <1>11 DEF StopCancel
<1>12. CASE StopClear
  BY ONLY <1>12, IInv, StopClearIInv
<1>13. CASE UNCHANGED vars
  BY <1>13 DEF vars
<1> QED
  BY ONLY <1>1, <1>2, <1>3, <1>4, <1>5, <1>6, <1>7, <1>8, <1>9, <1>10, <1>11,
     <1>12, <1>13, [Next]_vars DEF Next

\* Every reachable state satisfies the inductive invariant.
THEOREM Invariance == Spec => []IInv
BY InitIInv, NextIInv, PTL DEF Spec

\* The variables keep their types.
THEOREM TypeCorrect == Spec => []TypeOK
BY Invariance, PTL DEF IInv

\* An agent session that is logged in and open is the registered one, whatever
\* stale removals its predecessors of the same name run.
THEOREM SessionsRegistered == Spec => []OpenSessionIsRegistered
BY Invariance, PTL DEF IInv

\* keepConnection leaves neither a socket nor a table entry behind.
THEOREM SessionsCleanedUp == Spec => []EndedSessionIsClosed
<1>1. IInv => EndedSessionIsClosed
  BY DEF IInv, DoneIsClosed, EntriesFit, EndedSessionIsClosed
<1> QED  BY <1>1, Invariance, PTL

\* Every registered open client has a running checkOnline goroutine.
THEOREM SessionsWatched == Spec => []RegisteredIsWatched
BY Invariance, PTL DEF IInv

\* A double close of Quit needs a login served after the removal of the same
\* connection.
THEOREM PanicOnlyAfterReAdd == Spec => []PanicNeedsReAdd
BY Invariance, PTL DEF IInv

\* That can happen once in the life of a connection.
THEOREM AddedTwiceAtMost == Spec => []AddedAtMostTwice
<1>1. IInv => AddedAtMostTwice
  BY DEF IInv, WatchersFit, AddedAtMostTwice
<1> QED  BY <1>1, Invariance, PTL

-----------------------------------------------------------------------------
(* The refinement of NameTable *)

\* A connection logs in after it was accepted; only the login with RespSeq
\* logs in a websocket connection.
LoginsFit ==
    /\ \A c \in Conns : pc[c] = "idle" => ~isLogin[c]
    /\ \A c \in WsConns : isLogin[c] => isWebsocket[c]

LEMMA LoginsFitInvariant == Spec => []LoginsFit
<1>1. Init => LoginsFit
  BY DEF Init, LoginsFit
<1>2. IInv /\ LoginsFit /\ [Next]_vars => LoginsFit'
  <2> SUFFICES ASSUME IInv, LoginsFit, [Next]_vars PROVE LoginsFit'
    OBVIOUS
  <2> USE DEF IInv, TypeOK, LoginsFit
  <2>1. ASSUME NEW c \in Conns, Accept(c) PROVE LoginsFit'
    BY <2>1 DEF Accept
  <2>2. ASSUME NEW c \in Conns, NEW f \in Frames(c), Receive(c, f)
        PROVE  LoginsFit'
    BY <2>2 DEF Receive
  <2>3. ASSUME NEW c \in Conns, ReceiveError(c) PROVE LoginsFit'
    BY <2>3 DEF ReceiveError
  <2>4. ASSUME NEW c \in Conns, Serve(c) PROVE LoginsFit'
    <3>1. CASE Login(c)
      BY <3>1 DEF Login, Add, Reply, FramesFit
    <3>2. CASE LoginWebsocket(c)
      BY <3>2 DEF LoginWebsocket, Reply
    <3>3. CASE Heartbeat(c)
      BY <3>3 DEF Heartbeat, Reply
    <3>4. CASE SendHttpResponse(c)
      BY <3>4 DEF SendHttpResponse
    <3> QED  BY <2>4, <3>1, <3>2, <3>3, <3>4 DEF Serve
  <2>5. ASSUME NEW c \in Conns, ReplySent(c) PROVE LoginsFit'
    BY <2>5 DEF ReplySent
  <2>6. ASSUME NEW c \in Conns, Drain(c) PROVE LoginsFit'
    BY <2>6 DEF Drain
  <2>7. ASSUME NEW c \in Conns, Exit(c) PROVE LoginsFit'
    BY <2>7 DEF Exit
  <2>8. ASSUME NEW c \in Conns, DoRequestBeats(c) PROVE LoginsFit'
    BY <2>8 DEF DoRequestBeats
  <2>9. ASSUME NEW c \in Conns, Lapse(c) PROVE LoginsFit'
    BY <2>9 DEF Lapse
  <2>10. ASSUME NEW c \in Conns, NEW i \in DOMAIN watchers[c], Watcher(c, i)
         PROVE  LoginsFit'
    BY <2>10 DEF Watcher, WatcherQuits, WatcherSeesLapse, WatcherRemoves
  <2>11. CASE StopCancel
    BY <2>11 DEF StopCancel
  <2>12. CASE StopClear
    BY <2>12 DEF StopClear
  <2>13. CASE UNCHANGED vars
    BY <2>13 DEF vars
  <2> QED
    BY ONLY <2>1, <2>2, <2>3, <2>4, <2>5, <2>6, <2>7, <2>8, <2>9, <2>10,
       <2>11, <2>12, <2>13, [Next]_vars DEF Next
<1> QED  BY <1>1, <1>2, Invariance, PTL DEF Spec

\* The state of NameTable.
Agents == Conns \ WsConns
Lives == [c \in Agents |-> Life(c)]
Holders == [n \in Names |-> Holder(n)]

\* The holder of a name is the connection that was granted it; nothing leaks.
TableFits ==
    /\ \A n \in Names : Holders[n] # NoConn =>
           /\ Holders[n] \in Agents
           /\ Holders[n] = clients[n]
           /\ NameOf[Holders[n]] = n
           /\ Lives[Holders[n]] = "granted"
    /\ \A c \in Agents : Lives[c] = "granted" => Holders[NameOf[c]] = c
    /\ \A c \in Agents : Lives[c] # "leaked"

LEMMA IInvTableFits == IInv /\ LoginsFit => TableFits
<1> SUFFICES ASSUME IInv, LoginsFit PROVE TableFits
  OBVIOUS
<1>1. ASSUME NEW n \in Names, Holders[n] # NoConn
      PROVE  /\ Holders[n] \in Agents
             /\ Holders[n] = clients[n]
             /\ NameOf[Holders[n]] = n
             /\ Lives[Holders[n]] = "granted"
  <2>1. clients[n] # NoConn /\ ~closed[clients[n]] /\ Holders[n] = clients[n]
    BY <1>1 DEF Holders, Holder
  <2>2. /\ clients[n] \in Agents
        /\ NameOf[clients[n]] = n
        /\ isLogin[clients[n]]
        /\ pc[clients[n]] \notin {"idle", "done"}
    BY <2>1 DEF IInv, TypeOK, EntriesFit, Agents
  <2> QED  BY <2>1, <2>2 DEF Lives, Life
<1>2. ASSUME NEW c \in Agents, Lives[c] = "granted"
      PROVE  Holders[NameOf[c]] = c
  <2>1. isLogin[c] /\ ~closed[c]
    BY <1>2 DEF Lives, Life
  <2>2. clients[NameOf[c]] = c /\ c # NoConn /\ NameOf[c] \in Names
    BY <2>1 DEF IInv, OpenSessionIsRegistered, Agents
  <2> QED  BY <2>1, <2>2 DEF Holders, Holder
<1>3. ASSUME NEW c \in Agents PROVE Lives[c] # "leaked"
  BY DEF IInv, DoneIsClosed, EntriesFit, Agents, Lives, Life
<1> QED  BY <1>1, <1>2, <1>3 DEF TableFits

\* A step that leaves these alone is none of NameTable.
LEMMA QuietStep ==
  ASSUME IInv, clients' = clients,
         \A c \in Agents : /\ isLogin'[c] = isLogin[c]
                           /\ closed'[c] = closed[c]
                           /\ \/ pc'[c] = pc[c]
                              \/ {pc[c], pc'[c]} \cap {"idle", "done"} = {}
  PROVE  Lives' = Lives /\ Holders' = Holders
<1>1. ASSUME NEW c \in Agents PROVE Life(c)' = Life(c)
  BY DEF Life
<1>2. ASSUME NEW n \in Names PROVE Holder(n)' = Holder(n)
  BY DEF Holder, IInv, TypeOK, EntriesFit, Agents
<1> QED  BY <1>1, <1>2 DEF Lives, Holders

\* A login that Add accepts grants the name, unless the connection has been
\* closed in the meantime: then nothing changes for the agents.
LEMMA LoginStep ==
  ASSUME IInv, LoginsFit, TableFits, NEW c \in Conns, Login(c)
  PROVE  \/ Lives' = Lives /\ Holders' = Holders
         \/ c \in Agents /\ Table!Grant(c)
<1>1. /\ pc[c] = "serve" /\ c \in Agents
      /\ pc' = [pc EXCEPT ![c] = "recv"]
      /\ closed' = closed /\ Add(c)
  BY DEF Login, Reply, IInv, TypeOK, FramesFit, Agents
<1>2. \A d \in Agents : Life(d) = "leaked" => FALSE
  BY DEF TableFits, Lives
<1>3. CASE clients[NameOf[c]] # NoConn
  <2>1. clients' = clients /\ isLogin' = isLogin
    BY <1>1, <1>3 DEF Add
  <2> QED  BY <1>1, <2>1, QuietStep DEF IInv, TypeOK, Agents
<1>4. CASE clients[NameOf[c]] = NoConn
  <2>1. /\ clients' = [clients EXCEPT ![NameOf[c]] = c]
        /\ isLogin' = [isLogin EXCEPT ![c] = TRUE]
    BY <1>1, <1>4 DEF Add
  <2>2. /\ NameOf[c] \in Names /\ c # NoConn
        /\ \A n \in Names :
              clients'[n] = IF n = NameOf[c] THEN c ELSE clients[n]
        /\ \A d \in Conns : isLogin'[d] <=> (d = c \/ isLogin[d])
        /\ \A d \in Conns : pc'[d] = IF d = c THEN "recv" ELSE pc[d]
    BY <1>1, <2>1 DEF IInv, TypeOK
  <2>3. ASSUME NEW d \in Agents, d # c PROVE Life(d)' = Life(d)
    <3>1. (d \in Registered)' <=> d \in Registered
      BY <1>4, <2>2, <2>3, NoConnFresh DEF Agents
    <3> QED  BY <1>1, <2>2, <2>3, <3>1 DEF Life, Agents
  <2>4. ASSUME NEW n \in Names, n # NameOf[c] PROVE Holder(n)' = Holder(n)
    BY <1>1, <2>2, <2>4 DEF Holder
  <2>5. Holder(NameOf[c]) = NoConn
    BY <1>4 DEF Holder
  <2>6. CASE closed[c]
    <3>1. Life(c)' = Life(c)
      BY <1>1, <2>2, <2>6 DEF Life
    <3>2. Holder(NameOf[c])' = NoConn
      BY <1>1, <2>2, <2>6 DEF Holder
    <3> QED  BY <2>3, <2>4, <2>5, <3>1, <3>2 DEF Lives, Holders
  <2>7. CASE ~closed[c]
    <3>1. ~isLogin[c]
      BY <1>1, <1>4, <2>7, NoConnFresh DEF IInv, OpenSessionIsRegistered, Agents
    <3>2. Life(c) = "open" /\ Life(c)' = "granted"
      BY <1>1, <2>2, <2>7, <3>1 DEF Life
    <3>3. Holder(NameOf[c])' = c
      BY <1>1, <2>2, <2>7 DEF Holder
    <3>4. Lives' = [Lives EXCEPT ![c] = "granted"]
      BY <1>1, <2>3, <3>2 DEF Lives
    <3>5. Holders' = [Holders EXCEPT ![NameOf[c]] = c]
      BY <2>2, <2>4, <3>3 DEF Holders
    <3>6. Lives[c] = "open" /\ Holders[NameOf[c]] = NoConn
      BY <1>1, <2>2, <2>5, <3>2 DEF Lives, Holders
    <3> QED
      BY <1>1, <3>4, <3>5, <3>6 DEF Table!Grant, Lives, Holders, Agents
  <2> QED  BY <2>6, <2>7
<1> QED  BY <1>3, <1>4

\* What Remove does for NameTable: the holder of the name, if there is one, is
\* closed and the name is free.
LEMMA RemoveStep ==
  ASSUME IInv, TableFits, NEW n \in Names, Remove(n)
  PROVE  /\ \A m \in Names :
               Holder(m)' = IF m = n THEN NoConn ELSE Holder(m)
         /\ \A c \in Agents :
               closed'[c] <=> (closed[c] \/ Holder(n) = c)
<1>1. /\ \A m \in Names :
            clients'[m] = IF m = n THEN NoConn ELSE clients[m]
      /\ \A c \in Conns : closed'[c] <=> (closed[c] \/ clients[n] = c)
  BY RemoveCloses
<1>2. \A m \in Names : clients[m] # NoConn =>
         clients[m] \in Agents /\ NameOf[clients[m]] = m
  BY DEF IInv, TypeOK, EntriesFit, Agents
<1>3. ASSUME NEW m \in Names
      PROVE  Holder(m)' = IF m = n THEN NoConn ELSE Holder(m)
  <2>1. CASE m = n
    BY <1>1, <2>1 DEF Holder
  <2>2. CASE m # n
    <3>1. clients'[m] = clients[m]
      BY <1>1, <2>2
    <3>2. clients[m] # NoConn => (closed'[clients[m]] <=> closed[clients[m]])
      BY <1>1, <1>2, <2>2 DEF Agents
    <3> QED  BY <2>2, <3>1, <3>2 DEF Holder
  <2> QED  BY <2>1, <2>2
<1>4. ASSUME NEW c \in Agents
      PROVE  closed'[c] <=> (closed[c] \/ Holder(n) = c)
  <2>1. Holder(n) = c <=> clients[n] = c /\ ~closed[c]
    BY NoConnFresh DEF Holder, Agents
  <2> QED  BY <1>1, <2>1 DEF Agents
<1> QED  BY <1>3, <1>4

\* The deferred clean-up ends its connection and, going by name, may take the
\* name from the one that holds it by then.
LEMMA ExitStep ==
  ASSUME IInv, LoginsFit, TableFits, TableFits', NEW c \in Conns, Exit(c)
  PROVE  \/ Lives' = Lives /\ Holders' = Holders
         \/ c \in Agents /\ (Table!End(c) \/ Table!EndAndDrop(c))
<1>1. /\ pc[c] = "exit" /\ CleanUp(c) /\ isLogin' = isLogin
      /\ \A d \in Conns : pc'[d] = IF d = c THEN "done" ELSE pc[d]
  BY DEF Exit, IInv, TypeOK
<1>2. ASSUME NEW d \in Agents
      PROVE  Life(d) # "leaked" /\ Life(d)' # "leaked"
  BY DEF TableFits, Lives
<1>3. CASE c \notin Agents
  <2>1. isWebsocket[c] \/ ~isLogin[c]
    BY <1>3 DEF LoginsFit, Agents
  <2>2. clients' = clients /\ \A d \in Agents : closed'[d] = closed[d]
    BY <1>1, <1>3, <2>1 DEF CleanUp, Close, IInv, TypeOK, Agents
  <2> QED  BY <1>1, <1>3, <2>2, QuietStep DEF Agents
<1>4. CASE c \in Agents /\ ~isLogin[c]
  <2>1. ~isWebsocket[c] /\ Close(c) /\ clients' = clients
    BY <1>1, <1>4 DEF CleanUp, IInv, FramesFit, Agents
  <2>2. \A d \in Conns : closed'[d] <=> (closed[d] \/ d = c)
    BY <2>1 DEF Close, IInv, TypeOK
  <2>3. Life(c) = "open" /\ Life(c)' = "ended"
    BY <1>1, <1>2, <1>4 DEF Life, IInv, ClosedFit, Agents
  <2>4. ASSUME NEW d \in Agents, d # c PROVE Life(d)' = Life(d)
    BY <1>1, <1>2, <2>1, <2>2, <2>4 DEF Life, Agents
  <2>5. ASSUME NEW n \in Names PROVE Holder(n)' = Holder(n) /\ Holder(n) # c
    <3>1. clients[n] # NoConn => clients[n] \in Conns \ {c}
      BY <1>4 DEF IInv, TypeOK, EntriesFit
    <3> QED  BY <1>4, <2>1, <2>2, <3>1, NoConnFresh DEF Holder, Agents
  <2>6. Lives' = [Lives EXCEPT ![c] = "ended"] /\ Lives[c] = "open"
    BY <1>4, <2>3, <2>4 DEF Lives
  <2>7. Holders' = [n \in Names |-> IF Holders[n] = c THEN NoConn ELSE Holders[n]]
    BY <2>5 DEF Holders
  <2> QED  BY <1>4, <2>6, <2>7 DEF Table!End, Lives, Holders, Agents
<1>5. CASE c \in Agents /\ isLogin[c]
  <2> DEFINE n == NameOf[c]
             h == Holder(n)
  <2>1. n \in Names /\ Remove(n)
    BY <1>1, <1>5 DEF CleanUp, IInv, FramesFit, Agents
  <2>2. /\ \A m \in Names :
              Holder(m)' = IF m = n THEN NoConn ELSE Holder(m)
        /\ \A d \in Agents : closed'[d] <=> (closed[d] \/ h = d)
    BY <2>1, RemoveStep
  <2>3. /\ Life(c) \in {"granted", "closed"}
        /\ Life(c) = "granted" => h = c
    BY <1>1, <1>5, <2>1 DEF Life, TableFits, Lives, Holders
  <2>4. Life(c)' = "ended"
    BY <1>1, <1>2, <1>5 DEF Life, Agents
  <2>5. h # NoConn => h \in Agents /\ Life(h) = "granted"
    BY <2>1 DEF TableFits, Lives, Holders
  <2>6. ASSUME NEW d \in Agents, d # c
        PROVE  Life(d)' = IF d = h THEN "closed" ELSE Life(d)
    <3>1. pc'[d] = pc[d] /\ isLogin'[d] = isLogin[d]
      BY <1>1, <2>6 DEF Agents
    <3>2. CASE d = h
      <4>1. Life(d) = "granted" /\ closed'[d]
        BY <2>2, <2>5, <3>2, NoConnFresh DEF Agents
      <4> QED  BY <3>1, <3>2, <4>1 DEF Life
    <3>3. CASE d # h
      BY <1>2, <2>2, <3>1, <3>3 DEF Life
    <3> QED  BY <3>2, <3>3
  <2>7. \A m \in Names : m # n => Holder(m) # c
    BY <1>5, NoConnFresh DEF TableFits, Holders, Agents
  <2>8. CASE h \in {NoConn, c}
    <3>1. Lives' = [Lives EXCEPT ![c] = "ended"]
      BY <1>5, <2>4, <2>6, <2>8, NoConnFresh DEF Lives, Agents
    <3>2. Holders' = [m \in Names |-> IF Holders[m] = c THEN NoConn
                                                       ELSE Holders[m]]
      BY <2>1, <2>2, <2>7, <2>8 DEF Holders
    <3>3. Lives[c] \in {"granted", "closed"}
      BY <1>5, <2>3 DEF Lives
    <3> QED
      BY <1>5, <3>1, <3>2, <3>3 DEF Table!End, Lives, Holders, Agents
  <2>9. CASE h \notin {NoConn, c}
    <3>1. Lives' = [Lives EXCEPT ![c] = "ended", ![h] = "closed"]
      BY <1>5, <2>4, <2>5, <2>6, <2>9 DEF Lives
    <3>2. Holders' = [Holders EXCEPT ![n] = NoConn]
      BY <2>1, <2>2 DEF Holders
    <3>3. Lives[c] = "closed" /\ Holders[n] = h
      BY <1>5, <2>1, <2>3, <2>9 DEF Lives, Holders
    <3> QED
      BY <1>5, <2>9, <3>1, <3>2, <3>3
         DEF Table!EndAndDrop, Lives, Holders, Agents
  <2> QED  BY <1>5, <2>8, <2>9
<1> QED  BY <1>3, <1>4, <1>5

\* A watcher was started by an Add of its connection, so whatever it removes,
\* it removes on behalf of a connection that had the name.
LEMMA WatcherStep ==
  ASSUME IInv, LoginsFit, TableFits, TableFits', NEW c \in Conns,
         NEW i \in DOMAIN watchers[c], WatcherRemoves(c, i)
  PROVE  \/ Lives' = Lives /\ Holders' = Holders
         \/ c \in Agents /\ Table!Drop(c)
<1> DEFINE n == NameOf[c]
           h == Holder(n)
<1>1. /\ UNCHANGED <<pc, isLogin>>
      /\ n \in Names /\ Remove(n)
  BY DEF WatcherRemoves
<1>2. c \in Agents /\ isLogin[c] /\ pc[c] # "idle"
  <2>1. Len(watchers[c]) >= 1
    BY DEF IInv, TypeOK
  <2> QED  BY <2>1 DEF IInv, WatchersFit, LoginsFit, Agents
<1>3. /\ \A m \in Names :
            Holder(m)' = IF m = n THEN NoConn ELSE Holder(m)
      /\ \A d \in Agents : closed'[d] <=> (closed[d] \/ h = d)
  BY <1>1, RemoveStep
<1>4. h # NoConn => h \in Agents /\ Life(h) = "granted"
  BY <1>1 DEF TableFits, Lives, Holders
<1>5. ASSUME NEW d \in Agents
      PROVE  /\ Life(d) # "leaked"
             /\ Life(d)' = IF d = h THEN "closed" ELSE Life(d)
  <2>1. Life(d) # "leaked" /\ Life(d)' # "leaked"
    BY DEF TableFits, Lives
  <2>2. CASE d = h
    BY <1>1, <1>3, <1>4, <2>1, <2>2, NoConnFresh DEF Life, Agents
  <2>3. CASE d # h
    BY <1>1, <1>3, <2>1, <2>3 DEF Life
  <2> QED  BY <2>1, <2>2, <2>3
<1>6. CASE h = NoConn
  <2>1. Lives' = Lives
    BY <1>5, <1>6, NoConnFresh DEF Lives, Agents
  <2>2. Holders' = Holders
    BY <1>3, <1>6 DEF Holders
  <2> QED  BY <2>1, <2>2
<1>7. CASE h # NoConn
  <2>1. Lives' = [Lives EXCEPT ![h] = "closed"]
    BY <1>4, <1>5, <1>7 DEF Lives
  <2>2. Holders' = [Holders EXCEPT ![n] = NoConn]
    BY <1>1, <1>3 DEF Holders
  <2>3. Lives[c] \in {"granted", "closed", "ended"} /\ Holders[n] = h
    BY <1>1, <1>2, <1>5 DEF Lives, Holders, Life
  <2> QED  BY <1>2, <1>7, <2>1, <2>2, <2>3 DEF Table!Drop, Lives, Holders, Agents
<1> QED  BY <1>6, <1>7

\* ClearAll closes the holders of all names and empties the table.
LEMMA StopStep ==
  ASSUME IInv, TableFits, TableFits', StopClear
  PROVE  Table!DropAll
<1>1. /\ UNCHANGED <<pc, isLogin>>
      /\ closed' = [c \in Conns |-> closed[c] \/ c \in Registered]
      /\ clients' = [n \in Names |-> NoConn]
  BY DEF StopClear, ClearAll
<1>2. ASSUME NEW c \in Agents
      PROVE  Life(c)' = IF Life(c) = "granted" THEN "closed" ELSE Life(c)
  <2>1. Life(c) # "leaked" /\ Life(c)' # "leaked"
    BY DEF TableFits, Lives
  <2>2. c \in Registered => isLogin[c]
    BY DEF IInv, EntriesFit
  <2>3. Life(c) = "granted" => c \in Registered
    <3>1. NameOf[c] \in Names /\ c # NoConn
      BY NoConnFresh DEF Agents
    <3>2. Life(c) = "granted" => Holders[NameOf[c]] = c
      BY DEF TableFits, Lives
    <3>3. Holders[NameOf[c]] = c => clients[NameOf[c]] = c
      BY <3>1 DEF TableFits
    <3> QED  BY <3>1, <3>2, <3>3
  <2> QED  BY <1>1, <2>1, <2>2, <2>3 DEF Life, Agents
<1>3. \A n \in Names : Holder(n)' = NoConn
  BY <1>1 DEF Holder
<1> QED  BY <1>2, <1>3 DEF Table!DropAll, Lives, Agents

\* Every step of the registry is one of NameTable, or none.
LEMMA TableStep ==
  IInv /\ LoginsFit /\ LoginsFit' /\ TableFits /\ TableFits' /\ [Next]_vars
      => [Table!Next]_(Table!vars)
<1> SUFFICES ASSUME IInv, LoginsFit, LoginsFit', TableFits, TableFits',
                    [Next]_vars
             PROVE  Table!Next \/ (Lives' = Lives /\ Holders' = Holders)
  BY DEF Table!vars, Lives, Holders, Agents
<1> DEFINE Goal == Table!Next \/ (Lives' = Lives /\ Holders' = Holders)
<1>1. ASSUME NEW c \in Conns, Accept(c) PROVE Goal
  <2>1. /\ pc[c] = "idle" /\ UNCHANGED <<clients, isLogin, closed>>
        /\ \A d \in Conns : pc'[d] = IF d = c THEN "recv" ELSE pc[d]
    BY <1>1 DEF Accept, IInv, TypeOK
  <2>2. CASE c \notin Agents
    BY <2>1, <2>2, QuietStep DEF Agents
  <2>3. CASE c \in Agents
    <3>1. Life(c) = "new" /\ Life(c)' = "open"
      BY <2>1, <2>3 DEF Life, LoginsFit, IInv, ClosedFit, Agents
    <3>2. \A d \in Agents : d # c => Life(d)' = Life(d)
      BY <2>1 DEF Life, Agents
    <3>3. Lives' = [Lives EXCEPT ![c] = "open"] /\ Lives[c] = "new"
      BY <2>3, <3>1, <3>2 DEF Lives
    <3>4. Holders' = Holders
      BY <2>1 DEF Holders, Holder
    <3> QED
      BY <2>3, <3>3, <3>4 DEF Table!Next, Table!Accept, Lives, Holders, Agents
  <2> QED  BY <2>2, <2>3
<1>2. ASSUME NEW c \in Conns, NEW f \in Frames(c), Receive(c, f) PROVE Goal
  BY <1>2, QuietStep DEF Receive, IInv, TypeOK, Agents
<1>3. ASSUME NEW c \in Conns, ReceiveError(c) PROVE Goal
  BY <1>3, QuietStep DEF ReceiveError, IInv, TypeOK, Agents
<1>4. ASSUME NEW c \in Conns, Serve(c) PROVE Goal
  <2>1. CASE Login(c)
    BY <2>1, LoginStep DEF Table!Next, Agents
  <2>2. CASE LoginWebsocket(c)
    <3>1. c \notin Agents
      BY <2>2 DEF LoginWebsocket, IInv, FramesFit, Agents
    <3> QED
      BY <2>2, <3>1, QuietStep DEF LoginWebsocket, Reply, IInv, TypeOK, Agents
  <2>3. CASE Heartbeat(c)
    BY <2>3, QuietStep DEF Heartbeat, Reply, IInv, TypeOK, Agents
  <2>4. CASE SendHttpResponse(c)
    BY <2>4, QuietStep DEF SendHttpResponse, IInv, TypeOK, Agents
  <2> QED  BY <1>4, <2>1, <2>2, <2>3, <2>4 DEF Serve
<1>5. ASSUME NEW c \in Conns, ReplySent(c) PROVE Goal
  BY <1>5, QuietStep DEF ReplySent
<1>6. ASSUME NEW c \in Conns, Drain(c) PROVE Goal
  BY <1>6, QuietStep DEF Drain, IInv, TypeOK, Agents
<1>7. ASSUME NEW c \in Conns, Exit(c) PROVE Goal
  BY <1>7, ExitStep DEF Table!Next, Agents
<1>8. ASSUME NEW c \in Conns, DoRequestBeats(c) PROVE Goal
  BY <1>8, QuietStep DEF DoRequestBeats
<1>9. ASSUME NEW c \in Conns, Lapse(c) PROVE Goal
  BY <1>9, QuietStep DEF Lapse
<1>10. ASSUME NEW c \in Conns, NEW i \in DOMAIN watchers[c], Watcher(c, i)
       PROVE  Goal
  <2>1. CASE WatcherQuits(c, i)
    BY <2>1, QuietStep DEF WatcherQuits
  <2>2. CASE WatcherSeesLapse(c, i)
    BY <2>2, QuietStep DEF WatcherSeesLapse
  <2>3. CASE WatcherRemoves(c, i)
    BY <2>3, WatcherStep DEF Table!Next, Agents
  <2> QED  BY <1>10, <2>1, <2>2, <2>3 DEF Watcher
<1>11. CASE StopCancel
  BY <1>11, QuietStep DEF StopCancel
<1>12. CASE StopClear
  BY <1>12, StopStep DEF Table!Next
<1>13. CASE UNCHANGED vars
  BY <1>13, QuietStep DEF vars
<1> QED
  BY <1>1, <1>2, <1>3, <1>4, <1>5, <1>6, <1>7, <1>8, <1>9, <1>10, <1>11,
     <1>12, <1>13 DEF Next

\* The registry implements NameTable, for any connections and names: who holds
\* a name is unique and open, is granted it once, and is closed when it loses
\* it, whichever goroutine takes it away.
THEOREM ImplementsNameTable == Spec => TableSpec
<1>1. Init => Table!Init
  <2>1. ASSUME Init PROVE /\ \A c \in Agents : Life(c) = "new"
                          /\ \A n \in Names : Holder(n) = NoConn
    BY <2>1 DEF Init, Life, Holder, Agents
  <2> QED  BY <2>1 DEF Table!Init, Agents
<1>2. Spec => [](IInv /\ LoginsFit /\ TableFits)
  BY IInvTableFits, Invariance, LoginsFitInvariant, PTL
<1> QED  BY <1>1, <1>2, TableStep, PTL DEF Spec, TableSpec, Table!Spec

=============================================================================
