----------------------- MODULE WebsocketTunnelProofs ------------------------
(***************************************************************************)
(* WebsocketTunnel for any two streams.  While the tunnel carries a stream *)
(* it is what has been read of it at one end: the part that arrived at the *)
(* other end, then the bytes in the tunnel, with nothing missing as long   *)
(* as neither end is closed.                                               *)
(***************************************************************************)
EXTENDS WebsocketTunnel, SequenceTheorems, TLAPS

\* Who has come how far.  The tunnel's login is granted once, by the handover,
\* and the agent copies only after it has been told so.
Phases ==
    /\ agent = "end" <=> "agent" \in closed
    /\ upstream = "none" <=> remote = "none"
    /\ agent \in {"copy", "write"} => remote # "none"
    /\ remote # "none" => agent \in {"copy", "write", "end"}
    /\ writer # "none" => Copying \/ request = "done"
    /\ Copying => writer # "none"
    /\ handler = "grant" => writer # "none"
    /\ agent = "serve" \/ remote # "none" => writer # "none" /\ handler = "end"
    /\ stopped => remote # "open" /\ agent = "end"

\* A goroutine that writes has a message in hand.
Hands ==
    /\ upstream = "write" => down # <<>>
    /\ request = "write" => up # <<>>
    /\ agent = "write" => remotePassed < remoteSent
    /\ writer = "write" => browserPassed < browserSent

\* A connection that has not logged in is nobody's yet.
Fresh ==
    /\ agent = "start" => handler = "none" /\ down = <<>>
    /\ handler = "none" => agent \in {"start", "error", "failed", "end"}
    /\ handler \in {"none", "login"} =>
          writer = "none" /\ (broken => "server" \in closed)
    /\ handler = "login" => "server" \notin closed
    /\ handler \in {"login", "grant", "refuse"} => agent = "login" \/ Severed

\* Until the agent has read the reply, the tunnel holds nothing else.
ReplyFirst ==
    /\ agent = "login" => down \in {<<>>, <<"ack">>, <<"nack">>}
    /\ agent = "login" /\ handler \in {"login", "grant", "refuse"} => down = <<>>
    /\ agent = "login" /\ down = <<"ack">> => writer # "none" /\ handler = "end"
    /\ agent = "serve" => down = <<>>

\* Before there is a remote server, the browser can get an error at most, and
\* has no 101 to answer.
BeforeRemote ==
    remote = "none" =>
        /\ remoteSent = 0
        /\ remoteGot = <<>>
        /\ browserSent = 0
        /\ up \in {<<>>, <<"error">>}
        /\ browserGot \in {<<>>, <<"error">>}
        /\ agent # "end" => up = <<>> /\ browserGot = <<>>
        /\ browserGot # <<>> => up = <<>>

\* s is what stream has at the places after n.
Continues(s, stream, n) ==
    \A i \in 1 .. Len(s) : s[i] = stream[n + i]

\* The browser's stream.
DownFits ==
    /\ Len(remoteGot) <= browserPassed
    /\ Continues(remoteGot, FromBrowser, 0)
    /\ remote = "open" /\ upstream \in {"run", "write"} =>
          /\ Len(remoteGot) + Len(down) <= browserPassed
          /\ ~Severed => Len(remoteGot) + Len(down) = browserPassed
          /\ Continues(down, FromBrowser, Len(remoteGot))

\* The remote server's stream.
UpFits ==
    remote # "none" =>
        /\ Len(browserGot) <= remotePassed
        /\ Continues(browserGot, FromRemote, 0)
        /\ browser = "open" /\ Copying =>
              /\ Len(browserGot) + Len(up) <= remotePassed
              /\ ~Severed => Len(browserGot) + Len(up) = remotePassed
              /\ Continues(up, FromRemote, Len(browserGot))

\* A browser that stays and is silent, and a network that holds.
Quiet == browser = "open" /\ browserSent = 0 /\ ~cut

\* Then the end comes from the agent, after the bytes.
EndsInOrder ==
    Quiet =>
        /\ Copying => ~broken /\ "server" \notin closed
        /\ request = "done" => up = <<>> /\ "agent" \in closed
        /\ remote # "none" => Len(browserGot) + Len(up) = remotePassed
        /\ remote # "none" /\ "agent" \in closed =>
              stopped \/ (remote = "closed" /\ remotePassed = remoteSent)
        /\ remote = "none" /\ "agent" \in closed =>
              stopped \/ browserGot = <<"error">> \/ up = <<"error">>

Control == TypeOK /\ Phases /\ Hands /\ Fresh /\ ReplyFirst /\ BeforeRemote

IInv == Control /\ DownFits /\ UpFits /\ EndsInOrder

-----------------------------------------------------------------------------

LEMMA Single ==
  ASSUME NEW x
  PROVE  /\ Append(<<>>, x) = <<x>> /\ Len(<<x>>) = 1 /\ <<x>> # <<>>
         /\ Head(<<x>>) = x /\ Tail(<<x>>) = <<>>
OBVIOUS

\* What is left of a queue, and what is in its reader's hand.
LEMMA Taken ==
  ASSUME NEW S, NEW q \in Seq(S), q # <<>>
  PROVE  /\ Tail(q) \in Seq(S) /\ Len(Tail(q)) + 1 = Len(q)
         /\ \A i \in 1 .. Len(Tail(q)) : Tail(q)[i] = q[i + 1]
         /\ Head(q) \in S /\ Head(q) = q[1] /\ 1 \in 1 .. Len(q)
         /\ <<Head(q)>> \in Seq(S) /\ Len(<<Head(q)>>) = 1
         /\ <<Head(q)>> # <<>> /\ <<Head(q)>>[1] = q[1]
OBVIOUS

LEMMA Added ==
  ASSUME NEW S, NEW q \in Seq(S), NEW x \in S
  PROVE  /\ Append(q, x) \in Seq(S) /\ Len(Append(q, x)) = Len(q) + 1
         /\ Append(q, x) # <<>>
         /\ \A i \in 1 .. Len(q) : Append(q, x)[i] = q[i]
         /\ Append(q, x)[Len(q) + 1] = x
OBVIOUS

\* The members of the queues.
Downs == ToSet(FromBrowser) \cup {"ack", "nack"}

Ups == ToSet(FromRemote) \cup {"error"}

LEMMA TypeStep == Control /\ DownFits /\ [Next]_vars => TypeOK'
<1> SUFFICES ASSUME TypeOK, Phases, Hands, Fresh, ReplyFirst, BeforeRemote, DownFits,
                    [Next]_vars
             PROVE  TypeOK'
  BY DEF Control
<1>0. down \in Seq(Downs) /\ up \in Seq(Ups)
  BY DEF TypeOK, Downs, Ups
<1> USE StreamsType, WindowType DEF TypeOK, server, tunnel, browserVars, remoteVars, Ended
<1>1. CASE Select
  BY <1>1 DEF Select
<1>2. CASE Timeout
  BY <1>2 DEF Timeout
<1>3. CASE ErrorResponse
  BY <1>3 DEF ErrorResponse
<1>4. CASE Refuse
  BY <1>4 DEF Refuse
<1>5. CASE Connect
  BY <1>5 DEF Connect
<1>6. CASE LoginReply
  <2>1. CASE down # <<>>
    <3>1. down' = Tail(down) /\ agent' \in {"serve", "error"}
      BY <1>6, <2>1 DEF LoginReply
    <3>2. down' \in Seq(Downs) /\ Len(down') <= Window
      BY <1>0, <2>1, <3>1, Taken
    <3>3. UNCHANGED <<server, upstream, closed, cut, up, browserVars, remoteVars>>
      BY <1>6 DEF LoginReply
    <3> QED  BY <3>1, <3>2, <3>3 DEF Downs
  <2>2. CASE down = <<>>
    BY <1>6, <2>2 DEF LoginReply
  <2> QED  BY <2>1, <2>2
<1>7. CASE ServeError
  <2>1. up = <<>>
    BY <1>7 DEF ServeError, Phases, BeforeRemote
  <2>2. up' \in Seq(Ups) /\ Len(up') <= Window
    <3>1. up' = <<>> \/ up' = <<"error">>
      BY <1>7, <2>1, Single DEF ServeError, Written
    <3>2. <<"error">> \in Seq(Ups) /\ Len(<<"error">>) = 1
      BY DEF Ups
    <3>3. <<>> \in Seq(Ups) /\ Len(<<>>) = 0
      OBVIOUS
    <3>4. CASE up' = <<>>
      BY <3>3, <3>4
    <3>5. CASE up' = <<"error">>
      BY <3>2, <3>5
    <3> QED  BY <3>1, <3>4, <3>5
  <2> QED  BY <1>7, <2>2 DEF ServeError, Ups
<1>8. CASE Serve
  BY <1>8 DEF Serve
<1>9. CASE CopyEnds
  BY <1>9 DEF CopyEnds, FromRemoteEnds
<1>10. CASE CopyFromRemote
  <2>1. remotePassed + 1 \in 1 .. Len(FromRemote)
        /\ remotePassed + 1 <= remoteSent
    BY <1>10 DEF CopyFromRemote, Hands
  <2>2. FromRemote[remotePassed + 1] \in Ups
    BY <2>1 DEF Ups, ToSet
  <2>3. up' \in Seq(Ups) /\ Len(up') <= Window
    BY <1>0, <1>10, <2>2, Added DEF CopyFromRemote, Written, Returns
  <2> QED  BY <1>10, <2>1, <2>3 DEF CopyFromRemote, Ups
<1>11. CASE RemoteTakes
  <2>1. /\ down # <<>> /\ remote = "open" /\ upstream = "write"
        /\ down' = Tail(down) /\ remoteGot' = Append(remoteGot, Head(down))
    BY <1>11 DEF RemoteTakes, Hands
  <2>2. down' \in Seq(Downs) /\ Len(down') <= Window
    BY <1>0, <2>1, Taken
  <2>3. Head(down) = down[1] /\ 1 \in 1 .. Len(down)
    BY <1>0, <2>1, Taken
  <2>4. Len(remoteGot) + 1 \in 1 .. Len(FromBrowser)
    BY <2>1, <2>3 DEF DownFits
  <2>5. Head(down) = FromBrowser[Len(remoteGot) + 1]
    BY <2>1, <2>3 DEF DownFits, Continues
  <2>6. Head(down) \in ToSet(FromBrowser)
    BY <2>4, <2>5 DEF ToSet
  <2>7. remoteGot' \in Seq(ToSet(FromBrowser))
    BY <2>1, <2>6
  <2> QED  BY <1>11, <2>2, <2>7 DEF RemoteTakes, Downs
<1>12. CASE CopyToRemoteEnds
  BY <1>12 DEF CopyToRemoteEnds
<1>13. CASE CopyToClosed
  <2>1. down' \in Seq(Downs) /\ Len(down') <= Window
    BY <1>0, <1>13, Taken DEF CopyToClosed, Hands
  <2> QED  BY <1>13, <2>1 DEF CopyToClosed, Downs
<1>14. CASE Login
  BY <1>14 DEF Login
<1>15. CASE ReceiveFails
  BY <1>15 DEF ReceiveFails
<1>16. CASE Reply
  <2>1. CASE down' = down
    BY <1>16, <2>1 DEF Reply
  <2>2. CASE down' # down
    <3>1. down = <<>>
      BY <1>16, <2>2 DEF Reply, Fresh, ReplyFirst
    <3>2. \E x \in {"ack", "nack"} : down' = Append(down, x)
      BY <1>16, <2>2 DEF Reply
    <3>3. down' \in Seq(Downs) /\ Len(down') <= Window
      BY <1>0, <3>1, <3>2, Added DEF Downs
    <3> QED  BY <1>16, <3>3 DEF Reply, Downs
  <2> QED  BY <2>1, <2>2
<1>17. CASE CopyFromBrowser
  <2>1. browserPassed + 1 \in 1 .. Len(FromBrowser)
        /\ browserPassed + 1 <= browserSent
    BY <1>17 DEF CopyFromBrowser, Hands
  <2>2. FromBrowser[browserPassed + 1] \in Downs
    BY <2>1 DEF Downs, ToSet
  <2>3. down' \in Seq(Downs) /\ Len(down') <= Window
    BY <1>0, <1>17, <2>2, Added DEF CopyFromBrowser, Written, Returns
  <2> QED  BY <1>17, <2>1, <2>3 DEF CopyFromBrowser, Downs
<1>18. CASE CopyFromBrowserEnds
  BY <1>18 DEF CopyFromBrowserEnds, BrowserEnds
<1>19. CASE ClosePortalConn
  BY <1>19 DEF ClosePortalConn
<1>20. CASE BrowserTakes
  <2>1. up # <<>>
    BY <1>20 DEF BrowserTakes, Hands
  <2>2. up' \in Seq(Ups) /\ Len(up') <= Window /\ Head(up) \in Ups
    BY <1>0, <1>20, <2>1, Taken DEF BrowserTakes
  <2> QED  BY <1>20, <2>2 DEF BrowserTakes, Ups
<1>21. CASE CopyToBrowserEnds
  BY <1>21 DEF CopyToBrowserEnds
<1>22. CASE BrowserSends
  BY <1>22 DEF BrowserSends
<1>23. CASE BrowserLeaves
  BY <1>23 DEF BrowserLeaves
<1>24. CASE RemoteSends
  BY <1>24 DEF RemoteSends
<1>25. CASE RemoteCloses
  BY <1>25 DEF RemoteCloses
<1>26. CASE AgentExits
  BY <1>26 DEF AgentExits
<1>27. CASE ServerExits
  BY <1>27 DEF ServerExits
<1>28. CASE Cut
  <2>1. down' \in Seq(Downs) /\ Len(down') <= Window
    <3>1. CASE upstream = "write"
      <4>1. down' = <<Head(down)>> /\ down # <<>>
        BY <1>28, <3>1 DEF Cut, Hands
      <4>2. down' \in Seq(Downs) /\ Len(down') = 1
        BY <1>0, <4>1, Taken
      <4> QED  BY <4>2
    <3>2. CASE upstream # "write"
      BY <1>28, <3>2 DEF Cut
    <3> QED  BY <3>1, <3>2
  <2>2. up' \in Seq(Ups) /\ Len(up') <= Window
    <3>1. CASE request = "write"
      <4>1. up' = <<Head(up)>> /\ up # <<>>
        BY <1>28, <3>1 DEF Cut, Hands
      <4>2. up' \in Seq(Ups) /\ Len(up') = 1
        BY <1>0, <4>1, Taken
      <4> QED  BY <4>2
    <3>2. CASE request # "write"
      BY <1>28, <3>2 DEF Cut
    <3> QED  BY <3>1, <3>2
  <2> QED  BY <1>28, <2>1, <2>2 DEF Cut, Downs, Ups
<1>29. CASE UNCHANGED vars
  BY <1>29 DEF vars
<1>30. CASE ReadForBrowser
  BY <1>30 DEF ReadForBrowser
<1>31. CASE CopyToGone
  <2>1. up' \in Seq(Ups) /\ Len(up') <= Window
    BY <1>0, <1>31, Taken DEF CopyToGone, Hands
  <2> QED  BY <1>31, <2>1 DEF CopyToGone, Ups
<1>32. CASE ReadFromRemote
  BY <1>32 DEF ReadFromRemote
<1>33. CASE ReadForRemote
  BY <1>33 DEF ReadForRemote
<1>34. CASE ReadFromBrowser
  BY <1>34 DEF ReadFromBrowser
<1> QED
  BY <1>1, <1>2, <1>3, <1>4, <1>5, <1>6, <1>7, <1>8, <1>9, <1>10, <1>11,
     <1>12, <1>13, <1>14, <1>15, <1>16, <1>17, <1>18, <1>19, <1>20, <1>21,
     <1>22, <1>23, <1>24, <1>25, <1>26, <1>27, <1>28, <1>29, <1>30, <1>31,
     <1>32, <1>33, <1>34
     DEF Next, DoRequest, KeepConnection, HttpRequest, Upstream, Writer

LEMMA PhasesStep == Control /\ [Next]_vars => Phases' /\ Fresh'
<1> SUFFICES ASSUME Control, [Next]_vars PROVE Phases' /\ Fresh'
  OBVIOUS
<1> USE DEF Control, TypeOK, Phases, Fresh, ReplyFirst, Severed, Copying, server,
        tunnel, browserVars, remoteVars, Ended
<1>1. CASE Select
  BY <1>1 DEF Select
<1>2. CASE Timeout
  BY <1>2 DEF Timeout
<1>3. CASE ErrorResponse
  BY <1>3 DEF ErrorResponse
<1>4. CASE Refuse
  BY <1>4 DEF Refuse
<1>5. CASE Connect
  BY <1>5 DEF Connect
<1>6. CASE LoginReply
  BY <1>6 DEF LoginReply
<1>7. CASE ServeError
  BY <1>7 DEF ServeError
<1>8. CASE Serve
  BY <1>8 DEF Serve
<1>9. CASE CopyEnds
  BY <1>9 DEF CopyEnds, FromRemoteEnds
<1>10. CASE CopyFromRemote
  BY <1>10 DEF CopyFromRemote
<1>11. CASE RemoteTakes
  BY <1>11 DEF RemoteTakes
<1>12. CASE CopyToRemoteEnds
  BY <1>12 DEF CopyToRemoteEnds
<1>13. CASE CopyToClosed
  BY <1>13 DEF CopyToClosed
<1>14. CASE Login
  BY <1>14 DEF Login
<1>15. CASE ReceiveFails
  BY <1>15 DEF ReceiveFails
<1>16. CASE Reply
  BY <1>16 DEF Reply
<1>17. CASE CopyFromBrowser
  BY <1>17 DEF CopyFromBrowser
<1>18. CASE CopyFromBrowserEnds
  BY <1>18 DEF CopyFromBrowserEnds, BrowserEnds
<1>19. CASE ClosePortalConn
  BY <1>19 DEF ClosePortalConn
<1>20. CASE BrowserTakes
  BY <1>20 DEF BrowserTakes
<1>21. CASE CopyToBrowserEnds
  BY <1>21 DEF CopyToBrowserEnds
<1>22. CASE BrowserSends
  BY <1>22 DEF BrowserSends
<1>23. CASE BrowserLeaves
  BY <1>23 DEF BrowserLeaves
<1>24. CASE RemoteSends
  BY <1>24 DEF RemoteSends
<1>25. CASE RemoteCloses
  BY <1>25 DEF RemoteCloses
<1>26. CASE AgentExits
  BY <1>26 DEF AgentExits
<1>27. CASE ServerExits
  BY <1>27 DEF ServerExits
<1>28. CASE Cut
  BY <1>28 DEF Cut
<1>29. CASE UNCHANGED vars
  BY <1>29 DEF vars
<1>30. CASE ReadForBrowser
  BY <1>30 DEF ReadForBrowser
<1>31. CASE CopyToGone
  BY <1>31 DEF CopyToGone
<1>32. CASE ReadFromRemote
  BY <1>32 DEF ReadFromRemote
<1>33. CASE ReadForRemote
  BY <1>33 DEF ReadForRemote
<1>34. CASE ReadFromBrowser
  BY <1>34 DEF ReadFromBrowser
<1> QED
  BY <1>1, <1>2, <1>3, <1>4, <1>5, <1>6, <1>7, <1>8, <1>9, <1>10, <1>11,
     <1>12, <1>13, <1>14, <1>15, <1>16, <1>17, <1>18, <1>19, <1>20, <1>21,
     <1>22, <1>23, <1>24, <1>25, <1>26, <1>27, <1>28, <1>29, <1>30, <1>31,
     <1>32, <1>33, <1>34
     DEF Next, DoRequest, KeepConnection, HttpRequest, Upstream, Writer

\* A goroutine takes a message in hand where there is one, and nothing but its
\* own steps removes it.
LEMMA HandsStep == Control /\ [Next]_vars => Hands'
<1> SUFFICES ASSUME Control, [Next]_vars PROVE Hands'
  OBVIOUS
<1>0. down \in Seq(Downs) /\ up \in Seq(Ups)
  BY DEF Control, TypeOK, Downs, Ups
<1> USE DEF Control, TypeOK, Phases, Hands, server, tunnel, browserVars,
        remoteVars
<1>1. CASE ReadForRemote \/ ReadForBrowser \/ ReadFromRemote \/ ReadFromBrowser
  BY <1>1 DEF ReadForRemote, ReadForBrowser, ReadFromRemote, ReadFromBrowser
<1>2. CASE RemoteTakes \/ CopyToClosed \/ BrowserTakes \/ CopyToGone
  BY <1>2 DEF RemoteTakes, CopyToClosed, BrowserTakes, CopyToGone
<1>3. CASE CopyFromBrowser
  <2>1. down' = down \/ down' = Append(down, FromBrowser[browserPassed'])
    BY <1>3 DEF CopyFromBrowser, Written
  <2>2. down' = down \/ down' # <<>>
    BY <1>0, <2>1
  <2> QED  BY <1>3, <2>2 DEF CopyFromBrowser
<1>4. CASE CopyFromRemote
  <2>1. up' = up \/ up' = Append(up, FromRemote[remotePassed'])
    BY <1>4 DEF CopyFromRemote, Written
  <2>2. up' = up \/ up' # <<>>
    BY <1>0, <2>1
  <2> QED  BY <1>4, <2>2 DEF CopyFromRemote
<1>5. CASE Reply
  <2>1. \/ down' = down
        \/ down' = Append(down, IF handler = "grant" THEN "ack" ELSE "nack")
    BY <1>5 DEF Reply
  <2>2. down' = down \/ down' # <<>>
    BY <1>0, <2>1
  <2> QED  BY <1>5, <2>2 DEF Reply
<1>6. CASE ServeError
  <2>1. up' = up \/ up' = Append(up, "error")
    BY <1>6 DEF ServeError, Written
  <2>2. up' = up \/ up' # <<>>
    BY <1>0, <2>1
  <2> QED  BY <1>6, <2>2 DEF ServeError
<1>7. CASE LoginReply
  <2>1. upstream = "none"
    BY <1>7 DEF LoginReply
  <2> QED  BY <1>7, <2>1 DEF LoginReply
<1>8. CASE Cut
  <2>1. /\ upstream = "write" => down' # <<>>
        /\ request = "write" => up' # <<>>
    BY <1>0, <1>8, Taken DEF Cut
  <2> QED  BY <1>8, <2>1 DEF Cut
<1>9. CASE ~(\/ ReadForRemote \/ ReadForBrowser \/ ReadFromRemote
             \/ ReadFromBrowser \/ RemoteTakes \/ CopyToClosed \/ BrowserTakes
             \/ CopyToGone \/ CopyFromBrowser \/ CopyFromRemote \/ Reply
             \/ ServeError \/ LoginReply \/ Cut)
  <2>1. /\ UNCHANGED <<down, up, browserPassed, remotePassed>>
        /\ browserSent' \in {browserSent, browserSent + 1}
        /\ remoteSent' \in {remoteSent, remoteSent + 1}
        /\ upstream' = "write" => upstream = "write"
        /\ request' = "write" => request = "write"
        /\ agent' = "write" => agent = "write"
        /\ writer' = "write" => writer = "write"
    BY <1>9 DEF Next, DoRequest, KeepConnection, HttpRequest, Upstream,
       Writer, Select, Timeout, ErrorResponse, Refuse, Connect, Serve, CopyEnds,
       FromRemoteEnds, CopyToRemoteEnds, Login, ReceiveFails,
       CopyFromBrowserEnds, BrowserEnds, ClosePortalConn, CopyToBrowserEnds,
       BrowserSends, BrowserLeaves, RemoteSends, RemoteCloses, AgentExits,
       ServerExits, vars
  <2> QED  BY <2>1
<1> QED  BY <1>1, <1>2, <1>3, <1>4, <1>5, <1>6, <1>7, <1>8, <1>9

LEMMA LoginStep == Control /\ [Next]_vars => ReplyFirst' /\ BeforeRemote'
<1> SUFFICES ASSUME Control, [Next]_vars PROVE ReplyFirst' /\ BeforeRemote'
  OBVIOUS
<1> USE Remote101 DEF Control, TypeOK, Phases, Fresh, ReplyFirst, BeforeRemote,
        Severed, Copying, server, tunnel, browserVars, remoteVars
<1>1. CASE Select
  BY <1>1 DEF Select
<1>2. CASE Timeout
  BY <1>2 DEF Timeout
<1>3. CASE ErrorResponse
  BY <1>3 DEF ErrorResponse
<1>4. CASE Refuse
  BY <1>4 DEF Refuse
<1>5. CASE Connect
  BY <1>5 DEF Connect
<1>6. CASE LoginReply
  BY <1>6 DEF LoginReply
<1>7. CASE ServeError
  BY <1>7, Single DEF ServeError, Written
<1>8. CASE Serve
  BY <1>8 DEF Serve
<1>9. CASE CopyEnds
  BY <1>9 DEF CopyEnds, FromRemoteEnds
<1>10. CASE CopyFromRemote
  BY <1>10 DEF CopyFromRemote
<1>11. CASE RemoteTakes
  BY <1>11 DEF RemoteTakes
<1>12. CASE CopyToRemoteEnds
  BY <1>12 DEF CopyToRemoteEnds
<1>13. CASE CopyToClosed
  BY <1>13 DEF CopyToClosed
<1>14. CASE Login
  BY <1>14 DEF Login
<1>15. CASE ReceiveFails
  BY <1>15 DEF ReceiveFails
<1>16. CASE Reply
  <2>1. CASE Severed
    BY <1>16, <2>1 DEF Reply
  <2>2. CASE ~Severed /\ down' = down
    BY <1>16, <2>2 DEF Reply
  <2>3. CASE ~Severed /\ down' # down
    <3>1. down = <<>> /\ agent = "login"
      BY <1>16, <2>3 DEF Reply
    <3>2. \/ handler = "grant" /\ down' = <<"ack">>
          \/ handler = "refuse" /\ down' = <<"nack">>
      BY <1>16, <2>3, <3>1, Single DEF Reply
    <3> QED  BY <1>16, <2>3, <3>1, <3>2, Single DEF Reply
  <2> QED  BY <2>1, <2>2, <2>3
<1>17. CASE CopyFromBrowser
  <2>1. remote # "none" /\ agent # "login"
    BY <1>17 DEF CopyFromBrowser, Hands
  <2> QED  BY <1>17, <2>1 DEF CopyFromBrowser
<1>18. CASE CopyFromBrowserEnds
  BY <1>18 DEF CopyFromBrowserEnds, BrowserEnds
<1>19. CASE ClosePortalConn
  BY <1>19 DEF ClosePortalConn
<1>20. CASE BrowserTakes
  <2>1. up # <<>>
    BY <1>20 DEF BrowserTakes, Hands
  <2>2. up = <<"error">> => Head(up) = "error" /\ Tail(up) = <<>>
    BY Single
  <2>3. browserGot = <<>> => Append(browserGot, "error") = <<"error">>
    BY Single
  <2> QED  BY <1>20, <2>1, <2>2, <2>3 DEF BrowserTakes
<1>21. CASE CopyToBrowserEnds
  BY <1>21 DEF CopyToBrowserEnds
<1>22. CASE BrowserSends
  BY <1>22 DEF BrowserSends
<1>23. CASE BrowserLeaves
  BY <1>23 DEF BrowserLeaves
<1>24. CASE RemoteSends
  BY <1>24 DEF RemoteSends
<1>25. CASE RemoteCloses
  BY <1>25 DEF RemoteCloses
<1>26. CASE AgentExits
  BY <1>26 DEF AgentExits
<1>27. CASE ServerExits
  BY <1>27 DEF ServerExits
<1>28. CASE Cut
  <2>1. agent = "login" => upstream = "none"
    OBVIOUS
  <2>2. request = "write" => up # <<>>
    BY DEF Hands
  <2>3. up = <<"error">> => <<Head(up)>> = up
    BY ONLY Single
  <2>4. remote = "none" => up' \in {<<>>, up}
    BY ONLY <1>28, <2>2, <2>3, BeforeRemote DEF Cut, BeforeRemote
  <2>5. UNCHANGED <<server, agent, upstream, closed, browserVars, remoteVars>>
    BY ONLY <1>28 DEF Cut
  <2>6. agent \in {"login", "serve"} => down' = <<>>
    BY ONLY <1>28, <2>1, ReplyFirst, Phases DEF Cut, ReplyFirst, Phases
  <2>7. ReplyFirst'
    BY ONLY <2>5, <2>6 DEF ReplyFirst, server
  <2>8. BeforeRemote'
    BY ONLY <2>4, <2>5, BeforeRemote
       DEF BeforeRemote, browserVars, remoteVars
  <2> QED  BY ONLY <2>7, <2>8
<1>29. CASE UNCHANGED vars
  BY <1>29 DEF vars
<1>30. CASE ReadForBrowser
  BY <1>30 DEF ReadForBrowser
<1>31. CASE CopyToGone
  BY <1>31 DEF CopyToGone
<1>32. CASE ReadFromRemote
  BY <1>32 DEF ReadFromRemote
<1>33. CASE ReadForRemote
  BY <1>33 DEF ReadForRemote
<1>34. CASE ReadFromBrowser
  BY <1>34 DEF ReadFromBrowser
<1> QED
  BY <1>1, <1>2, <1>3, <1>4, <1>5, <1>6, <1>7, <1>8, <1>9, <1>10, <1>11,
     <1>12, <1>13, <1>14, <1>15, <1>16, <1>17, <1>18, <1>19, <1>20, <1>21,
     <1>22, <1>23, <1>24, <1>25, <1>26, <1>27, <1>28, <1>29, <1>30, <1>31,
     <1>32, <1>33, <1>34
     DEF Next, DoRequest, KeepConnection, HttpRequest, Upstream, Writer

\* The head of a queue goes where it comes next, and the rest goes on behind it.
LEMMA HeadMoves ==
  ASSUME NEW S, NEW q \in Seq(S), q # <<>>, NEW T, NEW got \in Seq(T),
         NEW stream, Continues(got, stream, 0), Continues(q, stream, Len(got))
  PROVE  /\ Len(Append(got, Head(q))) = Len(got) + 1
         /\ Len(Tail(q)) + 1 = Len(q)
         /\ Continues(Append(got, Head(q)), stream, 0)
         /\ Continues(Tail(q), stream, Len(got) + 1)
         /\ Head(q) = stream[Len(got) + 1]
<1> DEFINE more == Append(got, Head(q))
           left == Tail(q)
<1>1. /\ Len(more) = Len(got) + 1
      /\ \A i \in 1 .. Len(got) : more[i] = got[i]
      /\ more[Len(got) + 1] = q[1]
  OBVIOUS
<1>2. /\ Len(left) + 1 = Len(q) /\ Head(q) = q[1] /\ 1 \in 1 .. Len(q)
      /\ \A i \in 1 .. Len(left) : left[i] = q[i + 1]
  OBVIOUS
<1>3. q[1] = stream[Len(got) + 1]
  BY <1>2 DEF Continues
<1>4. Continues(more, stream, 0)
  BY <1>1, <1>3 DEF Continues
<1>5. ASSUME NEW i \in 1 .. Len(left) PROVE left[i] = stream[Len(got) + 1 + i]
  <2>1. i + 1 \in 1 .. Len(q) /\ Len(got) + (i + 1) = Len(got) + 1 + i
    BY <1>2
  <2> QED  BY <1>2, <2>1 DEF Continues
<1> QED  BY <1>1, <1>2, <1>3, <1>4, <1>5 DEF Continues

\* A message that is added goes on where the queue ends.
LEMMA TailGrows ==
  ASSUME NEW S, NEW q \in Seq(S), NEW stream, NEW n \in Nat,
         Continues(q, stream, n)
  PROVE  /\ Len(Append(q, stream[n + Len(q) + 1])) = Len(q) + 1
         /\ Continues(Append(q, stream[n + Len(q) + 1]), stream, n)
<1> DEFINE more == Append(q, stream[n + Len(q) + 1])
<1>1. /\ Len(more) = Len(q) + 1
      /\ \A i \in 1 .. Len(q) : more[i] = q[i]
      /\ more[Len(q) + 1] = stream[n + Len(q) + 1]
  OBVIOUS
<1>2. ASSUME NEW i \in 1 .. Len(more) PROVE more[i] = stream[n + i]
  <2>1. i \in 1 .. Len(q) \/ (i = Len(q) + 1 /\ n + i = n + Len(q) + 1)
    BY <1>1
  <2> QED  BY <1>1, <2>1 DEF Continues
<1> QED  BY <1>1, <1>2 DEF Continues

\* What one end reads the other has written: the head of what is in the tunnel
\* is what comes next.
LEMMA DownStep == Control /\ DownFits /\ [Next]_vars => DownFits'
<1> SUFFICES ASSUME Control, DownFits, [Next]_vars PROVE DownFits'
  OBVIOUS
<1>0. /\ down \in Seq(Downs) /\ remoteGot \in Seq(ToSet(FromBrowser))
      /\ browserPassed \in Nat /\ Len(remoteGot) \in Nat /\ Len(down) \in Nat
  BY StreamsType DEF Control, TypeOK, Downs
<1>1. CASE Serve
  BY <1>1 DEF Serve, Control, TypeOK, Phases, ReplyFirst, BeforeRemote, DownFits,
     Continues, tunnel, browserVars
<1>2. CASE RemoteTakes
  <2> SUFFICES ASSUME remote # "none" PROVE DownFits'
    BY <1>2 DEF RemoteTakes, DownFits, Control, Phases, remoteVars
  <2>1. /\ down' = Tail(down) /\ down # <<>>
        /\ remoteGot' = Append(remoteGot, Head(down))
        /\ UNCHANGED <<browserPassed, remote, browser, closed, cut>>
        /\ remote = "open" /\ upstream \in {"run", "write"} /\ (remote = "open" /\ upstream \in {"run", "write"})'
    BY <1>2 DEF RemoteTakes, Control, Hands, Copying, browserVars, remoteVars, server
  <2>2. /\ Len(remoteGot) + Len(down) <= browserPassed
        /\ ~Severed => Len(remoteGot) + Len(down) = browserPassed
        /\ Continues(remoteGot, FromBrowser, 0)
        /\ Continues(down, FromBrowser, Len(remoteGot))
    BY <2>1 DEF DownFits
  <2>3. /\ Len(remoteGot') = Len(remoteGot) + 1
        /\ Len(down') + 1 = Len(down)
        /\ Continues(remoteGot', FromBrowser, 0)
        /\ Continues(down', FromBrowser, Len(remoteGot'))
    BY <1>0, <2>1, <2>2, HeadMoves
  <2>4. Len(down') \in Nat
    BY <1>0, <2>1
  <2>5. /\ Len(remoteGot') + Len(down') = Len(remoteGot) + Len(down)
        /\ Len(remoteGot') <= browserPassed
    BY <1>0, <2>2, <2>3, <2>4
  <2> QED  BY <2>1, <2>2, <2>3, <2>5 DEF DownFits, Severed
<1>3. CASE CopyToClosed
  BY <1>3 DEF CopyToClosed, DownFits, Continues, Copying, browserVars, remoteVars
<1>4. CASE CopyFromBrowser
  <2>1. /\ UNCHANGED <<remoteGot, remote, browser, closed, cut>>
        /\ browserPassed' = browserPassed + 1
        /\ down' = Written(down, FromBrowser[browserPassed + 1])
        /\ UNCHANGED upstream
    BY <1>4 DEF CopyFromBrowser, browserVars, remoteVars, server
  <2> HIDE <1>4
  <2>2. CASE Severed
    BY <1>0, <2>1, <2>2 DEF DownFits, Written, Severed, Copying
  <2>3. CASE ~Severed
    <3> SUFFICES ASSUME remote # "none" PROVE DownFits'
      BY <1>0, <2>1 DEF DownFits, Control, Phases
    <3>1. /\ Len(remoteGot) <= browserPassed'
          /\ Continues(remoteGot, FromBrowser, 0)
      BY <1>0, <2>1 DEF DownFits
    <3>2. ASSUME remote = "open", upstream \in {"run", "write"}
          PROVE  /\ Len(remoteGot) + Len(down') = browserPassed'
                 /\ Continues(down', FromBrowser, Len(remoteGot))
      <4>1. /\ Len(remoteGot) + Len(down) = browserPassed
            /\ Continues(down, FromBrowser, Len(remoteGot))
        BY <2>3, <3>2 DEF DownFits
      <4>2. down' = Append(down, FromBrowser[Len(remoteGot) + Len(down) + 1])
        BY <2>1, <2>3, <4>1 DEF Written
      <4>3. Len(down') = Len(down) + 1 /\ Continues(down', FromBrowser, Len(remoteGot))
        BY <1>0, <4>1, <4>2, TailGrows
      <4> QED  BY <1>0, <2>1, <4>1, <4>3
    <3>3. browserPassed' \in Nat
      BY <1>0, <2>1
    <3> QED  BY <2>1, <2>3, <3>1, <3>2, <3>3 DEF DownFits, Severed, Copying
  <2> QED  BY <2>2, <2>3
<1>5. CASE Cut
  <2>1. /\ UNCHANGED <<remoteGot, browserPassed, remote, browser, request, upstream>>
        /\ Severed'
        /\ down' = <<>> \/ (down # <<>> /\ down' = <<Head(down)>>)
    BY <1>5 DEF Cut, Severed, Control, Hands, browserVars, remoteVars, server
  <2>2. /\ Len(down') <= Len(down) /\ Len(down') \in {0, 1}
        /\ \A i \in 1 .. Len(down') : i \in 1 .. Len(down) /\ down'[i] = down[i]
    BY <1>0, <2>1
  <2>3. Continues(down, FromBrowser, Len(remoteGot)) => Continues(down', FromBrowser, Len(remoteGot))
    BY <2>2 DEF Continues
  <2>4. Len(remoteGot) + Len(down) <= browserPassed => Len(remoteGot) + Len(down') <= browserPassed
    BY <1>0, <2>2
  <2> QED  BY <2>1, <2>3, <2>4 DEF DownFits, Copying
<1>6. CASE ~(\/ Serve \/ RemoteTakes \/ CopyToClosed \/ CopyFromBrowser
             \/ Cut)
  <2>1. /\ UNCHANGED <<remoteGot, browserPassed>>
        /\ Severed => Severed'
        /\ remote' = "open" /\ upstream' \in {"run", "write"} =>
              /\ remote = "open" /\ upstream \in {"run", "write"}
              /\ UNCHANGED down
    BY <1>6 DEF Control, TypeOK, Phases, Fresh, Copying, BrowserTakes, CopyToGone, CopyFromRemote,
       Next, DoRequest, KeepConnection, HttpRequest, Upstream, Writer,
       Select, Timeout, ErrorResponse, Refuse, Connect, LoginReply, ServeError,
       CopyEnds, FromRemoteEnds, ReadFromRemote, ReadForRemote,
       CopyToRemoteEnds, Login, ReceiveFails, Reply, ReadFromBrowser,
       CopyFromBrowserEnds, BrowserEnds, ClosePortalConn, ReadForBrowser,
       CopyToBrowserEnds, BrowserSends, BrowserLeaves, RemoteSends,
       RemoteCloses, AgentExits, ServerExits, vars, server, tunnel,
       browserVars, remoteVars, Severed
  <2> QED  BY <2>1 DEF DownFits, Continues
<1> QED  BY <1>1, <1>2, <1>3, <1>4, <1>5, <1>6

LEMMA UpStep == Control /\ UpFits /\ [Next]_vars => UpFits'
<1> SUFFICES ASSUME Control, UpFits, [Next]_vars PROVE UpFits'
  OBVIOUS
<1>0. /\ up \in Seq(Ups) /\ browserGot \in Seq(Ups)
      /\ remotePassed \in Nat /\ Len(browserGot) \in Nat /\ Len(up) \in Nat
  BY StreamsType DEF Control, TypeOK, Ups
<1>1. CASE Serve
  BY <1>1 DEF Serve, Control, TypeOK, Phases, ReplyFirst, BeforeRemote, UpFits,
     Continues, tunnel, browserVars
<1>2. CASE BrowserTakes
  <2> SUFFICES ASSUME remote # "none" PROVE UpFits'
    BY <1>2 DEF BrowserTakes, UpFits, Control, Phases, remoteVars
  <2>1. /\ up' = Tail(up) /\ up # <<>>
        /\ browserGot' = Append(browserGot, Head(up))
        /\ UNCHANGED <<remotePassed, remote, browser, closed, cut>>
        /\ browser = "open" /\ Copying /\ (browser = "open" /\ Copying)'
    BY <1>2 DEF BrowserTakes, Control, Hands, Copying, browserVars, remoteVars, server
  <2>2. /\ Len(browserGot) + Len(up) <= remotePassed
        /\ ~Severed => Len(browserGot) + Len(up) = remotePassed
        /\ Continues(browserGot, FromRemote, 0)
        /\ Continues(up, FromRemote, Len(browserGot))
    BY <2>1 DEF UpFits
  <2>3. /\ Len(browserGot') = Len(browserGot) + 1
        /\ Len(up') + 1 = Len(up)
        /\ Continues(browserGot', FromRemote, 0)
        /\ Continues(up', FromRemote, Len(browserGot'))
    BY <1>0, <2>1, <2>2, HeadMoves
  <2>4. Len(up') \in Nat
    BY <1>0, <2>1
  <2>5. /\ Len(browserGot') + Len(up') = Len(browserGot) + Len(up)
        /\ Len(browserGot') <= remotePassed
    BY <1>0, <2>2, <2>3, <2>4
  <2> QED  BY <2>1, <2>2, <2>3, <2>5 DEF UpFits, Severed
<1>3. CASE CopyToGone
  BY <1>3 DEF CopyToGone, UpFits, Continues, Copying, browserVars, remoteVars
<1>4. CASE CopyFromRemote
  <2>1. /\ UNCHANGED <<browserGot, remote, browser, closed, cut>>
        /\ remotePassed' = remotePassed + 1
        /\ up' = Written(up, FromRemote[remotePassed + 1])
        /\ UNCHANGED request
    BY <1>4 DEF CopyFromRemote, browserVars, remoteVars, server
  <2> HIDE <1>4
  <2>2. CASE Severed
    BY <1>0, <2>1, <2>2 DEF UpFits, Written, Severed, Copying
  <2>3. CASE ~Severed
    <3> SUFFICES ASSUME remote # "none" PROVE UpFits'
      BY <1>0, <2>1 DEF UpFits, Control, Phases
    <3>1. /\ Len(browserGot) <= remotePassed'
          /\ Continues(browserGot, FromRemote, 0)
      BY <1>0, <2>1 DEF UpFits
    <3>2. ASSUME browser = "open", Copying
          PROVE  /\ Len(browserGot) + Len(up') = remotePassed'
                 /\ Continues(up', FromRemote, Len(browserGot))
      <4>1. /\ Len(browserGot) + Len(up) = remotePassed
            /\ Continues(up, FromRemote, Len(browserGot))
        BY <2>3, <3>2 DEF UpFits
      <4>2. up' = Append(up, FromRemote[Len(browserGot) + Len(up) + 1])
        BY <2>1, <2>3, <4>1 DEF Written
      <4>3. Len(up') = Len(up) + 1 /\ Continues(up', FromRemote, Len(browserGot))
        BY <1>0, <4>1, <4>2, TailGrows
      <4> QED  BY <1>0, <2>1, <4>1, <4>3
    <3>3. remotePassed' \in Nat
      BY <1>0, <2>1
    <3> QED  BY <2>1, <2>3, <3>1, <3>2, <3>3 DEF UpFits, Severed, Copying
  <2> QED  BY <2>2, <2>3
<1>5. CASE Cut
  <2>1. /\ UNCHANGED <<browserGot, remotePassed, remote, browser, request, upstream>>
        /\ Severed'
        /\ up' = <<>> \/ (up # <<>> /\ up' = <<Head(up)>>)
    BY <1>5 DEF Cut, Severed, Control, Hands, browserVars, remoteVars, server
  <2>2. /\ Len(up') <= Len(up) /\ Len(up') \in {0, 1}
        /\ \A i \in 1 .. Len(up') : i \in 1 .. Len(up) /\ up'[i] = up[i]
    BY <1>0, <2>1
  <2>3. Continues(up, FromRemote, Len(browserGot)) => Continues(up', FromRemote, Len(browserGot))
    BY <2>2 DEF Continues
  <2>4. Len(browserGot) + Len(up) <= remotePassed => Len(browserGot) + Len(up') <= remotePassed
    BY <1>0, <2>2
  <2> QED  BY <2>1, <2>3, <2>4 DEF UpFits, Copying
<1>6. CASE ~(\/ Serve \/ BrowserTakes \/ CopyToGone \/ CopyFromRemote
             \/ Cut)
  <2>1. /\ UNCHANGED <<browserGot, remotePassed>>
        /\ Severed => Severed'
        /\ remote' # "none" =>
              /\ remote # "none"
              /\ UNCHANGED up
              /\ browser' = "open" => browser = "open"
              /\ Copying' => Copying
    BY <1>6 DEF Control, TypeOK, Phases, Fresh, Copying, RemoteTakes, CopyToClosed, CopyFromBrowser,
       Next, DoRequest, KeepConnection, HttpRequest, Upstream, Writer,
       Select, Timeout, ErrorResponse, Refuse, Connect, LoginReply, ServeError,
       CopyEnds, FromRemoteEnds, ReadFromRemote, ReadForRemote,
       CopyToRemoteEnds, Login, ReceiveFails, Reply, ReadFromBrowser,
       CopyFromBrowserEnds, BrowserEnds, ClosePortalConn, ReadForBrowser,
       CopyToBrowserEnds, BrowserSends, BrowserLeaves, RemoteSends,
       RemoteCloses, AgentExits, ServerExits, vars, server, tunnel,
       browserVars, remoteVars, Severed
  <2> QED  BY <2>1 DEF UpFits, Continues
<1> QED  BY <1>1, <1>2, <1>3, <1>4, <1>5, <1>6

LEMMA EndStep == IInv /\ [Next]_vars => EndsInOrder'
<1> SUFFICES ASSUME IInv, Quiet', [Next]_vars PROVE EndsInOrder'
  BY DEF EndsInOrder
<1>0. Quiet
  BY DEF Quiet, IInv, Control, TypeOK, Next, DoRequest, KeepConnection,
     HttpRequest, Upstream, Writer, Select, Timeout, ErrorResponse, Refuse,
     Connect, LoginReply, ServeError, Serve, CopyEnds, CopyFromRemote,
     RemoteTakes, CopyToRemoteEnds, CopyToClosed, ReadForBrowser, CopyToGone, ReadFromRemote, ReadForRemote, ReadFromBrowser, Login, ReceiveFails, Reply,
     CopyFromBrowser, CopyFromBrowserEnds, ClosePortalConn, BrowserTakes,
     CopyToBrowserEnds, BrowserSends, BrowserLeaves, RemoteSends,
     RemoteCloses, AgentExits, ServerExits, Cut, vars, tunnel, browserVars
<1> USE DEF IInv, Control, TypeOK, Phases, Fresh, BeforeRemote, Severed, Copying,
        Quiet, EndsInOrder, server, tunnel, browserVars, remoteVars, Ended
<1>1. CASE Select
  BY <1>0, <1>1 DEF Select
<1>2. CASE Timeout
  BY <1>0, <1>2 DEF Timeout
<1>3. CASE ErrorResponse
  BY <1>0, <1>3 DEF ErrorResponse
<1>4. CASE Refuse
  BY <1>0, <1>4 DEF Refuse
<1>5. CASE Connect
  BY <1>0, <1>5 DEF Connect
<1>6. CASE LoginReply
  BY <1>0, <1>6 DEF LoginReply
<1>7. CASE ServeError
  BY <1>0, <1>7, Single DEF ServeError, Written
<1>8. CASE Serve
  BY <1>0, <1>8 DEF Serve
<1>9. CASE CopyEnds
  BY <1>0, <1>9 DEF CopyEnds, FromRemoteEnds
<1>10. CASE CopyFromRemote
  <2>1. ~Severed /\ remote # "none"
    BY <1>0, <1>10 DEF CopyFromRemote
  <2>2. Len(up') = Len(up) + 1 /\ remotePassed' = remotePassed + 1
    BY <1>10, <2>1 DEF CopyFromRemote, Written
  <2>3. Len(browserGot) + Len(up') = remotePassed'
    <3>1. /\ Len(browserGot) + Len(up) = remotePassed
          /\ Len(browserGot) \in Nat /\ Len(up) \in Nat
      BY <1>0, <2>1
    <3> HIDE DEF IInv, Control, TypeOK, Phases, EndsInOrder
    <3> QED  BY <2>2, <3>1
  <2>4. agent = "write" /\ "agent" \notin closed
    BY <1>10 DEF CopyFromRemote
  <2>5. UNCHANGED <<request, broken, closed, browserGot, remote, stopped>>
    BY <1>10 DEF CopyFromRemote
  <2> QED  BY <1>0, <2>1, <2>3, <2>4, <2>5
<1>11. CASE RemoteTakes
  BY <1>0, <1>11 DEF RemoteTakes
<1>12. CASE CopyToRemoteEnds
  BY <1>0, <1>12 DEF CopyToRemoteEnds
<1>13. CASE CopyToClosed
  BY <1>0, <1>13 DEF CopyToClosed
<1>14. CASE Login
  BY <1>0, <1>14 DEF Login
<1>15. CASE ReceiveFails
  BY <1>0, <1>15 DEF ReceiveFails
<1>16. CASE Reply
  BY <1>0, <1>16 DEF Reply
<1>17. CASE CopyFromBrowser
  BY <1>0, <1>17 DEF CopyFromBrowser
<1>18. CASE CopyFromBrowserEnds
  BY <1>0, <1>18 DEF CopyFromBrowserEnds, BrowserEnds, Hands
<1>19. CASE ClosePortalConn
  BY <1>0, <1>19 DEF ClosePortalConn
<1>20. CASE BrowserTakes
  <2>1. /\ browserGot' = Append(browserGot, Head(up)) /\ up' = Tail(up)
        /\ up # <<>> /\ request = "write" /\ request' = "tunnel"
    BY <1>0, <1>20 DEF BrowserTakes, Hands
  <2>2. Len(browserGot') = Len(browserGot) + 1 /\ Len(up') + 1 = Len(up)
    BY <2>1
  <2>3. CASE remote = "none"
    <3>1. up = <<"error">> /\ browserGot = <<>>
      BY <2>1, <2>3
    <3>2. browserGot' = <<"error">>
      BY <2>1, <3>1, Single
    <3> QED  BY <1>0, <1>20, <2>1, <2>3, <3>2 DEF BrowserTakes
  <2>4. CASE remote # "none"
    <3>1. Len(browserGot') + Len(up') = remotePassed
      <4>1. Len(browserGot) + Len(up) = remotePassed
        BY <1>0, <2>4
      <4>2. Len(browserGot) \in Nat /\ Len(up') \in Nat
        BY <2>1
      <4> HIDE DEF IInv, Control, TypeOK, Phases, EndsInOrder
      <4> QED  BY <2>2, <4>1, <4>2
    <3>2. UNCHANGED <<closed, broken, remoteVars>>
      BY <1>20 DEF BrowserTakes
    <3> QED  BY <1>0, <2>1, <2>4, <3>1, <3>2
  <2> QED  BY <2>3, <2>4
<1>21. CASE CopyToBrowserEnds
  BY <1>0, <1>21 DEF CopyToBrowserEnds
<1>22. CASE BrowserSends
  BY <1>0, <1>22 DEF BrowserSends
<1>23. CASE BrowserLeaves
  BY <1>0, <1>23 DEF BrowserLeaves
<1>24. CASE RemoteSends
  BY <1>0, <1>24 DEF RemoteSends
<1>25. CASE RemoteCloses
  BY <1>0, <1>25 DEF RemoteCloses
<1>26. CASE AgentExits
  BY <1>0, <1>26 DEF AgentExits
<1>27. CASE ServerExits
  BY <1>0, <1>27 DEF ServerExits
<1>28. CASE Cut
  BY <1>0, <1>28 DEF Cut
<1>29. CASE UNCHANGED vars
  BY <1>29 DEF vars
<1>30. CASE ReadForBrowser
  BY <1>30 DEF ReadForBrowser
<1>31. CASE CopyToGone
  BY <1>31 DEF CopyToGone
<1>32. CASE ReadFromRemote
  BY <1>32 DEF ReadFromRemote
<1>33. CASE ReadForRemote
  BY <1>33 DEF ReadForRemote
<1>34. CASE ReadFromBrowser
  BY <1>34 DEF ReadFromBrowser
<1> QED
  BY <1>1, <1>2, <1>3, <1>4, <1>5, <1>6, <1>7, <1>8, <1>9, <1>10, <1>11,
     <1>12, <1>13, <1>14, <1>15, <1>16, <1>17, <1>18, <1>19, <1>20, <1>21,
     <1>22, <1>23, <1>24, <1>25, <1>26, <1>27, <1>28, <1>29, <1>30, <1>31,
     <1>32, <1>33, <1>34
     DEF Next, DoRequest, KeepConnection, HttpRequest, Upstream, Writer

LEMMA InitIInv == Init => IInv
<1> SUFFICES ASSUME Init PROVE IInv
  OBVIOUS
<1>1. TypeOK
  <2>1. Len(FromBrowser) \in Nat /\ Len(FromRemote) \in Nat
    BY StreamsType
  <2>2. /\ down \in Seq(ToSet(FromBrowser) \cup {"ack", "nack"})
        /\ up \in Seq(ToSet(FromRemote) \cup {"error"})
        /\ browserGot \in Seq(ToSet(FromRemote) \cup {"error"})
        /\ remoteGot \in Seq(ToSet(FromBrowser))
    BY DEF Init
  <2>3. /\ browserSent \in 0 .. Len(FromBrowser) /\ browserPassed \in 0 .. browserSent
        /\ remoteSent \in 0 .. Len(FromRemote) /\ remotePassed \in 0 .. remoteSent
    BY <2>1 DEF Init
  <2>4. Len(down) <= Window /\ Len(up) <= Window
    BY WindowType DEF Init
  <2> QED  BY <2>2, <2>3, <2>4 DEF Init, TypeOK
<1>2. Phases /\ Hands /\ Fresh /\ ReplyFirst /\ BeforeRemote /\ UpFits
  BY DEF Init, Phases, Hands, Copying, Fresh, ReplyFirst, BeforeRemote, UpFits
<1>3. DownFits /\ EndsInOrder
  BY DEF Init, DownFits, Continues, EndsInOrder, Copying
<1> QED  BY <1>1, <1>2, <1>3 DEF IInv, Control

LEMMA NextIInv == IInv /\ [Next]_vars => IInv'
<1> SUFFICES ASSUME IInv, [Next]_vars PROVE IInv'
  OBVIOUS
<1>1. TypeOK'
  BY TypeStep DEF IInv
<1>2. Phases' /\ Fresh' /\ Hands'
  BY PhasesStep, HandsStep DEF IInv
<1>3. ReplyFirst' /\ BeforeRemote'
  BY LoginStep DEF IInv
<1>4. DownFits' /\ UpFits' /\ EndsInOrder'
  BY DownStep, UpStep, EndStep DEF IInv
<1> QED  BY <1>1, <1>2, <1>3, <1>4 DEF IInv, Control

\* The strengthening is an invariant of the tunnel.
THEOREM Invariance == Spec => []IInv
BY InitIInv, NextIInv, PTL DEF Spec

\* What has been read at one end never exceeds what was sent, and the streams
\* hold nothing but what was said.
THEOREM TypeCorrect == Spec => []TypeOK
BY Invariance, PTL DEF IInv, Control

\* A sequence that continues a stream from its beginning is its prefix.
LEMMA ContinuesPrefix ==
  ASSUME NEW S, NEW s \in Seq(S), NEW T, NEW t \in Seq(T),
         Continues(s, t, 0), Len(s) <= Len(t)
  PROVE  IsPrefix(s, t) /\ s = SubSeq(t, 1, Len(s))
<1>1. \A i \in 1 .. Len(s) : s[i] = t[i]
  BY DEF Continues
<1>2. s = SubSeq(t, 1, Len(s))
  BY <1>1
<1>3. s = SubSeq(s, 1, Len(s))
  OBVIOUS
<1> QED  BY <1>2, <1>3 DEF IsPrefix

\* Browser and remote server get each other's bytes in order and no others,
\* for any two streams.
THEOREM Transparent == Spec => []TunnelIsTransparent
<1>1. IInv => TunnelIsTransparent
  <2> SUFFICES ASSUME IInv PROVE TunnelIsTransparent
    OBVIOUS
  <2> USE StreamsType DEF IInv, Control, TypeOK
  <2>1. IsPrefix(remoteGot, FromBrowser)
    BY ContinuesPrefix DEF DownFits
  <2>2. CASE remote = "none"
    <3>1. CASE browserGot = <<>>
      <4>1. Continues(browserGot, FromRemote, 0) /\ Len(browserGot) = 0
        BY <3>1 DEF Continues
      <4>2. Len(browserGot) <= Len(FromRemote)
        BY <4>1
      <4>3. IsPrefix(browserGot, FromRemote)
        BY <4>1, <4>2, ContinuesPrefix
      <4> QED  BY <2>1, <4>3 DEF TunnelIsTransparent
    <3> QED  BY <2>1, <2>2, <3>1 DEF BeforeRemote, TunnelIsTransparent
  <2>3. CASE remote # "none"
    <3>1. IsPrefix(browserGot, FromRemote)
      BY <2>3, ContinuesPrefix DEF UpFits
    <3> QED  BY <2>1, <3>1 DEF TunnelIsTransparent
  <2> QED  BY <2>2, <2>3
<1> QED  BY <1>1, Invariance, PTL

\* The end of the tunnel never overtakes what the remote server said, for any
\* two streams.
THEOREM NothingMissed == Spec => []ListenerMissesNothing
<1>1. IInv => ListenerMissesNothing
  <2> SUFFICES ASSUME IInv, request = "done", Quiet
               PROVE  ListenerMissesNothing
    BY DEF ListenerMissesNothing, Quiet
  <2> USE StreamsType DEF IInv, Control, TypeOK, EndsInOrder
  <2>1. up = <<>> /\ "agent" \in closed
    OBVIOUS
  <2>2. CASE remote = "none"
    BY <2>1, <2>2 DEF BeforeRemote, ListenerMissesNothing
  <2>3. CASE remote # "none"
    <3>1. /\ Len(browserGot) = remotePassed
          /\ stopped \/ remotePassed = remoteSent
      BY <2>1, <2>3
    <3>2. browserGot = SubSeq(FromRemote, 1, remotePassed)
      <4>1. /\ browserGot \in Seq(Ups) /\ FromRemote \in Seq(ToSet(FromRemote))
            /\ Continues(browserGot, FromRemote, 0)
            /\ remotePassed <= Len(FromRemote)
        BY <2>3 DEF UpFits, Ups
      <4> HIDE DEF IInv, Control, TypeOK, EndsInOrder
      <4> QED  BY <3>1, <4>1, ContinuesPrefix
    <3> QED  BY <2>3, <3>1, <3>2 DEF ListenerMissesNothing
  <2> QED  BY <2>2, <2>3
<1> QED  BY <1>1, Invariance, PTL

-----------------------------------------------------------------------------
(* The refinement of Duplex *)

\* The heads of what is in the tunnel are the next messages of the streams.
LEMMA ToRemoteStep == ASSUME IInv, RemoteTakes PROVE Streams!ToRemote
<1>1. /\ remote = "open" /\ upstream = "write" /\ down # <<>>
      /\ remoteGot' = Append(remoteGot, Head(down))
      /\ UNCHANGED <<browserSent, remoteSent, browserGot>>
  BY DEF RemoteTakes, IInv, Control, Hands, browserVars
<1>2. /\ Len(remoteGot) + Len(down) <= browserPassed
      /\ Continues(remoteGot, FromBrowser, 0)
      /\ Continues(down, FromBrowser, Len(remoteGot))
  BY <1>1 DEF IInv, DownFits
<1>3. /\ down \in Seq(Downs) /\ remoteGot \in Seq(ToSet(FromBrowser))
      /\ browserPassed \in 0 .. browserSent /\ browserSent \in Nat
  BY StreamsType DEF IInv, Control, TypeOK, Downs
<1>4. Head(down) = FromBrowser[Len(remoteGot) + 1]
  BY <1>1, <1>2, <1>3, HeadMoves
<1>5. Len(down) \in Nat \ {0} /\ Len(remoteGot) \in Nat
  BY <1>1, <1>3
<1>6. Len(remoteGot) < browserSent
  BY <1>2, <1>3, <1>5
<1> QED  BY <1>1, <1>4, <1>6 DEF Streams!ToRemote

LEMMA ToBrowserStep ==
  ASSUME IInv, BrowserTakes PROVE Streams!ToBrowser \/ Streams!Refuse
<1>1. /\ browser = "open" /\ request = "write" /\ up # <<>>
      /\ browserGot' = Append(browserGot, Head(up))
      /\ UNCHANGED <<browserSent, remoteSent, remoteGot>>
  BY DEF BrowserTakes, IInv, Control, Hands, remoteVars
<1>2. CASE remote = "none"
  <2>1. up = <<"error">> /\ browserGot = <<>> /\ remoteSent = 0
    BY <1>1, <1>2 DEF IInv, Control, BeforeRemote
  <2>2. browserGot' = <<"error">>
    BY <1>1, <2>1, Single
  <2> QED  BY <1>1, <2>1, <2>2 DEF Streams!Refuse
<1>3. CASE remote # "none"
  <2>1. /\ Len(browserGot) + Len(up) <= remotePassed
        /\ Continues(browserGot, FromRemote, 0)
        /\ Continues(up, FromRemote, Len(browserGot))
    BY <1>1, <1>3 DEF IInv, UpFits, Copying
  <2>2. /\ up \in Seq(Ups) /\ browserGot \in Seq(Ups)
        /\ remotePassed \in 0 .. remoteSent /\ remoteSent \in Nat
    BY StreamsType DEF IInv, Control, TypeOK, Ups
  <2>3. Head(up) = FromRemote[Len(browserGot) + 1]
    BY <1>1, <2>1, <2>2, HeadMoves
  <2>4. Len(up) \in Nat \ {0} /\ Len(browserGot) \in Nat
    BY <1>1, <2>2
  <2>5. Len(browserGot) < remoteSent
    BY <2>1, <2>2, <2>4
  <2> QED  BY <1>1, <2>3, <2>5 DEF Streams!ToBrowser
<1> QED  BY <1>2, <1>3

\* The ends speak as Duplex lets them.
LEMMA EndsSpeak ==
  ASSUME IInv
  PROVE  /\ BrowserSends => Streams!BrowserSends
         /\ RemoteSends => Streams!RemoteSends
<1> USE DEF IInv, Control, TypeOK
<1>1. FromRemote[1] # "error" /\ <<"error">>[1] = "error"
  BY Remote101
<1>2. ASSUME BrowserSends PROVE Streams!BrowserSends
  <2>1. browserGot # <<>> /\ browserGot # <<"error">>
    BY <1>1, <1>2 DEF BrowserSends
  <2> QED
    BY <1>2, <2>1
       DEF BrowserSends, Streams!BrowserSends, Streams!Refused, remoteVars
<1>3. ASSUME RemoteSends PROVE Streams!RemoteSends
  <2>1. remote # "none"
    BY <1>3 DEF RemoteSends
  <2>2. browserGot # <<"error">>
    <3>1. ASSUME browserGot = <<"error">> PROVE FALSE
      <4>1. Len(browserGot) = 1 /\ browserGot[1] = "error"
        BY <3>1
      <4>2. browserGot[1] = FromRemote[0 + 1]
        BY <2>1, <4>1 DEF UpFits, Continues
      <4> QED  BY <1>1, <4>1, <4>2
    <3> QED  BY <3>1
  <2> QED
    BY <1>3, <2>2
       DEF RemoteSends, Streams!RemoteSends, Streams!Refused, browserVars
<1> QED  BY <1>2, <1>3

LEMMA DuplexStep == IInv /\ [Next]_vars => [Streams!Next]_(Streams!vars)
<1> SUFFICES ASSUME IInv, [Next]_vars
             PROVE  Streams!Next \/ UNCHANGED Streams!vars
  OBVIOUS
<1>1. CASE RemoteTakes
  BY <1>1, ToRemoteStep DEF Streams!Next
<1>2. CASE BrowserTakes
  BY <1>2, ToBrowserStep DEF Streams!Next
<1>3. CASE BrowserSends \/ RemoteSends
  BY <1>3, EndsSpeak DEF Streams!Next
<1>4. CASE ~(RemoteTakes \/ BrowserTakes \/ BrowserSends \/ RemoteSends)
  <2>1. UNCHANGED <<browserSent, remoteGot, remoteSent, browserGot>>
    BY <1>4 DEF Next, DoRequest, KeepConnection, HttpRequest, Upstream,
       Writer, Select, Timeout, ErrorResponse, Refuse, Connect, LoginReply,
       ServeError, Serve, CopyEnds, CopyFromRemote, CopyToRemoteEnds,
       CopyToClosed, ReadForBrowser, CopyToGone, ReadFromRemote, ReadForRemote, ReadFromBrowser, Login, ReceiveFails, Reply, CopyFromBrowser,
       CopyFromBrowserEnds, ClosePortalConn, CopyToBrowserEnds, BrowserLeaves,
       RemoteCloses, AgentExits, ServerExits, Cut, vars, browserVars, remoteVars
  <2> QED  BY <2>1 DEF Streams!vars
<1> QED  BY <1>1, <1>2, <1>3, <1>4

\* The tunnel implements Duplex, for any two streams: what an end hears is what
\* the other one has said, in order, whoever leaves, fails or is cut off.
THEOREM ImplementsDuplex == Spec => DuplexSpec
<1>1. Init => Streams!Init
  BY DEF Init, Streams!Init
<1> QED
  BY <1>1, DuplexStep, Invariance, PTL DEF Spec, DuplexSpec, Streams!Spec

=============================================================================
