--------------------------- MODULE ClientRegistry ---------------------------
(***************************************************************************)
(* The portal server's table of logged-in agents and the goroutines that   *)
(* share it: per accepted connection one keepConnection goroutine, the     *)
(* goroutines that send its replies, and one checkOnline goroutine for     *)
(* every successful PortalManager.Add.                                     *)
(*                                                                         *)
(* PortalManager.mux makes Add, Remove and ClearAll atomic; everything     *)
(* between two critical sections interleaves.  The peer of a connection is *)
(* the environment: any frame it may send can arrive whenever the          *)
(* connection is open, and it may go away (EOF, reset, garbled stream) at  *)
(* any moment.  Time is abstract: lapsed[c] is the outcome of the test     *)
(* now.Sub(c.LastBeat) > 4*HeartbeatInterval.                              *)
(***************************************************************************)
EXTENDS Naturals, Sequences

CONSTANTS
    Conns,       \* TCP connections the listener may accept
    WsConns,     \* those dialled by websocketProxy.Connect
    Names,       \* agent names
    NameOf,      \* the name the peer of a connection logs in with
    NoConn,      \* the nil *PortalClient
    MaxReplies   \* bound: replies of one connection being sent at a time

ASSUME WsConnsType    == WsConns \subseteq Conns
ASSUME NameOfType     == NameOf \in [Conns -> Names]
ASSUME NoConnFresh    == NoConn \notin Conns
ASSUME MaxRepliesType == MaxReplies \in Nat \ {0}

VARIABLES
    clients,     \* PortalManager.clients: name -> connection or NoConn
    pc,          \* where the keepConnection goroutine of a connection is
    msg,         \* the frame that goroutine is serving
    replies,     \* its WaitGroup: reply goroutines still sending
    isLogin,     \* PortalClient.IsLogin
    isWebsocket, \* PortalClient.IsWebsocket
    closed,      \* PortalClient.Close ran: Quit and Conn are closed
    lapsed,      \* no Beat for more than four heartbeat intervals
    watchers,    \* one entry per checkOnline goroutine of a connection
    stop,        \* progress of ProxyServer.Stop
    alive        \* FALSE once a second close(Quit) has panicked

vars == <<clients, pc, msg, replies, isLogin, isWebsocket, closed, lapsed,
          watchers, stop, alive>>

-----------------------------------------------------------------------------
(* Vocabulary *)

\* A dedicated websocket connection sends one login with RespSeq # 0; the
\* agent's main connection sends logins, heartbeats and http responses.
Frames(c) == IF c \in WsConns THEN {"wsLogin"} ELSE {"login", "hb", "resp"}

AllFrames == {"none", "wsLogin", "login", "hb", "resp"}

HandlerPcs == {"idle",   \* not accepted yet
               "recv",   \* in core.Receive
               "serve",  \* in processMsg with msg
               "drain",  \* left the loop by break: wg.Wait
               "exit",   \* about to run the deferred clean-up
               "done"}

WatcherPcs == {"select", "remove", "exit"}

At(c, where) == alive /\ pc[c] = where

WatcherAt(c, i, where) ==
    alive /\ i \in DOMAIN watchers[c] /\ watchers[c][i] = where

Goto(c, where) == pc' = [pc EXCEPT ![c] = where]

Registered == {clients[n] : n \in Names} \ {NoConn}

TypeOK ==
    /\ clients \in [Names -> Conns \cup {NoConn}]
    /\ pc \in [Conns -> HandlerPcs]
    /\ msg \in [Conns -> AllFrames]
    /\ replies \in [Conns -> 0 .. MaxReplies]
    /\ isLogin \in [Conns -> BOOLEAN]
    /\ isWebsocket \in [Conns -> BOOLEAN]
    /\ closed \in [Conns -> BOOLEAN]
    /\ lapsed \in [Conns -> BOOLEAN]
    /\ watchers \in [Conns -> Seq(WatcherPcs)]
    /\ stop \in {"running", "cancelled", "cleared"}
    /\ alive \in BOOLEAN

Init ==
    /\ clients = [n \in Names |-> NoConn]
    /\ pc = [c \in Conns |-> "idle"]
    /\ msg = [c \in Conns |-> "none"]
    /\ replies = [c \in Conns |-> 0]
    /\ isLogin = [c \in Conns |-> FALSE]
    /\ isWebsocket = [c \in Conns |-> FALSE]
    /\ closed = [c \in Conns |-> FALSE]
    /\ lapsed = [c \in Conns |-> FALSE]
    /\ watchers = [c \in Conns |-> <<>>]
    /\ stop = "running"
    /\ alive = TRUE

-----------------------------------------------------------------------------
(* PortalClient and PortalManager *)

\* PortalClient.Close: closing Quit a second time panics, and an unrecovered
\* panic in any goroutine ends the process; what the step leaves in the other
\* variables is then immaterial.
Close(c) ==
    /\ closed' = [closed EXCEPT ![c] = TRUE]
    /\ alive' = ~closed[c]

\* Mutant of Remove: the entry goes, the connection stays open.
RemoveKeepingConn(n) ==
    /\ clients' = [clients EXCEPT ![n] = NoConn]
    /\ UNCHANGED <<closed, alive>>

\* Remove works by name: it closes and deletes whichever client holds it.
Remove(n) ==
    IF clients[n] = NoConn
    THEN UNCHANGED <<clients, closed, alive>>
    ELSE /\ Close(clients[n])
         /\ clients' = [clients EXCEPT ![n] = NoConn]

\* Mutant of Add: nobody watches.
AddUnwatched(c) ==
    IF clients[NameOf[c]] # NoConn
    THEN UNCHANGED <<clients, isLogin, watchers>>
    ELSE /\ clients' = [clients EXCEPT ![NameOf[c]] = c]
         /\ isLogin' = [isLogin EXCEPT ![c] = TRUE]
         /\ UNCHANGED watchers

\* Add refuses a taken name; otherwise it registers c and starts checkOnline.
Add(c) ==
    IF clients[NameOf[c]] # NoConn
    THEN UNCHANGED <<clients, isLogin, watchers>>
    ELSE /\ clients' = [clients EXCEPT ![NameOf[c]] = c]
         /\ isLogin' = [isLogin EXCEPT ![c] = TRUE]
         /\ watchers' = [watchers EXCEPT ![c] = Append(@, "select")]

\* Mutant of ClearAll: the loop closes the clients and deletes no entry.
ClearAllKeepingEntries ==
    /\ closed' = [c \in Conns |-> closed[c] \/ c \in Registered]
    /\ alive' = \A c \in Registered : ~closed[c]
    /\ UNCHANGED clients

ClearAll ==
    /\ closed' = [c \in Conns |-> closed[c] \/ c \in Registered]
    /\ alive' = \A c \in Registered : ~closed[c]
    /\ clients' = [n \in Names |-> NoConn]

-----------------------------------------------------------------------------
(* checkOnline: the i-th watcher goroutine of connection c *)

\* case <-client.Quit
WatcherQuits(c, i) ==
    /\ WatcherAt(c, i, "select")
    /\ closed[c]
    /\ watchers' = [watchers EXCEPT ![c][i] = "exit"]
    /\ UNCHANGED <<clients, pc, msg, replies, isLogin, isWebsocket, closed,
                   lapsed, stop, alive>>

\* Mutant of WatcherSeesLapse: the half-time branch returns, not continues.
WatcherGivesUp(c, i) ==
    /\ WatcherAt(c, i, "select")
    /\ lapsed[c]
    /\ watchers' = [watchers EXCEPT ![c][i] = "exit"]
    /\ UNCHANGED <<clients, pc, msg, replies, isLogin, isWebsocket, closed,
                   lapsed, stop, alive>>

\* case <-ticker.C with LastBeat too old; a tick that finds a recent beat
\* goes back to the select and changes nothing.
WatcherSeesLapse(c, i) ==
    /\ WatcherAt(c, i, "select")
    /\ lapsed[c]
    /\ watchers' = [watchers EXCEPT ![c][i] = "remove"]
    /\ UNCHANGED <<clients, pc, msg, replies, isLogin, isWebsocket, closed,
                   lapsed, stop, alive>>

\* c.Remove(client.Name); return
WatcherRemoves(c, i) ==
    /\ WatcherAt(c, i, "remove")
    /\ Remove(NameOf[c])
    /\ watchers' = [watchers EXCEPT ![c][i] = "exit"]
    /\ UNCHANGED <<pc, msg, replies, isLogin, isWebsocket, lapsed, stop>>

-----------------------------------------------------------------------------
(* keepConnection *)

\* accept, handleRawConn, NewPortalClient.  A connection accepted just before
\* the listener closes is one whose goroutine is scheduled late.
Accept(c) ==
    /\ At(c, "idle")
    /\ stop = "running"
    /\ Goto(c, "recv")
    /\ UNCHANGED <<clients, msg, replies, isLogin, isWebsocket, closed,
                   lapsed, watchers, stop, alive>>

Receive(c, f) ==
    /\ At(c, "recv")
    /\ ~closed[c]
    /\ replies[c] < MaxReplies
    /\ msg' = [msg EXCEPT ![c] = f]
    /\ Goto(c, "serve")
    /\ UNCHANGED <<clients, replies, isLogin, isWebsocket, closed, lapsed,
                   watchers, stop, alive>>

\* Receive failed for good: the peer is gone, or Close ran.  While the server
\* stops the loop returns without waiting for its replies.  A temporary error
\* only sleeps and retries.
ReceiveError(c) ==
    /\ At(c, "recv")
    /\ Goto(c, IF stop = "running" THEN "drain" ELSE "exit")
    /\ UNCHANGED <<clients, msg, replies, isLogin, isWebsocket, closed,
                   lapsed, watchers, stop, alive>>

\* The end of a loop iteration that served a request: start the goroutine
\* that sends the reply, then leave the loop or receive again.
Reply(c, where) ==
    /\ replies' = [replies EXCEPT ![c] = @ + 1]
    /\ msg' = [msg EXCEPT ![c] = "none"]
    /\ Goto(c, where)

\* Login, normal connection.  A refused login starts a reply as well; it hands
\* Send a nil *AckResponse, which Marshal refuses, so nothing reaches the
\* agent.  The connection stays open, not logged in.
Login(c) ==
    /\ At(c, "serve")
    /\ msg[c] = "login"
    /\ Add(c)
    /\ Reply(c, "recv")
    /\ UNCHANGED <<isWebsocket, closed, lapsed, stop, alive>>

\* Login with RespSeq # 0: the connection is handed to the waiting DoRequest,
\* or refused when the name or the request is gone; the loop ends either way.
LoginWebsocket(c) ==
    /\ At(c, "serve")
    /\ msg[c] = "wsLogin"
    /\ isLogin' = [isLogin EXCEPT ![c] = TRUE]
    /\ isWebsocket' = [isWebsocket EXCEPT ![c] = TRUE]
    /\ Reply(c, "drain")
    /\ UNCHANGED <<clients, closed, lapsed, watchers, stop, alive>>

\* Heartbeat: only a logged-in client beats, the others are told NotLogin.
Heartbeat(c) ==
    /\ At(c, "serve")
    /\ msg[c] = "hb"
    /\ lapsed' = [lapsed EXCEPT ![c] = @ /\ ~isLogin[c]]
    /\ Reply(c, "recv")
    /\ UNCHANGED <<clients, isLogin, isWebsocket, closed, watchers, stop,
                   alive>>

\* RESP_http: handed to a request or dropped, and never answered.
SendHttpResponse(c) ==
    /\ At(c, "serve")
    /\ msg[c] = "resp"
    /\ msg' = [msg EXCEPT ![c] = "none"]
    /\ Goto(c, "recv")
    /\ UNCHANGED <<clients, replies, isLogin, isWebsocket, closed, lapsed,
                   watchers, stop, alive>>

\* Mutants of ReplySent: Done is called on the error path as well as deferred;
\* Done is reached only by a Send that succeeds.
ReplySentTwice(c) ==
    /\ alive
    /\ replies[c] > 0
    /\ replies' = [replies EXCEPT ![c] = IF closed[c] THEN @ - 2 ELSE @ - 1]
    /\ UNCHANGED <<clients, pc, msg, isLogin, isWebsocket, closed, lapsed,
                   watchers, stop, alive>>

ReplySentIfOpen(c) ==
    /\ alive
    /\ replies[c] > 0
    /\ ~closed[c]
    /\ replies' = [replies EXCEPT ![c] = @ - 1]
    /\ UNCHANGED <<clients, pc, msg, isLogin, isWebsocket, closed, lapsed,
                   watchers, stop, alive>>

\* wg.Done of a reply goroutine, whether its Send succeeded or not.
ReplySent(c) ==
    /\ alive
    /\ replies[c] > 0
    /\ replies' = [replies EXCEPT ![c] = @ - 1]
    /\ UNCHANGED <<clients, pc, msg, isLogin, isWebsocket, closed, lapsed,
                   watchers, stop, alive>>

\* wg.Wait
Drain(c) ==
    /\ At(c, "drain")
    /\ replies[c] = 0
    /\ Goto(c, "exit")
    /\ UNCHANGED <<clients, msg, replies, isLogin, isWebsocket, closed,
                   lapsed, watchers, stop, alive>>

\* Mutant of CleanUp: only a logged-in connection is cleaned up.
CleanUpLoggedIn(c) ==
    IF ~isWebsocket[c] /\ isLogin[c] THEN Remove(NameOf[c])
    ELSE UNCHANGED <<clients, closed, alive>>

\* The deferred function of keepConnection.
CleanUp(c) ==
    IF isWebsocket[c] THEN UNCHANGED <<clients, closed, alive>>
    ELSE IF isLogin[c] THEN Remove(NameOf[c])
    ELSE Close(c) /\ UNCHANGED clients

Exit(c) ==
    /\ At(c, "exit")
    /\ CleanUp(c)
    /\ Goto(c, "done")
    /\ UNCHANGED <<msg, replies, isLogin, isWebsocket, lapsed, watchers, stop>>

-----------------------------------------------------------------------------
(* The rest of the server, and time *)

\* DoRequest beats the client it got from the manager after every response
\* frame, however late its browser lets it.
DoRequestBeats(c) ==
    /\ alive
    /\ isLogin[c] /\ ~isWebsocket[c]
    /\ lapsed' = [lapsed EXCEPT ![c] = FALSE]
    /\ UNCHANGED <<clients, pc, msg, replies, isLogin, isWebsocket, closed,
                   watchers, stop, alive>>

\* More than 4*HeartbeatInterval since LastBeat, which NewPortalClient set.
Lapse(c) ==
    /\ alive
    /\ pc[c] \notin {"idle", "done"}
    /\ lapsed' = [lapsed EXCEPT ![c] = TRUE]
    /\ UNCHANGED <<clients, pc, msg, replies, isLogin, isWebsocket, closed,
                   watchers, stop, alive>>

\* ProxyServer.Stop: cancelFunc and listener.Close, then ClearAll.
StopCancel ==
    /\ alive
    /\ stop = "running"
    /\ stop' = "cancelled"
    /\ UNCHANGED <<clients, pc, msg, replies, isLogin, isWebsocket, closed,
                   lapsed, watchers, alive>>

StopClear ==
    /\ alive
    /\ stop = "cancelled"
    /\ ClearAll
    /\ stop' = "cleared"
    /\ UNCHANGED <<pc, msg, replies, isLogin, isWebsocket, lapsed, watchers>>

Watcher(c, i) ==
    \/ WatcherQuits(c, i)
    \/ WatcherSeesLapse(c, i)
    \/ WatcherRemoves(c, i)

Serve(c) ==
    \/ Login(c)
    \/ LoginWebsocket(c)
    \/ Heartbeat(c)
    \/ SendHttpResponse(c)

Next ==
    \/ \E c \in Conns :
          \/ Accept(c)
          \/ \E f \in Frames(c) : Receive(c, f)
          \/ ReceiveError(c)
          \/ Serve(c)
          \/ ReplySent(c)
          \/ Drain(c)
          \/ Exit(c)
          \/ DoRequestBeats(c)
          \/ Lapse(c)
          \/ \E i \in DOMAIN watchers[c] : Watcher(c, i)
    \/ StopCancel
    \/ StopClear

Spec == Init /\ [][Next]_vars

\* Goroutines run: a handler that can serve, drain or clean up does so, a read
\* on a closed connection fails and so does a write, and the ticker and Quit
\* wake the watchers.  Peers and Stop owe nothing, and a reply on an open
\* connection may block: its write deadline is cleared by any other call on
\* the connection.
Fairness ==
    \A c \in Conns :
        /\ WF_vars(closed[c] /\ ReceiveError(c))
        /\ WF_vars(Serve(c))
        /\ WF_vars(closed[c] /\ ReplySent(c))
        /\ WF_vars(Drain(c))
        /\ WF_vars(Exit(c))
        /\ \A i \in 1 .. 2 : WF_vars(Watcher(c, i))

FairSpec == Spec /\ Fairness

-----------------------------------------------------------------------------
(* Properties *)

\* An agent connection that logged in and has not been closed is the one
\* registered under its name: requests for the name reach it, and no second
\* live session of that name exists.  Add, Remove, ClearAll and the deferred
\* clean-up of every connection have to cooperate for this.
OpenSessionIsRegistered ==
    \A c \in Conns \ WsConns :
        isLogin[c] /\ ~closed[c] => clients[NameOf[c]] = c

\* When keepConnection has returned on an agent's connection, the connection
\* is closed and not registered, although Remove goes by name and may have
\* hit somebody else's entry: no socket and no table entry leaks.
EndedSessionIsClosed ==
    \A c \in Conns \ WsConns :
        pc[c] = "done" => closed[c] /\ c \notin Registered

\* A registered open client is watched by a checkOnline goroutine that has not
\* returned, so a silent agent cannot occupy its name for ever.
RegisteredIsWatched ==
    \A n \in Names :
        LET c == clients[n]
        IN  c # NoConn /\ ~closed[c] =>
                \E i \in DOMAIN watchers[c] : watchers[c][i] # "exit"

\* close(c.Quit) never panics unless some connection was added a second time,
\* that is, a login was being served while the same connection was removed.
PanicNeedsReAdd ==
    ~alive => \E c \in Conns : Len(watchers[c]) > 1

\* Receive fails once the connection is closed, so one re-login is the most
\* that can slip through and no connection is ever added a third time.
AddedAtMostTwice ==
    \A c \in Conns : Len(watchers[c]) <= 2

\* checkOnline's promise (client_manage.go:101): a registered client without a
\* beat for four heartbeat intervals is disconnected, unless a beat comes after
\* all.
SilentClientIsDropped ==
    \A c \in Conns :
        clients[NameOf[c]] = c /\ lapsed[c]
            ~> clients[NameOf[c]] # c \/ ~lapsed[c] \/ ~alive

\* A closed agent connection always gets its handler to finish: no goroutine
\* stays behind in Receive or wg.Wait.
ClosedSessionEnds ==
    \A c \in Conns \ WsConns : closed[c] ~> pc[c] = "done" \/ ~alive

\* A client loses its registration only for a reason of its own: its own
\* connection ended, it stayed silent for four heartbeat intervals, or the
\* server stops.
RemovedForOwnReason ==
    [][\A n \in Names :
        LET c == clients[n]
        IN  c # NoConn /\ clients'[n] # c =>
                \/ pc[c] = "exit"
                \/ \E i \in DOMAIN watchers[c] : watchers[c][i] = "remove"
                \/ stop # "running"]_vars

\* What NameTable knows of a connection.  One whose handler has returned but
\* which is still open, or still in the table, is something NameTable does not
\* have.
Life(c) ==
    IF pc[c] = "idle" THEN "new"
    ELSE IF pc[c] = "done"
         THEN IF closed[c] /\ c \notin Registered THEN "ended" ELSE "leaked"
    ELSE IF closed[c] THEN "closed"
    ELSE IF isLogin[c] THEN "granted" ELSE "open"

\* A connection that was added again after it was closed serves nobody.
Holder(n) ==
    IF clients[n] # NoConn /\ ~closed[clients[n]] THEN clients[n] ELSE NoConn

Table == INSTANCE NameTable
    WITH Conns <- Conns \ WsConns,
         life <- [c \in Conns \ WsConns |-> Life(c)],
         holder <- [n \in Names |-> Holder(n)]

\* The table, the flags and the connections, changed by handlers, watchers and
\* Stop in separate steps, together behave like NameTable.
TableSpec == Table!Spec

=============================================================================
