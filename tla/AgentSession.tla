---------------------------- MODULE AgentSession ----------------------------
(***************************************************************************)
(* How the agent keeps itself logged in: Run and heartbeatLoop dial, log   *)
(* in and send heartbeats over p.conn, a receive goroutine per dialled     *)
(* connection hands the replies over, and the server holds the agent's     *)
(* name for at most one connection, which it may be slow to give up.       *)
(*                                                                         *)
(* A fault is what the network and the schedulers may do at most MaxFaults *)
(* times: break a connection, refuse to dial, be later than a timer, cut a *)
(* frame.  What follows from a fault costs nothing.  Stop, which may come  *)
(* at any time, also while a connection is dialled, counts as two.         *)
(* Sequence numbers are unique over the agent's life, so a reply matters   *)
(* only while its request waits: a frame is "live" as long as it does.     *)
(***************************************************************************)
EXTENDS Naturals, Sequences

CONSTANTS
    Conns,     \* connections, taken again once both ends forgot them
    NoConn,    \* p.conn before the first dial; no holder of the name
    MaxFaults, \* bound: see above
    MaxUnread  \* bound: frames of a connection the server has not read

ASSUME ConnsFresh    == Conns \cap {"gone", "sleep"} = {}
ASSUME NoConnFresh   == NoConn \notin Conns \cup {"gone", "sleep"}
ASSUME MaxFaultsType == MaxFaults \in Nat
ASSUME MaxUnreadType == MaxUnread \in Nat \ {0}

VARIABLES
    conn,    \* p.conn
    status,  \* p.status
    failed,  \* failedTime
    recent,  \* lastTransfer is less than interval ago
    looping, \* Run has entered heartbeatLoop
    pc,      \* where Run is
    await,   \* the request it sent last, "login" or "hb"
    stop,    \* how far Stop is: p.ctx is "cancelled", p.conn "closed"
    reply,   \* the live reply on its way on p.conn, or "none"
    reader,  \* per receive goroutine: the connection it reads, or what it does
    link,    \* per connection: "none", "open", "closed" by the agent or "dead",
             \* of which the agent's reads have heard only at "eof"
    up,      \* frames of the agent that the server has not read
    handler, \* the server's keepConnection of the connection runs
    isLogin, \* PortalClient.IsLogin
    holder,  \* the server's entry for the agent's name
    faults   \* faults so far

agentVars == <<conn, status, failed, recent, looping, pc, await, stop>>
serverVars == <<handler, isLogin, holder>>
vars == <<agentVars, reply, reader, link, up, serverVars, faults>>

FailedLimit == 5

Frames == [kind : {"login", "hb"}, live : BOOLEAN]

Pcs == {"dial",  \* connect
        "send",  \* about to send await
        "sent",  \* sent, not in the select yet
        "wait",  \* in the select on the reply and the timeout
        "timer", \* in heartbeatLoop's select
        "exit"}

TypeOK ==
    /\ conn \in Conns \cup {NoConn}
    /\ status \in {"notConnect", "notLogin", "ok", "error"}
    /\ failed \in 0 .. FailedLimit - 1
    /\ recent \in BOOLEAN
    /\ looping \in BOOLEAN
    /\ pc \in Pcs
    /\ await \in {"login", "hb"}
    /\ stop \in {"no", "cancelled", "closed"}
    /\ reply \in {"none", "success", "notLogin"}
    /\ reader \in [Conns -> Conns \cup {"gone", "sleep"}]
    /\ link \in [Conns -> {"none", "open", "dead", "eof", "closed"}]
    /\ up \in [Conns -> Seq(Frames)]
    /\ handler \in [Conns -> BOOLEAN]
    /\ isLogin \in [Conns -> BOOLEAN]
    /\ holder \in Conns \cup {NoConn}
    /\ faults \in 0 .. MaxFaults

Init ==
    /\ conn = NoConn
    /\ status = "notConnect"
    /\ failed = 0
    /\ recent = FALSE
    /\ looping = FALSE
    /\ pc = "dial"
    /\ await = "login"
    /\ stop = "no"
    /\ reply = "none"
    /\ reader = [c \in Conns |-> "gone"]
    /\ link = [c \in Conns |-> "none"]
    /\ up = [c \in Conns |-> <<>>]
    /\ handler = [c \in Conns |-> FALSE]
    /\ isLogin = [c \in Conns |-> FALSE]
    /\ holder = NoConn
    /\ faults = 0

Fault == faults < MaxFaults /\ faults' = faults + 1

Readers(c) == {g \in Conns : reader[g] = c}

\* Nobody knows of the connection any more.
Forgotten(c) ==
    /\ c # conn
    /\ ~handler[c]
    /\ reader[c] = "gone"
    /\ Readers(c) = {}

Dead(cs) == [c \in Conns |-> IF c \in cs /\ link[c] = "open" THEN "dead"
                             ELSE link[c]]

\* The server does not read what is left of these.
Unread(cs) == [c \in Conns |-> IF c \in cs THEN <<>> ELSE up[c]]

-----------------------------------------------------------------------------
(* The end of a heartbeat() *)

\* No request waits any longer: DeleteSeq.
Forget ==
    /\ reply' = "none"
    /\ up' = [c \in Conns |->
                 [i \in DOMAIN up[c] |-> [up[c][i] EXCEPT !.live = FALSE]]]

\* Mutants of Ended: the connection is not closed before the next is dialled;
\* the failures are not counted from zero again.
EndedKeepingConn(st) ==
    /\ pc' = "timer"
    /\ recent' = (recent \/ st = "ok")
    /\ IF st # "ok" /\ failed + 1 >= FailedLimit
       THEN status' = "notConnect" /\ failed' = 0
       ELSE status' = st /\ failed' = IF st = "ok" THEN 0 ELSE failed + 1
    /\ UNCHANGED link

EndedCountingOn(st) ==
    /\ pc' = "timer"
    /\ recent' = (recent \/ st = "ok")
    /\ IF st # "ok" /\ failed + 1 >= FailedLimit
       THEN /\ link' = [link EXCEPT ![conn] = "closed"]
            /\ status' = "notConnect"
            /\ failed' = failed + 1
       ELSE /\ status' = st
            /\ failed' = IF st = "ok" THEN 0 ELSE failed + 1
            /\ UNCHANGED link

\* heartbeat() returned st: count the failures, close p.conn after five.
Ended(st) ==
    /\ pc' = "timer"
    /\ recent' = (recent \/ st = "ok")
    /\ IF st # "ok" /\ failed + 1 >= FailedLimit
       THEN /\ link' = [link EXCEPT ![conn] = "closed"]
            /\ status' = "notConnect"
            /\ failed' = 0
       ELSE /\ status' = st
            /\ failed' = IF st = "ok" THEN 0 ELSE failed + 1
            /\ UNCHANGED link

\* login() failed: Run returns, recoverHeartbeat reports it.  st is what
\* heartbeat() makes of the same failure of a heartbeat.
Failed(st) ==
    IF looping THEN Ended(IF await = "login" THEN "notLogin" ELSE st)
    ELSE pc' = "exit" /\ UNCHANGED <<status, failed, recent, link>>

-----------------------------------------------------------------------------
(* Run and heartbeatLoop *)

\* A tick with lastTransfer long enough ago: recoverHeartbeat begins.
\* (A timer that fires when ctx is cancelled might have fired before.)
Tick ==
    /\ pc = "timer"
    /\ ~recent
    /\ stop = "no"
    /\ pc' = IF status = "notConnect" THEN "dial" ELSE "send"
    /\ await' = IF status = "notLogin" THEN "login" ELSE "hb"
    /\ UNCHANGED <<conn, status, failed, recent, looping, stop, reply, reader,
                   link, up, serverVars, faults>>

\* Mutant of LoopEnds: ctx is looked at by a loop that is logged in only.
LoopEndsLoggedIn ==
    /\ pc = "timer"
    /\ stop # "no" /\ status = "ok"
    /\ pc' = "exit"
    /\ UNCHANGED <<conn, status, failed, recent, looping, await, stop, reply,
                   reader, link, up, serverVars, faults>>

\* case <-p.ctx.Done().
LoopEnds ==
    /\ pc = "timer"
    /\ stop # "no"
    /\ pc' = "exit"
    /\ UNCHANGED <<conn, status, failed, recent, looping, await, stop, reply,
                   reader, link, up, serverVars, faults>>

\* connect: the first one is followed by a login, the others by a heartbeat.
\* It does not look at ctx; the receive goroutine does.
Connect(c) ==
    /\ pc = "dial"
    /\ Forgotten(c)
    /\ conn' = c
    /\ status' = "notLogin"
    /\ pc' = "send"
    /\ await' = IF looping THEN "hb" ELSE "login"
    /\ reader' = [reader EXCEPT ![c] = IF stop = "no" THEN c ELSE "gone"]
    /\ link' = [link EXCEPT ![c] = "open"]
    /\ up' = [up EXCEPT ![c] = <<>>]
    /\ handler' = [handler EXCEPT ![c] = TRUE]
    /\ isLogin' = [isLogin EXCEPT ![c] = FALSE]
    /\ UNCHANGED <<failed, recent, looping, stop, reply, holder, faults>>

ConnectFails ==
    /\ pc = "dial"
    /\ Fault
    /\ IF looping
       THEN Ended("notConnect")
       ELSE pc' = "exit" /\ UNCHANGED <<status, failed, recent, link>>
    /\ UNCHANGED <<conn, looping, await, stop, reply, reader, up, serverVars>>

\* On a broken connection a write may still succeed, and is lost.
Send ==
    /\ pc = "send"
    /\ Len(up[conn]) < MaxUnread
    /\ up' = IF link[conn] # "open" THEN up
             ELSE [up EXCEPT ![conn] =
                      Append(@, [kind |-> await, live |-> TRUE])]
    /\ pc' = "sent"
    /\ UNCHANGED <<conn, status, failed, recent, looping, await, stop, reply,
                   reader, link, serverVars, faults>>

\* The write fails: for good, which a heartbeat takes as a lost connection, or
\* by its deadline.  Once the agent stops all failures are alike.
SendFails ==
    /\ pc = "send"
    /\ link[conn] # "open"
    /\ \E st \in {"notConnect", "error"} :
          (stop = "no" \/ st = "notConnect") /\ Failed(st)
    /\ UNCHANGED <<conn, looping, await, stop, reply, reader, up, serverVars,
                   faults>>

\* The deadline passes on a connection that works.
SendTimesOut ==
    /\ pc = "send"
    /\ link[conn] = "open"
    /\ Fault
    /\ Failed(IF stop = "no" THEN "error" ELSE "notConnect")
    /\ UNCHANGED <<conn, looping, await, stop, reply, reader, up, serverVars>>

Select ==
    /\ pc = "sent"
    /\ pc' = "wait"
    /\ UNCHANGED <<conn, status, failed, recent, looping, await, stop, reply,
                   reader, link, up, serverVars, faults>>

\* A reply can still come, and Run waits for it.
Expected ==
    /\ pc = "wait"
    /\ stop = "no"
    /\ link[conn] = "open"
    /\ reply # "none" \/ \E i \in DOMAIN up[conn] : up[conn][i].live
    /\ \E g \in Conns : reader[g] \in {conn, "sleep"}

\* ctx.Done(): nothing can come, or it is late, or the agent stops.
Timeout ==
    /\ pc = "wait"
    /\ IF Expected THEN Fault ELSE UNCHANGED faults
    /\ Failed("error")
    /\ Forget
    /\ UNCHANGED <<conn, looping, await, stop, reader, serverVars>>

\* Only Run's own login is not followed by a heartbeat at once.
LoggedIn ==
    /\ status' = "ok"
    /\ looping' = TRUE
    /\ await' = "hb"
    /\ pc' = IF looping THEN "send" ELSE "timer"
    /\ UNCHANGED <<failed, recent, link>>

\* Mutant of Answered: a heartbeat that is answered at all is fine.
AnsweredAnyhow(code) ==
    IF await = "login" THEN LoggedIn
    ELSE Ended("ok") /\ UNCHANGED <<looping, await>>

\* The reply reaches login() or heartbeat().
Answered(code) ==
    IF await = "login" THEN LoggedIn
    ELSE /\ Ended(IF code = "success" THEN "ok" ELSE "notLogin")
         /\ UNCHANGED <<looping, await>>

-----------------------------------------------------------------------------
(* The receive goroutines *)

\* The loop looks at ctx before each Receive.
Loop(g) ==
    reader' = IF stop = "no" THEN reader ELSE [reader EXCEPT ![g] = "gone"]

\* SendResponse to the select.  The send does not wait: a reply that is faster
\* than the goroutine's way to the select is dropped.
Deliver(g) ==
    /\ reader[g] = conn
    /\ Readers(conn) = {g}
    /\ link[conn] = "open"
    /\ reply # "none"
    /\ pc = "wait"
    /\ Answered(reply)
    /\ Forget
    /\ Loop(g)
    /\ UNCHANGED <<conn, stop, serverVars, faults>>

DeliverEarly(g) ==
    /\ reader[g] = conn
    /\ reply # "none"
    /\ pc = "sent"
    /\ Fault
    /\ reply' = "none"
    /\ Loop(g)
    /\ UNCHANGED <<agentVars, link, up, serverVars>>

\* Two goroutines that read one connection get parts of the frames: the begin
\* flag is wrong for one of them, or for both.
Garble(g) ==
    /\ \E c \in Conns :
          /\ reader[g] = c
          /\ link[c] = "open"
          /\ \E h \in Readers(c) \ {g} : \E gone \in {{g}, {g, h}} :
                reader' = [x \in Conns |-> IF x \in gone THEN "gone"
                                           ELSE reader[x]]
    /\ reply' = "none"
    /\ UNCHANGED <<agentVars, link, up, serverVars, faults>>

\* core.Receive fails: for good, or first with an error it takes for temporary:
\* a frame was cut off, or the connection reset.
ReadFails(g) ==
    /\ \E c \in Conns :
          /\ reader[g] = c
          /\ \/ /\ link[c] # "open"
                /\ reader' = [reader EXCEPT ![g] = "gone"]
                /\ UNCHANGED link
             \/ /\ link[c] = "dead" /\ stop = "no"
                /\ reader' = [reader EXCEPT ![g] = "sleep"]
                /\ link' = [link EXCEPT ![c] = "eof"]
    /\ UNCHANGED <<agentVars, reply, up, serverVars, faults>>

\* The deadline that a Send has set passes while the goroutine reads; it may
\* lose its place in the stream.
ReadTimesOut(g) ==
    /\ reader[g] = conn
    /\ Fault
    /\ \E after \in {"sleep", "gone"} :
          /\ after = "sleep" => stop = "no"
          /\ reader' = [reader EXCEPT ![g] = after]
    /\ UNCHANGED <<agentVars, reply, link, up, serverVars>>

\* The next Receive reads p.conn, whichever that is by now.
Wake(g) ==
    /\ reader[g] = "sleep"
    /\ reader' = [reader EXCEPT ![g] = IF stop = "no" THEN conn ELSE "gone"]
    /\ UNCHANGED <<agentVars, reply, link, up, serverVars, faults>>

\* httpRequest sets lastTransfer when it has sent a response.  Once the agent
\* stops nobody looks at it.
HttpAnswer ==
    /\ conn # NoConn
    /\ stop = "no"
    /\ ~recent
    /\ looping
    /\ IF holder = conn /\ link[conn] = "open" /\ Readers(conn) # {}
       THEN UNCHANGED faults
       ELSE Fault
    /\ recent' = TRUE
    /\ UNCHANGED <<conn, status, failed, looping, pc, await, stop, reply, reader,
                   link, up, serverVars>>

\* The interval has passed.
Elapse ==
    /\ recent
    /\ stop = "no"
    /\ recent' = FALSE
    /\ UNCHANGED <<conn, status, failed, looping, pc, await, stop, reply, reader,
                   link, up, serverVars, faults>>

-----------------------------------------------------------------------------
(* Stop *)

\* Nobody will look at lastTransfer again.
StopCancel ==
    /\ stop = "no"
    /\ pc # "exit"
    /\ faults + 1 < MaxFaults
    /\ faults' = faults + 2
    /\ stop' = "cancelled"
    /\ recent' = FALSE
    /\ UNCHANGED <<conn, status, failed, looping, pc, await, reply, reader, link,
                   up, serverVars>>

\* It closes the p.conn of this moment.  Before the first one there is none, and
\* the nil pointer ends the process.
StopClose ==
    /\ stop = "cancelled"
    /\ stop' = "closed"
    /\ IF conn = NoConn THEN pc' = "exit" /\ UNCHANGED link
       ELSE link' = [link EXCEPT ![conn] = "closed"] /\ UNCHANGED pc
    /\ UNCHANGED <<conn, status, failed, recent, looping, await, reply, reader,
                   up, serverVars, faults>>

-----------------------------------------------------------------------------
(* The server *)

\* What it answers; Login that Add refuses is not answered at all.
ServerReply(c, kind) ==
    IF kind = "hb" THEN IF isLogin[c] THEN "success" ELSE "notLogin"
    ELSE IF holder = NoConn THEN "success" ELSE "none"

Serve(c) ==
    /\ handler[c]
    /\ up[c] # <<>>
    /\ up' = [up EXCEPT ![c] = Tail(@)]
    /\ IF Head(up[c]).kind = "login" /\ holder = NoConn
       THEN holder' = c /\ isLogin' = [isLogin EXCEPT ![c] = TRUE]
       ELSE UNCHANGED <<holder, isLogin>>
    /\ reply' = IF Head(up[c]).live /\ link[c] = "open"
                THEN ServerReply(c, Head(up[c]).kind) ELSE reply
    /\ UNCHANGED <<agentVars, reader, link, handler, faults>>

\* keepConnection returns: the server found out that the connection is gone,
\* by a failed read or because nothing came for four heartbeat intervals.
\* Remove goes by name and closes whichever connection holds it, whose handler
\* then returns at once.
HandlerEnds(c) ==
    /\ handler[c]
    /\ link[c] # "open"
    /\ LET closed == IF isLogin[c] THEN {c, holder} ELSE {c}
       IN  /\ handler' = [d \in Conns |-> handler[d] /\ d \notin closed]
           /\ link' = Dead(closed)
           /\ up' = Unread(closed)
           /\ holder' = IF isLogin[c] THEN NoConn ELSE holder
    /\ UNCHANGED <<agentVars, reply, reader, isLogin, faults>>

\* checkOnline removes a client whose connection works; its handler may be slow
\* to return.
CheckOnline(c) ==
    /\ holder = c
    /\ Fault
    /\ holder' = NoConn
    /\ link' = Dead({c})
    /\ up' = Unread({c})
    /\ UNCHANGED <<agentVars, reply, reader, handler, isLogin>>

Break(c) ==
    /\ link[c] = "open"
    /\ Fault
    /\ link' = Dead({c})
    /\ UNCHANGED <<agentVars, reply, reader, up, serverVars>>

-----------------------------------------------------------------------------

Run ==
    \/ Tick \/ LoopEnds
    \/ \E c \in Conns : Connect(c)
    \/ Send
    \/ SendFails
    \/ Select

Receive(g) ==
    \/ Deliver(g)
    \/ Garble(g)
    \/ ReadFails(g)
    \/ Wake(g)

Next ==
    \/ Run
    \/ ConnectFails
    \/ SendTimesOut
    \/ Timeout
    \/ HttpAnswer
    \/ Elapse
    \/ StopCancel \/ StopClose
    \/ \E c \in Conns :
          \/ Receive(c)
          \/ DeliverEarly(c)
          \/ ReadTimesOut(c)
          \/ Serve(c)
          \/ HandlerEnds(c)
          \/ CheckOnline(c)
          \/ Break(c)

Spec == Init /\ [][Next]_vars

\* Goroutines run, timers fire, and both ends notice a connection that is gone.
Fairness ==
    /\ WF_vars(Run \/ (~Expected /\ Timeout))
    /\ WF_vars(Elapse)
    /\ \A c \in Conns :
          WF_vars(Receive(c)) /\ WF_vars(Serve(c) \/ HandlerEnds(c))

FairSpec == Spec /\ Fairness

-----------------------------------------------------------------------------
(* Properties *)

\* What the agent believes: status ok means that the server has logged in this
\* very connection, and while it is not lost, that requests go to it.  Replies,
\* reconnects and removals are concurrent, heartbeats follow a login whose
\* connection may be new, and the server removes by name.
OkMeansLoggedIn ==
    status = "ok" => isLogin[conn] /\ (link[conn] = "open" => holder = conn)

\* The agent leaves no working connection behind when it dials a new one: its
\* own half-finished logins never keep its name occupied.
AbandonedIsBroken == \A c \in Conns : link[c] = "open" => c = conn

\* Requests reach the agent.
Reachable ==
    /\ holder = conn
    /\ conn # NoConn
    /\ link[conn] = "open"
    /\ Readers(conn) # {}

\* Once no more faults happen the agent is reachable for good, whatever state
\* they left: a stale entry under its name, a login that was refused without an
\* answer, a connection that nobody reads or that two goroutines read.
\* Only a failure of Run's first dial or login ends the agent, and Stop: it ends
\* Run wherever that is, also when it closes one connection and Run has just
\* dialled the next.
Recovers == <>[](pc = "exit" \/ Reachable)

=============================================================================
