---------------------------- MODULE PortalServer -----------------------------
(***************************************************************************)
(* The process portal_server: main, the goroutine that waits for a signal, *)
(* the acceptor of agents and the HTTP front end.  A request that an agent *)
(* sends on to a host that leads to the portal comes back to the front     *)
(* end, once more for every turn of a circle.  The depth header counts the *)
(* turns.                                                                  *)
(*                                                                         *)
(* hops is the chain of one browser's request: hop i is the request that   *)
(* the agent of hop i - 1 (the browser, for i = 1) sends to the portal.    *)
(* A depth of 0 from NoHost stands for a request without depth header, or  *)
(* with one that is no number: both get depth 1.  How a request reaches    *)
(* the agent, and what a handler of agents' connections does, is in        *)
(* Exchange and ClientRegistry.                                            *)
(***************************************************************************)
EXTENDS Integers, Sequences

CONSTANTS
    Hosts,         \* hosts that lead to the portal
    Web,           \* an ordinary server, which answers 200
    Nobody,        \* an address where nobody listens
    Unknown,       \* a host without a portal, or whose agent is not there
    NoHost,
    MaxPortalDeep,
    Requests       \* host, and depth and host in the headers, of a browser's

ASSUME NamesFresh == {Web, Nobody, Unknown, NoHost} \cap Hosts = {}
ASSUME DeepType   == MaxPortalDeep \in Nat
ASSUME RequestType ==
    Requests \subseteq [host : Hosts, deep : Int, from : Hosts \cup {NoHost}]

VARIABLES
    main,     \* where main is, or how the process has ended
    stopped,  \* ProxyServer.ctx is cancelled
    listener, \* of agents
    acceptor, \* where accept is
    catcher,  \* where the goroutine of CatchExitSignal is
    http,     \* the http.Server
    fault,    \* listening or accepting has failed for good
    via,      \* where the agent of a host sends its requests
    hops

procVars == <<main, stopped, listener, acceptor, catcher, http, fault>>
vars == <<procVars, via, hops>>

Statuses == {"none", "ok", "deep", "notFound", "error"}

Hop == [host : Hosts, deep : Int, from : Hosts \cup {NoHost},
        srv : {"read", "wait", "done"}, answer : Statuses,
        agt : {"none", "ask", "sent", "done", "lost"}, result : Statuses]

TypeOK ==
    /\ main \in {"start", "catch", "http", "serving", "stop", "close",
                 "clear", "exited", "panicked", "killed"}
    /\ stopped \in BOOLEAN
    /\ listener \in {"none", "open", "closed"}
    /\ acceptor \in {"none", "accept", "sleep", "failed", "nil", "end"}
    /\ catcher \in {"none", "notify", "wait", "stop", "end"}
    /\ http \in {"none", "serving", "failed", "closed"}
    /\ fault \in BOOLEAN
    /\ via \in [Hosts -> Hosts \cup {Web, Nobody, Unknown}]
    /\ hops \in Seq(Hop)

Init ==
    /\ main = "start"
    /\ stopped = FALSE
    /\ listener = "none"
    /\ acceptor = "none"
    /\ catcher = "none"
    /\ http = "none"
    /\ fault = FALSE
    /\ via \in [Hosts -> Hosts \cup {Web, Nobody, Unknown}]
    /\ hops = <<>>

Ended == main \in {"exited", "panicked", "killed"}

-----------------------------------------------------------------------------
(* main, runHttpServer and ProxyServer.Stop *)

Start ==
    /\ main = "start"
    /\ \/ /\ main' = "catch"
          /\ listener' = "open"
          /\ acceptor' = "accept"
          /\ UNCHANGED fault
       \/ /\ main' = "panicked"
          /\ fault' = TRUE
          /\ UNCHANGED <<listener, acceptor>>
    /\ UNCHANGED <<stopped, catcher, http, via, hops>>

CatchExitSignal ==
    /\ main = "catch"
    /\ main' = "http"
    /\ catcher' = "notify"
    /\ UNCHANGED <<stopped, listener, acceptor, http, fault, via, hops>>

\* It may not get the address, and a server that is closed already returns.
ListenAndServe ==
    /\ main = "http"
    /\ \/ http = "none" /\ http' = "serving" /\ main' = "serving"
       \/ main' = "stop" /\ UNCHANGED http
    /\ UNCHANGED <<stopped, listener, acceptor, catcher, fault, via, hops>>

\* Requests under way go on if it is not closed but fails.
ListenAndServeReturns ==
    /\ main = "serving"
    /\ main' = "stop"
    /\ http' = IF http = "closed" THEN "closed" ELSE "failed"
    /\ UNCHANGED <<stopped, listener, acceptor, catcher, fault, via, hops>>

\* Mutant of Stop: it closes the listener first.
StopLate ==
    /\ \/ /\ main = "stop" /\ main' = "close"
          /\ listener' = "closed" /\ UNCHANGED stopped
       \/ /\ main = "close" /\ main' = "clear"
          /\ stopped' = TRUE /\ UNCHANGED listener
       \/ /\ main = "clear" /\ main' = "exited"
          /\ UNCHANGED <<stopped, listener>>
    /\ UNCHANGED <<acceptor, catcher, http, fault, via, hops>>

\* cancelFunc, listener.Close, ClearAll.  Then main returns.
Stop ==
    /\ \/ /\ main = "stop" /\ main' = "close"
          /\ stopped' = TRUE /\ UNCHANGED listener
       \/ /\ main = "close" /\ main' = "clear"
          /\ listener' = "closed" /\ UNCHANGED stopped
       \/ /\ main = "clear" /\ main' = "exited"
          /\ UNCHANGED <<stopped, listener>>
    /\ UNCHANGED <<acceptor, catcher, http, fault, via, hops>>

-----------------------------------------------------------------------------
(* core.CatchExitSignal *)

\* Before Notify a signal ends the process.  The channel has no buffer: one
\* that finds nobody waiting is lost.
Signal ==
    /\ ~Ended
    /\ \/ catcher = "none" /\ main' = "killed" /\ UNCHANGED catcher
       \/ catcher = "wait" /\ catcher' = "stop" /\ UNCHANGED main
    /\ UNCHANGED <<stopped, listener, acceptor, http, fault, via, hops>>

\* Mutant of Catch: the signal is taken and nothing stopped.
CatchOnly ==
    /\ ~Ended
    /\ \/ catcher = "notify" /\ catcher' = "wait"
       \/ catcher = "stop" /\ catcher' = "end"
    /\ UNCHANGED <<main, stopped, listener, acceptor, http, fault, via, hops>>

\* The goroutine waits, and closes the http.Server and its connections.
Catch ==
    /\ ~Ended
    /\ \/ catcher = "notify" /\ catcher' = "wait" /\ UNCHANGED http
       \/ catcher = "stop" /\ catcher' = "end" /\ http' = "closed"
    /\ UNCHANGED <<main, stopped, listener, acceptor, fault, via, hops>>

-----------------------------------------------------------------------------
(* ProxyServer.accept *)

AcceptFails ==
    /\ ~Ended
    /\ acceptor = "accept"
    /\ \/ listener = "open" /\ acceptor' = "sleep" /\ UNCHANGED fault
       \/ listener = "open" /\ acceptor' = "failed" /\ fault' = TRUE
       \/ listener = "closed" /\ acceptor' = "failed" /\ UNCHANGED fault
    /\ UNCHANGED <<main, stopped, listener, catcher, http, via, hops>>

\* By the timer or by ctx.
Sleep ==
    /\ ~Ended
    /\ acceptor = "sleep"
    /\ acceptor' = "accept"
    /\ UNCHANGED <<main, stopped, listener, catcher, http, fault, via, hops>>

\* When it listens again it goes on with the connection it has not got.
AcceptAfterFailure ==
    /\ ~Ended
    /\ acceptor = "failed"
    /\ \/ stopped /\ acceptor' = "end" /\ UNCHANGED listener
       \/ ~stopped /\ acceptor' = "end" /\ listener' = "none"
       \/ ~stopped /\ acceptor' = "nil" /\ listener' = "open"
    /\ UNCHANGED <<main, stopped, catcher, http, fault, via, hops>>

HandleNilConn ==
    /\ ~Ended
    /\ acceptor = "nil"
    /\ main' = "panicked"
    /\ UNCHANGED <<stopped, listener, acceptor, catcher, http, fault, via, hops>>

-----------------------------------------------------------------------------
(* httpHandler.serveHTTP: hop i *)

NewHop(req) ==
    [host |-> req.host, deep |-> req.deep, from |-> req.from,
     srv |-> "read", answer |-> "none", agt |-> "none", result |-> "none"]

Request ==
    /\ ~Ended
    /\ http = "serving"
    /\ hops = <<>>
    /\ \E req \in Requests : hops' = <<NewHop(req)>>
    /\ UNCHANGED <<procVars, via>>

Reply(i, status) ==
    hops' = [hops EXCEPT ![i] = [@ EXCEPT !.srv = "done", !.answer = status]]

TooDeep(hop) == hop.deep > MaxPortalDeep \/ hop.from = hop.host

\* The body cannot be read, the depth is too large, the host is not known, or
\* the request cannot be sent to the agent.
Refuse(i) ==
    /\ ~Ended
    /\ hops[i].srv = "read"
    /\ \/ Reply(i, "error")
       \/ TooDeep(hops[i]) /\ Reply(i, "deep")
       \/ ~TooDeep(hops[i]) /\ via[hops[i].host] = Unknown
            /\ Reply(i, "notFound")
    /\ UNCHANGED <<procVars, via>>

DoRequest(i) ==
    /\ ~Ended
    /\ hops[i].srv = "read"
    /\ ~TooDeep(hops[i])
    /\ via[hops[i].host] # Unknown
    /\ hops' = [hops EXCEPT ![i] = [@ EXCEPT !.srv = "wait", !.agt = "ask"]]
    /\ UNCHANGED <<procVars, via>>

\* The agent's answer arrives in DoRequest's select.
Respond(i) ==
    /\ ~Ended
    /\ hops[i].srv = "wait"
    /\ hops[i].agt = "done"
    /\ Reply(i, hops[i].result)
    /\ UNCHANGED <<procVars, via>>

\* Or it does not: DoRequest is not there yet and SendResponse drops it, or the
\* agent's Send fails, which the agent logs.  Only timers are left then.
AnswerLost(i) ==
    /\ ~Ended
    /\ hops[i].srv = "wait"
    /\ hops[i].agt = "done"
    /\ hops' = [hops EXCEPT ![i] = [@ EXCEPT !.agt = "lost"]]
    /\ UNCHANGED <<procVars, via>>

\* ReceiveResponse has passed.
Timeout(i) ==
    /\ ~Ended
    /\ hops[i].srv = "wait"
    /\ Reply(i, "error")
    /\ UNCHANGED <<procVars, via>>

\* Who sent the request has gone, or the http.Server has closed his connection.
Cancelled(i) ==
    /\ ~Ended
    /\ hops[i].srv = "wait"
    /\ i > 1 => http = "closed" \/ hops[i - 1].agt \in {"done", "lost"}
    /\ Reply(i, "none")
    /\ UNCHANGED <<procVars, via>>

-----------------------------------------------------------------------------
(* RequestHandler.serveHTTP of the agent: it sends hop i on *)

Result(i, status) ==
    hops' = [hops EXCEPT ![i] = [@ EXCEPT !.agt = "done", !.result = status]]

Target(i) == via[hops[i].host]

Sent(i) == [hops EXCEPT ![i] = [@ EXCEPT !.agt = "sent"]]

\* The headers that the portal has given hop i, one deeper and from its host.
\* The agent passes them on as they are.
Onward(i) == [host |-> Target(i), deep |-> hops[i].deep + 1, from |-> hops[i].host]

\* Mutants of Forward: every address is taken for a portal's; the depth is
\* passed on as it came.
ForwardAny(i) ==
    /\ hops[i].agt = "ask"
    /\ ~Ended /\ http = "serving"
    /\ hops' = Append(Sent(i), NewHop(Onward(i)))
    /\ UNCHANGED <<procVars, via>>

ForwardUncounted(i) ==
    /\ hops[i].agt = "ask"
    /\ Target(i) \in Hosts
    /\ ~Ended /\ http = "serving"
    /\ hops' = Append(Sent(i),
                      NewHop([Onward(i) EXCEPT !.deep = hops[i].deep]))
    /\ UNCHANGED <<procVars, via>>

Forward(i) ==
    /\ hops[i].agt = "ask"
    /\ Target(i) \in Hosts
    /\ ~Ended /\ http = "serving"
    /\ hops' = Append(Sent(i), NewHop(Onward(i)))
    /\ UNCHANGED <<procVars, via>>

\* Nobody there is a bad gateway.
AskOther(i) ==
    /\ hops[i].agt = "ask"
    /\ \/ Target(i) = Web /\ Result(i, "ok")
       \/ Target(i) = Nobody /\ Result(i, "error")
       \/ Target(i) \in Hosts /\ (Ended \/ http # "serving")
            /\ Result(i, "error")
    /\ UNCHANGED <<procVars, via>>

\* Mutant of Relay: only success is reported.
RelayOk(i) ==
    /\ hops[i].agt = "sent"
    /\ hops[i + 1].answer = "ok"
    /\ Result(i, "ok")
    /\ UNCHANGED <<procVars, via>>

\* Whatever the portal answers is passed on; a connection that ends without
\* an answer is a bad gateway.
Relay(i) ==
    /\ hops[i].agt = "sent"
    /\ \/ /\ hops[i + 1].srv = "done" /\ hops[i + 1].answer # "none"
          /\ Result(i, hops[i + 1].answer)
       \/ /\ \/ hops[i + 1].srv = "done" /\ hops[i + 1].answer = "none"
             \/ Ended \/ http = "closed"
          /\ Result(i, "error")
    /\ UNCHANGED <<procVars, via>>

\* The timeout of the agent's configuration, if there is one.
GiveUp(i) ==
    /\ hops[i].agt \in {"ask", "sent"}
    /\ Result(i, "error")
    /\ UNCHANGED <<procVars, via>>

-----------------------------------------------------------------------------

Main ==
    \/ Start \/ CatchExitSignal \/ ListenAndServe
    \/ http = "closed" /\ ListenAndServeReturns
    \/ Stop

Serve(i) == Refuse(i) \/ DoRequest(i) \/ Respond(i)
Ask(i) == Forward(i) \/ AskOther(i) \/ Relay(i)

Next ==
    \/ Main
    \/ ListenAndServeReturns
    \/ Signal
    \/ Catch
    \/ AcceptFails \/ Sleep \/ AcceptAfterFailure \/ HandleNilConn
    \/ Request
    \/ \E i \in DOMAIN hops :
          \/ Serve(i) \/ AnswerLost(i) \/ Timeout(i) \/ Cancelled(i)
          \/ Ask(i) \/ GiveUp(i)

Spec == Init /\ [][Next]_vars

\* Deeper hops than a request without header makes.
Depths == 1 .. MaxPortalDeep + 2

\* Goroutines and agents get to run and ordinary servers answer.  Nobody goes
\* away unless he does, and no timer need run out but the ReceiveResponse of a
\* handler whose agent's answer is lost.
Fairness ==
    /\ WF_vars(Main)
    /\ WF_vars(Catch)
    /\ \A i \in Depths :
          /\ WF_vars(i \in DOMAIN hops /\ Serve(i))
          /\ WF_vars(i \in DOMAIN hops /\ Ask(i))
          /\ WF_vars(i \in DOMAIN hops /\ hops[i].agt = "lost" /\ Timeout(i))

FairSpec == Spec /\ Fairness

-----------------------------------------------------------------------------
(* Properties *)

\* A request goes round a circle of hosts at most MaxPortalDeep + 2 times,
\* less by the depth it came with, and never twice from a host to itself.
ChainIsBounded ==
    hops # <<>> =>
        /\ Len(hops) <= 1 \/ Len(hops) <= MaxPortalDeep + 2 - hops[1].deep
        /\ \A i \in 1 .. Len(hops) - 2 : hops[i].host # hops[i + 1].host

\* Nobody in the chain turns a failure into a success, also if timers run out
\* and portals answer while their agents still wait.
OkComesFromWeb ==
    \A i \in DOMAIN hops : hops[i].answer = "ok" =>
        /\ \A j \in i .. Len(hops) : hops[j].answer = "ok"
        /\ via[hops[Len(hops)].host] = Web

\* Stopping the server makes accept return: it panics, or gives up accepting
\* agents, only after the operating system has failed it.
OnlyFaultsPanic ==
    main = "panicked" \/ (acceptor = "end" /\ ~stopped) => fault

\* Every request of a chain is answered, although every portal waits for the
\* next, and without a timer wherever the agent's answer gets through: the
\* circle is not a deadlock.
CircleUnwinds ==
    \A i \in Depths :
        Len(hops) >= i ~> Ended \/ (Len(hops) >= i /\ hops[i].srv = "done")

\* A signal that has been received ends the process, wherever main is.
SignalEnds == catcher = "stop" ~> Ended

=============================================================================
