------------------------------ MODULE NameTable ------------------------------
(***************************************************************************)
(* What the portal server promises about names, whatever its goroutines do *)
(* behind it: a name has one live holder at most, a connection is granted  *)
(* its name once at most, and a connection that loses its name is closed   *)
(* in the same step, so nobody holds a working connection that requests do *)
(* not reach.  A connection that has ended is closed, holds nothing, and   *)
(* is never open again.  It is not promised that a holder loses the name   *)
(* for a reason of its own: whoever was granted the name before may do it  *)
(* harm, and only they.                                                    *)
(***************************************************************************)
CONSTANTS
    Conns,   \* connections of agents
    Names,   \* agent names
    NameOf,  \* the name a connection may be granted
    NoConn   \* nobody

VARIABLES
    life,    \* what has become of a connection
    holder   \* name -> the connection that requests for it go to

vars == <<life, holder>>

Lives == {"new", "open", "granted", "closed", "ended"}

Init ==
    /\ life = [c \in Conns |-> "new"]
    /\ holder = [n \in Names |-> NoConn]

Accept(c) ==
    /\ life[c] = "new"
    /\ life' = [life EXCEPT ![c] = "open"]
    /\ UNCHANGED holder

Grant(c) ==
    /\ life[c] = "open"
    /\ holder[NameOf[c]] = NoConn
    /\ life' = [life EXCEPT ![c] = "granted"]
    /\ holder' = [holder EXCEPT ![NameOf[c]] = c]

\* A connection that was granted its name lets the name go, for whoever holds
\* it by now.
Drop(c) ==
    /\ life[c] \in {"granted", "closed", "ended"}
    /\ holder[NameOf[c]] # NoConn
    /\ life' = [life EXCEPT ![holder[NameOf[c]]] = "closed"]
    /\ holder' = [holder EXCEPT ![NameOf[c]] = NoConn]

\* A connection ends; if it holds its name, the name is free.
End(c) ==
    /\ life[c] \in {"open", "granted", "closed"}
    /\ life' = [life EXCEPT ![c] = "ended"]
    /\ holder' = [n \in Names |-> IF holder[n] = c THEN NoConn ELSE holder[n]]

\* A connection that lost its name ends, and the holder loses it as well.
EndAndDrop(c) ==
    /\ life[c] = "closed"
    /\ holder[NameOf[c]] # NoConn
    /\ life' = [life EXCEPT ![c] = "ended", ![holder[NameOf[c]]] = "closed"]
    /\ holder' = [holder EXCEPT ![NameOf[c]] = NoConn]

DropAll ==
    /\ life' = [c \in Conns |-> IF life[c] = "granted" THEN "closed"
                                                       ELSE life[c]]
    /\ holder' = [n \in Names |-> NoConn]

Next ==
    \/ \E c \in Conns :
           Accept(c) \/ Grant(c) \/ Drop(c) \/ End(c) \/ EndAndDrop(c)
    \/ DropAll

Spec == Init /\ [][Next]_vars

=============================================================================
