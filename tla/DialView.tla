------------------------------ MODULE DialView ------------------------------
(***************************************************************************)
(* What DialContext promises the driver, without workers or channels: a    *)
(* dial waits until it is answered, with a connection of its own or an     *)
(* error, or until its context has ended.  One that was given up leaves at *)
(* most one connection behind, and that only until the tunnel is closed.   *)
(* Tunnel.tla is shown to implement this specification.                    *)
(***************************************************************************)
CONSTANTS Dials

VARIABLES
    at,          \* "none", "waiting", "given", "refused", "abandoned", "left", "over"
    ended,       \* the dials whose context has ended
    open,        \* the dials whose connection is open and not waited for
    closed       \* the tunnel is closed

viewVars == <<at, ended, open, closed>>

Init ==
    /\ at = [d \in Dials |-> "none"]
    /\ ended = {} /\ open = {}
    /\ closed = FALSE

Goto(d, from, to) == at[d] = from /\ at' = [at EXCEPT ![d] = to]

\* A connection is obtained: it is open, unless the tunnel was closed meanwhile.
Obtain(d) == open' = IF closed THEN open ELSE open \cup {d}

Dial(d)    == Goto(d, "none", "waiting") /\ UNCHANGED <<ended, open, closed>>
CtxEnds(d) == at[d] = "waiting" /\ ended' = ended \cup {d} /\ UNCHANGED <<at, open, closed>>
Answer(d)  == Goto(d, "waiting", "given") /\ Obtain(d) /\ UNCHANGED <<ended, closed>>
Refuse(d)  == Goto(d, "waiting", "refused") /\ UNCHANGED <<ended, open, closed>>

GiveUp(d) ==
    /\ d \in ended
    /\ Goto(d, "waiting", "abandoned")
    /\ UNCHANGED <<ended, open, closed>>

\* The connection comes too late, or is not taken.
LeaveBehind(d) ==
    /\ d \in ended
    /\ Goto(d, "waiting", "left") \/ Goto(d, "abandoned", "left")
    /\ Obtain(d)
    /\ UNCHANGED <<ended, closed>>

Hangup(d) == Goto(d, "given", "over") /\ open' = open \ {d} /\ UNCHANGED <<ended, closed>>

Close ==
    /\ ~ closed /\ closed' = TRUE
    /\ open' = {}
    /\ UNCHANGED <<at, ended>>

Next ==
    \/ \E d \in Dials :
        \/ Dial(d) \/ CtxEnds(d) \/ Answer(d) \/ Refuse(d)
        \/ GiveUp(d) \/ LeaveBehind(d) \/ Hangup(d)
    \/ Close

Spec == Init /\ [][Next]_viewVars
=============================================================================
