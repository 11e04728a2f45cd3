------------------------------ MODULE LazyPool ------------------------------
(***************************************************************************)
(* What a source.Registry promises to its callers, without locks, tunnels  *)
(* or connection attempts: a pool that holds at most one connection per    *)
(* source, opens it only when somebody asks for that source, and answers   *)
(* a request either with a pooled connection to the very source asked for  *)
(* or not at all.  Registry.tla is shown to implement this specification.  *)
(***************************************************************************)
CONSTANTS
    Callers,     \* the goroutines that call the registry
    Sources,     \* the configured source names
    Conn,        \* the connections: records with a name field in Sources
    None         \* no source, no connection

VARIABLES
    pool,        \* the connections the pool holds
    asked,       \* the source a caller is asking for or using, or None
    lent         \* the connection a caller was handed, or None

poolVars == <<pool, asked, lent>>

Init ==
    /\ pool = {}
    /\ asked = [c \in Callers |-> None]
    /\ lent  = [c \in Callers |-> None]

Ask(c, s) ==
    /\ asked[c] = None
    /\ asked' = [asked EXCEPT ![c] = s]
    /\ UNCHANGED <<pool, lent>>

Waiting(c) == asked[c] # None /\ lent[c] = None

\* The pool has no connection to the source: one is opened and lent.
Open(c) ==
    /\ Waiting(c)
    /\ \E k \in Conn :
          /\ k.name = asked[c]
          /\ \A j \in pool : j.name # k.name
          /\ pool' = pool \cup {k}
          /\ lent' = [lent EXCEPT ![c] = k]
    /\ UNCHANGED asked

Lend(c) ==
    /\ Waiting(c)
    /\ \E k \in pool :
          /\ k.name = asked[c]
          /\ lent' = [lent EXCEPT ![c] = k]
    /\ UNCHANGED <<pool, asked>>

\* The request ends: refused, or its connection no longer used.
Leave(c) ==
    /\ asked[c] # None
    /\ asked' = [asked EXCEPT ![c] = None]
    /\ lent'  = [lent EXCEPT ![c] = None]
    /\ UNCHANGED pool

Drop ==
    /\ \E k \in pool : pool' = pool \ {k}
    /\ UNCHANGED <<asked, lent>>

Next ==
    \/ \E c \in Callers, s \in Sources : Ask(c, s)
    \/ \E c \in Callers : Open(c) \/ Lend(c) \/ Leave(c)
    \/ Drop

Spec == Init /\ [][Next]_poolVars
=============================================================================
