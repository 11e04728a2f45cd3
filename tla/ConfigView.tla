----------------------------- MODULE ConfigView -----------------------------
(***************************************************************************)
(* What per-workspace resolution promises a caller, without caches, locks  *)
(* or time stamps: a call is answered with a version of the config file    *)
(* that was the current one at some moment between the start of the call   *)
(* and its answer - "loaded per client, reloaded when the file changes" -  *)
(* or it is refused.  RootRegistry.tla is shown to implement it.           *)
(***************************************************************************)
EXTENDS Naturals

CONSTANTS Callers, Paths, None

VARIABLES
    current,     \* the version a file has now
    asked,       \* the path a caller asked for, or None
    since,       \* the version that path had when the caller asked
    got          \* the version the caller was answered with, or None

viewVars == <<current, asked, since, got>>

Init ==
    /\ current = [p \in Paths |-> 0]
    /\ asked = [c \in Callers |-> None]
    /\ since = [c \in Callers |-> 0]
    /\ got   = [c \in Callers |-> None]

Edit(p) ==
    /\ current' = [current EXCEPT ![p] = @ + 1]
    /\ UNCHANGED <<asked, since, got>>

Ask(c, p) ==
    /\ asked[c] = None
    /\ asked' = [asked EXCEPT ![c] = p]
    /\ since' = [since EXCEPT ![c] = current[p]]
    /\ UNCHANGED <<current, got>>

Answer(c) ==
    /\ asked[c] # None /\ got[c] = None
    /\ \E v \in since[c]..current[asked[c]] : got' = [got EXCEPT ![c] = v]
    /\ UNCHANGED <<current, asked, since>>

Leave(c) ==
    /\ asked[c] # None
    /\ asked' = [asked EXCEPT ![c] = None]
    /\ since' = [since EXCEPT ![c] = 0]
    /\ got'   = [got EXCEPT ![c] = None]
    /\ UNCHANGED current

Next ==
    \/ \E p \in Paths : Edit(p)
    \/ \E c \in Callers, p \in Paths : Ask(c, p)
    \/ \E c \in Callers : Answer(c) \/ Leave(c)

Spec == Init /\ [][Next]_viewVars
=============================================================================
