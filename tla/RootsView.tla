----------------------------- MODULE RootsView ------------------------------
(***************************************************************************)
(* What resolving its workspace promises a call, without states, caches,   *)
(* locks or sweeps: it is answered at once with what its own request names,*)
(* or later with a root list its own client had, and not with one that the *)
(* client had revoked before the call: "invalidate clears the roots cache  *)
(* so the next call re-queries".  A list_changed counts from when it was   *)
(* handled.  One that is handled while calls are asking the client for its *)
(* roots may count only with the next one.  Resolver.tla is shown to       *)
(* implement this specification.                                           *)
(***************************************************************************)
EXTENDS Naturals

CONSTANTS Callers, Sessions, Capable, HeaderRoots, Rooted, Base, None

VARIABLES
    gen,         \* the generation of a client's root list
    noted,       \* the generation the last handled list_changed announced
    floor,       \* the oldest generation a call that starts now may get
    at,          \* "idle", "waiting", "asking" the client, "answered"
    asked,       \* the session of a call, or None
    since,       \* the floor when the call started
    got          \* the roots it was answered with, Base, or None

viewVars == <<gen, noted, floor, at, asked, since, got>>

Init ==
    /\ gen = [s \in Sessions |-> 0]
    /\ noted = [s \in Sessions |-> 0]
    /\ floor = [s \in Sessions |-> 0]
    /\ at = [c \in Callers |-> "idle"]
    /\ asked = [c \in Callers |-> None]
    /\ since = [c \in Callers |-> 0]
    /\ got = [c \in Callers |-> None]

Change(s) ==
    /\ gen' = [gen EXCEPT ![s] = @ + 1]
    /\ UNCHANGED <<noted, floor, at, asked, since, got>>

Handled(s) ==
    /\ noted[s] < gen[s]
    /\ noted' = [noted EXCEPT ![s] = @ + 1]
    /\ \/ floor' = [floor EXCEPT ![s] = noted[s] + 1]
       \/ (\E c \in Callers : at[c] = "asking" /\ asked[c] = s) /\ UNCHANGED floor
    /\ UNCHANGED <<gen, at, asked, since, got>>

Start(c, s) ==
    /\ at[c] = "idle"
    /\ asked' = [asked EXCEPT ![c] = s]
    /\ since' = [since EXCEPT ![c] = floor[s]]
    /\ UNCHANGED <<gen, noted, floor>>

AnswerAtOnce(c, s, h) ==
    /\ Start(c, s)
    /\ h \in Rooted \/ s \notin Capable
    /\ at' = [at EXCEPT ![c] = "answered"]
    /\ got' = [got EXCEPT ![c] = IF h \in Rooted THEN h ELSE Base]

Wait(c, s) ==
    /\ Start(c, s)
    /\ s \in Capable
    /\ at' = [at EXCEPT ![c] = "waiting"]
    /\ UNCHANGED got

AskClient(c) ==
    /\ at[c] = "waiting"
    /\ at' = [at EXCEPT ![c] = "asking"]
    /\ UNCHANGED <<gen, noted, floor, asked, since, got>>

Answer(c, roots) ==
    /\ at' = [at EXCEPT ![c] = "answered"]
    /\ got' = [got EXCEPT ![c] = IF roots \in Rooted THEN roots ELSE Base]
    /\ UNCHANGED <<gen, noted, floor, asked, since>>

AnswerFromList(c) ==
    /\ at[c] \in {"waiting", "asking"}
    /\ \E g \in since[c]..gen[asked[c]] : Answer(c, [from |-> asked[c], gen |-> g])

\* The client does not answer.
AnswerWithout(c) == at[c] = "asking" /\ Answer(c, None)

Leave(c) ==
    /\ at[c] = "answered"
    /\ at' = [at EXCEPT ![c] = "idle"]
    /\ asked' = [asked EXCEPT ![c] = None]
    /\ since' = [since EXCEPT ![c] = 0]
    /\ got' = [got EXCEPT ![c] = None]
    /\ UNCHANGED <<gen, noted, floor>>

Next ==
    \/ \E s \in Sessions : Change(s) \/ Handled(s)
    \/ \E c \in Callers, s \in Sessions :
          Wait(c, s) \/ \E h \in HeaderRoots \cup {None} : AnswerAtOnce(c, s, h)
    \/ \E c \in Callers :
          AskClient(c) \/ AnswerFromList(c) \/ AnswerWithout(c) \/ Leave(c)

Spec == Init /\ [][Next]_viewVars
=============================================================================
