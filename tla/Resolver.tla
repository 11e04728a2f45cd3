------------------------------ MODULE Resolver ------------------------------
(***************************************************************************)
(* How a tool call finds its workspace (Resolver.Registry and what it      *)
(* calls in internal/source/resolver.go, sessionState in                   *)
(* internal/source/roots.go): roots injected by a request header first,    *)
(* then the client's roots/list, cached per session, then the global       *)
(* registry.  Calls run concurrently with each other, with the client's    *)
(* roots/list_changed notifications, with the end of sessions and with the *)
(* sweep that drops what ended sessions leave behind.                      *)
(*                                                                         *)
(* A client's root list is named by its session and its generation: the    *)
(* number of changes the client made to it.  What a config file then makes *)
(* of a workspace is the subject of RootRegistry.tla.                      *)
(***************************************************************************)
EXTENDS Naturals

CONSTANTS
    Callers,     \* goroutines running tool handlers
    Sessions,    \* MCP sessions, by ServerSession.ID
    Capable,     \* those whose client advertised the roots capability
    HeaderRoots, \* root lists injected by a request header
    Rooted,      \* the root lists in which some root holds a config file
    Base,        \* the global registry; None in roots-only mode
    None,        \* no header, nil
    MaxCalls,    \* bound: calls in one behaviour
    MaxChanges   \* bound: changes of one client's root list

Generation == 0..MaxChanges
RootList == [from : Sessions, gen : Generation]   \* a roots/list result
State == 1..MaxCalls                              \* *sessionState objects

ASSUME ResolverAssumption ==
    /\ Capable \subseteq Sessions
    /\ Rooted \subseteq HeaderRoots \cup RootList
    /\ None \notin HeaderRoots \cup RootList \cup Sessions \cup State
    /\ Base \notin HeaderRoots \cup RootList
    /\ HeaderRoots \cap RootList = {}
    /\ MaxCalls \in Nat /\ MaxChanges \in Nat

VARIABLES
    phase,       \* the life of a session: "new", "live" (in srv.Sessions()), "ended"
    gen,         \* the generation of the client's root list
    noted,       \* the generation the last handled list_changed announced
    notice,      \* what a running OnRootsChanged found: a state, or None
    sessions,    \* Resolver.sessions: the state cached for a session, or None
    cache,       \* sessionState.roots, or None while ~ done
    floor,       \* history: what the last list_changed that overtook no query announced
    seen,        \* the sessions sweepSessions saw alive, or None
    pc,          \* where a caller is, or "using" the registry resolved
    session,     \* the session of the caller's call, or None
    header,      \* the roots the call's header carries, or None
    ticket,      \* the number of the caller's call
    since,       \* history: the floor of the session when the call started
    state,       \* the sessionState the call works on, or None
    got,         \* the roots the client answered, later the resolved ones
    calls        \* how many calls were made so far

clientVars == <<phase, gen>>
noticeVars == <<noted, notice, floor>>
callVars == <<session, header, ticket, since, calls>>
vars == <<clientVars, noticeVars, sessions, cache, seen, pc, callVars, state, got>>

TypeOK ==
    /\ phase \in [Sessions -> {"new", "live", "ended"}]
    /\ gen \in [Sessions -> Generation]
    /\ noted \in [Sessions -> Generation]
    /\ notice \in [Sessions -> State \cup {None}]
    /\ sessions \in [Sessions -> State \cup {None}]
    /\ cache \in [State -> RootList \cup {None}]
    /\ floor \in [Sessions -> Generation]
    /\ seen = None \/ seen \subseteq Sessions
    /\ pc \in [Callers -> {"idle", "find", "check", "query", "store", "using"}]
    /\ session \in [Callers -> Sessions \cup {None}]
    /\ header \in [Callers -> HeaderRoots \cup {None}]
    /\ ticket \in [Callers -> 0..MaxCalls]
    /\ since \in [Callers -> Generation]
    /\ state \in [Callers -> State \cup {None}]
    /\ got \in [Callers -> RootList \cup HeaderRoots \cup {Base, None}]
    /\ calls \in 0..MaxCalls
    /\ \A s \in Sessions : notice[s] # None => noted[s] < gen[s]
    /\ \A c \in Callers :
          /\ pc[c] = "idle" <=> session[c] = None
          /\ pc[c] = "idle" <=> ticket[c] = 0
          /\ pc[c] \in {"check", "query", "store"} <=> state[c] # None
          /\ pc[c] = "store" => got[c] \in RootList

Init ==
    /\ phase = [s \in Sessions |-> "new"]
    /\ gen = [s \in Sessions |-> 0]
    /\ noted = [s \in Sessions |-> 0]
    /\ notice = [s \in Sessions |-> None]
    /\ sessions = [s \in Sessions |-> None]
    /\ cache = [o \in State |-> None]
    /\ floor = [s \in Sessions |-> 0]
    /\ seen = None
    /\ pc = [c \in Callers |-> "idle"]
    /\ session = [c \in Callers |-> None]
    /\ header = [c \in Callers |-> None]
    /\ ticket = [c \in Callers |-> 0]
    /\ since = [c \in Callers |-> 0]
    /\ state = [c \in Callers |-> None]
    /\ got = [c \in Callers |-> None]
    /\ calls = 0

-----------------------------------------------------------------------------
\* The client

Begin(s) ==
    /\ phase[s] = "new"
    /\ phase' = [phase EXCEPT ![s] = "live"]
    /\ UNCHANGED <<gen, noticeVars, sessions, cache, seen, pc, callVars, state, got>>

End(s) ==
    /\ phase[s] = "live"
    /\ phase' = [phase EXCEPT ![s] = "ended"]
    /\ UNCHANGED <<gen, noticeVars, sessions, cache, seen, pc, callVars, state, got>>

\* The user opens or closes a workspace; a list_changed is on its way until
\* noted catches up with gen.
ChangeRoots(s) ==
    /\ phase[s] = "live"
    /\ gen[s] < MaxChanges
    /\ gen' = [gen EXCEPT ![s] = @ + 1]
    /\ UNCHANGED <<phase, noticeVars, sessions, cache, seen, pc, callVars, state, got>>

-----------------------------------------------------------------------------
\* OnRootsChanged, one notification of a session after the other

\* A list_changed has been handled.
Handled(s, overtakes) ==
    /\ noted' = [noted EXCEPT ![s] = @ + 1]
    /\ floor' = [floor EXCEPT ![s] = IF overtakes THEN @ ELSE noted[s] + 1]

\* The state of the session is looked up under Resolver.mu.  Without one there
\* is nothing to invalidate.
Notice(s) ==
    /\ notice[s] = None
    /\ noted[s] < gen[s]
    /\ notice' = [notice EXCEPT ![s] = sessions[s]]
    /\ IF sessions[s] = None THEN Handled(s, FALSE) ELSE UNCHANGED <<noted, floor>>
    /\ UNCHANGED <<clientVars, sessions, cache, seen, pc, callVars, state, got>>

\* Some caller has asked the client for the roots of the session's state, the one
\* OnRootsChanged found, and not stored them yet.
Overtakes(s) ==
    /\ notice[s] = sessions[s]
    /\ \E c \in Callers : state[c] = notice[s] /\ pc[c] \in {"query", "store"}

\* Mutated Invalidate: the handler ends, the cached roots stay.
InvalidateNothing(s) ==
    /\ notice[s] # None
    /\ notice' = [notice EXCEPT ![s] = None]
    /\ Handled(s, Overtakes(s))
    /\ UNCHANGED <<clientVars, sessions, cache, seen, pc, callVars, state, got>>

\* sessionState.invalidate, under the lock of the state.
Invalidate(s) ==
    /\ notice[s] # None
    /\ cache' = [cache EXCEPT ![notice[s]] = None]
    /\ notice' = [notice EXCEPT ![s] = None]
    /\ Handled(s, Overtakes(s))
    /\ UNCHANGED <<clientVars, sessions, seen, pc, callVars, state, got>>

-----------------------------------------------------------------------------
\* sweepSessions

\* Mutated SweepSnapshot: sessions that ended are taken for live ones.
SweepSnapshotAll ==
    /\ seen = None
    /\ seen' = {s \in Sessions : phase[s] # "new"}
    /\ UNCHANGED <<clientVars, noticeVars, sessions, cache, pc, callVars, state, got>>

\* The ticker fires: the live sessions are collected, without the lock.
SweepSnapshot ==
    /\ seen = None
    /\ seen' = {s \in Sessions : phase[s] = "live"}
    /\ UNCHANGED <<clientVars, noticeVars, sessions, cache, pc, callVars, state, got>>

\* Under the lock the states of all others are dropped.
SweepDelete ==
    /\ seen # None
    /\ sessions' = [s \in Sessions |-> IF s \in seen THEN sessions[s] ELSE None]
    /\ seen' = None
    /\ UNCHANGED <<clientVars, noticeVars, cache, pc, callVars, state, got>>

-----------------------------------------------------------------------------
\* A call

\* The registry of the first root with a config, else the global one.
Resolved(roots) == IF roots \in Rooted THEN roots ELSE Base

\* The call is counted and its request noted.
Arrive(c, s, h) ==
    /\ calls < MaxCalls
    /\ phase[s] = "live"
    /\ pc[c] = "idle"
    /\ session' = [session EXCEPT ![c] = s]
    /\ header' = [header EXCEPT ![c] = h]
    /\ ticket' = [ticket EXCEPT ![c] = calls + 1]
    /\ since' = [since EXCEPT ![c] = floor[s]]
    /\ calls' = calls + 1

\* Mutated HeaderCall: the injected roots are kept in the session's state.
HeaderCallCaches(c, s, h) ==
    /\ Arrive(c, s, h)
    /\ h \in Rooted
    /\ pc' = [pc EXCEPT ![c] = "using"]
    /\ got' = [got EXCEPT ![c] = h]
    /\ cache' = IF sessions[s] = None THEN cache ELSE [cache EXCEPT ![sessions[s]] = h]
    /\ UNCHANGED <<clientVars, noticeVars, sessions, seen, state>>

\* A root of the header holds a config: session state is not touched.
HeaderCall(c, s, h) ==
    /\ Arrive(c, s, h)
    /\ h \in Rooted
    /\ pc' = [pc EXCEPT ![c] = "using"]
    /\ got' = [got EXCEPT ![c] = h]
    /\ UNCHANGED <<clientVars, noticeVars, sessions, cache, seen, state>>

\* No usable header and no roots capability: the global registry.
PlainCall(c, s, h) ==
    /\ Arrive(c, s, h)
    /\ h \notin Rooted /\ s \notin Capable
    /\ pc' = [pc EXCEPT ![c] = "using"]
    /\ got' = [got EXCEPT ![c] = Base]
    /\ UNCHANGED <<clientVars, noticeVars, sessions, cache, seen, state>>

\* No usable header: sessionRoots is asked.
RootsCall(c, s, h) ==
    /\ Arrive(c, s, h)
    /\ h \notin Rooted /\ s \in Capable
    /\ pc' = [pc EXCEPT ![c] = "find"]
    /\ UNCHANGED <<clientVars, noticeVars, sessions, cache, seen, state, got>>

Goto(c, from, to) == pc[c] = from /\ pc' = [pc EXCEPT ![c] = to]

\* Mutated Find: any session's state will do.
FindShared(c) ==
    LET s == session[c]
        known == {sessions[t] : t \in Sessions} \ {None}
        o == IF known = {} THEN ticket[c] ELSE CHOOSE o \in known : TRUE
    IN  /\ Goto(c, "find", "check")
        /\ state' = [state EXCEPT ![c] = o]
        /\ sessions' = [sessions EXCEPT ![s] = o]
        /\ UNCHANGED <<clientVars, noticeVars, cache, seen, callVars, got>>

\* sessionFor, under Resolver.mu: the state of the session, or a new one.
Find(c) ==
    LET s == session[c]
        o == IF sessions[s] = None THEN ticket[c] ELSE sessions[s]
    IN  /\ Goto(c, "find", "check")
        /\ state' = [state EXCEPT ![c] = o]
        /\ sessions' = [sessions EXCEPT ![s] = o]
        /\ UNCHANGED <<clientVars, noticeVars, cache, seen, callVars, got>>

\* rootPaths ends with the given roots; its state is no longer referred to.
Answer(c, roots) ==
    /\ got' = [got EXCEPT ![c] = roots]
    /\ state' = [state EXCEPT ![c] = None]
    /\ UNCHANGED <<clientVars, noticeVars, sessions, seen, callVars>>

\* rootPaths, first critical section.
CheckHit(c) ==
    /\ Goto(c, "check", "using")
    /\ cache[state[c]] # None
    /\ Answer(c, Resolved(cache[state[c]]))
    /\ UNCHANGED cache

CheckMiss(c) ==
    /\ Goto(c, "check", "query")
    /\ cache[state[c]] = None
    /\ UNCHANGED <<clientVars, noticeVars, sessions, cache, seen, callVars, state, got>>

\* ListRoots, no lock held: the client answers with the roots it has.
Reply(c) ==
    LET s == session[c]
    IN  /\ Goto(c, "query", "store")
        /\ phase[s] = "live"
        /\ got' = [got EXCEPT ![c] = [from |-> s, gen |-> gen[s]]]
        /\ UNCHANGED <<clientVars, noticeVars, sessions, cache, seen, callVars, state>>

\* Mutated QueryFails: rootPaths asks until the client answers.
QueryFailsRetries(c) ==
    /\ Goto(c, "query", "check")
    /\ UNCHANGED <<clientVars, noticeVars, sessions, cache, seen, callVars, state, got>>

\* It fails or times out after 30s: no roots, and nothing is cached.
QueryFails(c) ==
    /\ Goto(c, "query", "using")
    /\ Answer(c, Base)
    /\ UNCHANGED cache

\* Mutated Store: the roots this call was told replace what is cached.
StoreOverwrites(c) ==
    /\ Goto(c, "store", "using")
    /\ cache' = [cache EXCEPT ![state[c]] = got[c]]
    /\ Answer(c, Resolved(got[c]))

\* rootPaths, second critical section: the first of concurrent callers wins.
Store(c) ==
    LET o == state[c]
        roots == IF cache[o] = None THEN got[c] ELSE cache[o]
    IN  /\ Goto(c, "store", "using")
        /\ cache' = [cache EXCEPT ![o] = roots]
        /\ Answer(c, Resolved(roots))

\* Mutated Done: the session of the call is still referred to.
DoneKeepsSession(c) ==
    /\ Goto(c, "using", "idle")
    /\ ticket' = [ticket EXCEPT ![c] = 0]
    /\ since' = [since EXCEPT ![c] = 0]
    /\ got' = [got EXCEPT ![c] = None]
    /\ UNCHANGED <<clientVars, noticeVars, sessions, cache, seen, session, header, state, calls>>

\* The handler has its registry, or its error: the call is over.
Done(c) ==
    /\ Goto(c, "using", "idle")
    /\ session' = [session EXCEPT ![c] = None]
    /\ header' = [header EXCEPT ![c] = None]
    /\ ticket' = [ticket EXCEPT ![c] = 0]
    /\ since' = [since EXCEPT ![c] = 0]
    /\ got' = [got EXCEPT ![c] = None]
    /\ UNCHANGED <<clientVars, noticeVars, sessions, cache, seen, state, calls>>

-----------------------------------------------------------------------------

Step(c) ==
    \/ Find(c) \/ CheckHit(c) \/ CheckMiss(c)
    \/ Reply(c) \/ QueryFails(c) \/ Store(c)
    \/ Done(c)

\* The bounds are used up and nothing is left to do.
Rest ==
    /\ calls = MaxCalls
    /\ \A c \in Callers : pc[c] = "idle"
    /\ UNCHANGED vars

Next ==
    \/ \E s \in Sessions : Begin(s) \/ End(s) \/ ChangeRoots(s)
    \/ \E s \in Sessions : Notice(s) \/ Invalidate(s)
    \/ SweepSnapshot \/ SweepDelete
    \/ \E c \in Callers, s \in Sessions, h \in HeaderRoots \cup {None} :
          HeaderCall(c, s, h) \/ PlainCall(c, s, h) \/ RootsCall(c, s, h)
    \/ \E c \in Callers : Step(c)
    \/ Rest

Spec == Init /\ [][Next]_vars

\* Goroutines are scheduled, ListRoots ends within 30s, the ticker ticks.
Fairness ==
    /\ \A c \in Callers : WF_vars(Step(c))
    /\ WF_vars(SweepSnapshot) /\ WF_vars(SweepDelete)

FairSpec == Spec /\ Fairness
-----------------------------------------------------------------------------
\* Properties

\* No call is resolved by the roots of another client or another request:
\* header roots serve the request that carries them and no later one, cached
\* roots the session they were asked of, whatever state objects are shared,
\* swept or replaced.
RootsBelongToTheCall ==
    \A c \in Callers : pc[c] = "using" =>
        /\ got[c] \in HeaderRoots => got[c] = header[c]
        /\ got[c] \in RootList => got[c].from = session[c]

\* A session's cached roots are at least as new as the last list_changed that
\* overtook no query in flight when it was handled: one that did leaves older
\* roots behind, until the next that does not.
StaleOnlyIfOvertaken ==
    \A s \in Sessions :
        sessions[s] # None /\ cache[sessions[s]] # None
            => cache[sessions[s]].gen >= floor[s]

\* Once filled, a cache entry is what every caller is told until a
\* list_changed clears it: a slow query never replaces it.
FilledOnce ==
    [][\A o \in State :
          cache[o] # None => cache'[o] \in {cache[o], None}]_vars

\* The inductive invariant the two invariants above follow from.

\* A state object exists from the Find that creates it.
Unused(o) ==
    /\ \A s \in Sessions : sessions[s] # o /\ notice[s] # o
    /\ \A c \in Callers : state[c] # o
    /\ cache[o] = None

StatesAreNew ==
    /\ \A o \in State : o > calls => Unused(o)
    /\ \A c \in Callers :
          /\ ticket[c] <= calls
          /\ pc[c] = "find" => Unused(ticket[c])
          /\ \A d \in Callers : c # d /\ ticket[c] = ticket[d] => ticket[c] = 0

\* The state o is of the session s.
IsOf(o, s) ==
    \/ sessions[s] = o \/ notice[s] = o
    \/ \E c \in Callers : state[c] = o /\ session[c] = s

\* A state serves one session, and holds the roots of that one.
OneSessionPerState ==
    /\ \A o \in State, s, t \in Sessions :
          IsOf(o, s) => (IsOf(o, t) => s = t) /\ (cache[o] # None => cache[o].from = s)
    /\ \A c \in Callers : pc[c] = "store" => got[c].from = session[c]

\* What a session's state holds or is about to get is not below the floor, and
\* newer than what was noted when a running OnRootsChanged found an older state.
NewEnough(s, roots) ==
    /\ roots.gen \in floor[s]..gen[s]
    /\ notice[s] \notin {None, sessions[s]} => roots.gen > noted[s]

Freshness ==
    \A s \in Sessions :
        /\ floor[s] <= noted[s] /\ noted[s] <= gen[s]
        /\ sessions[s] # None =>
              /\ cache[sessions[s]] # None => NewEnough(s, cache[sessions[s]])
              /\ \A c \in Callers :
                    state[c] = sessions[s] /\ pc[c] = "store" => NewEnough(s, got[c])

\* Whatever becomes of its session and its state, a call finds there no roots
\* older than the floor it started with, nor does one that asks for them.
NoneOlder(c) ==
    /\ pc[c] # "idle" => since[c] <= floor[session[c]]
    /\ pc[c] = "store" => got[c].gen <= gen[session[c]]
    /\ state[c] # None =>
          /\ cache[state[c]] # None => cache[state[c]].gen \in since[c]..gen[session[c]]
          /\ \A d \in Callers :
                state[d] = state[c] /\ pc[d] = "store" => since[c] <= got[d].gen

NotBeforeStart == \A c \in Callers : NoneOlder(c)

IInv ==
    /\ TypeOK
    /\ StatesAreNew
    /\ OneSessionPerState
    /\ RootsBelongToTheCall
    /\ Freshness
    /\ NotBeforeStart

\* What callers see is a RootsView: no call is answered with the roots of another
\* client or another request, nor with roots revoked before it started.
At(c) ==
    CASE pc[c] = "idle" -> "idle"
      [] pc[c] \in {"find", "check"} -> "waiting"
      [] pc[c] \in {"query", "store"} -> "asking"
      [] pc[c] = "using" -> "answered"

View == INSTANCE RootsView WITH
            at    <- [c \in Callers |-> At(c)],
            asked <- session,
            got   <- [c \in Callers |-> IF pc[c] = "using" THEN got[c] ELSE None]

ImplementsRootsView == View!Spec

\* A long-lived server does not keep the states of sessions that ended, also
\* when a call that outlives its session creates one again.
EndedSessionsAreSwept ==
    \A s \in Sessions :
        phase[s] = "ended" /\ sessions[s] # None ~> sessions[s] = None

\* Every call is resolved, also with a client that never answers roots/list.
EveryCallResolves ==
    \A c \in Callers : pc[c] # "idle" ~> pc[c] \in {"using", "idle"}

\* "invalidate clears the roots cache so the next call re-queries": no call
\* finds roots cached that are older than the last list_changed handled.
NextCallRequeries ==
    \A s \in Sessions :
        sessions[s] # None /\ cache[sessions[s]] # None
            => cache[sessions[s]].gen >= noted[s]
=============================================================================
