------------------------------ MODULE Registry ------------------------------
(***************************************************************************)
(* One source.Registry (internal/source/source.go): the map of lazily      *)
(* connected sources, the mutex that guards it, the connection sequence of *)
(* connect and newSSHDialer (internal/source/ssh.go) that runs under that  *)
(* mutex, and Close.                                                       *)
(*                                                                         *)
(* A call of Get is a process.  The network is the environment: every      *)
(* attempt to dial, shake hands, connect or ping may fail, for the reasons *)
(* the code names (authentication, host keys, an unreachable server, a     *)
(* deadline).  A Source object is named by the number of the call that     *)
(* built it and by its source name, so a reconnection is a new object.     *)
(***************************************************************************)
EXTENDS Naturals

CONSTANTS
    Callers,     \* goroutines running tool handlers
    Sources,     \* the configured source names: the keys of Registry.cfg
    Tunnelled,   \* the sources whose configuration has an ssh block
    Closer,      \* the goroutine that runs Close
    Nobody,      \* the mutex is free
    None,        \* a nil *Source, or no source name
    MaxCalls     \* bound: calls of Get in one behaviour

ASSUME RegistryAssumption ==
    /\ Tunnelled \subseteq Sources
    /\ None \notin Sources
    /\ Closer \notin Callers
    /\ Nobody \notin Callers \cup {Closer}
    /\ MaxCalls \in Nat

Handle == [id : 1..MaxCalls, name : Sources]      \* *Source objects

ASSUME NoneIsNoHandle == None \notin Handle

VARIABLES
    mu,          \* Registry.mu: its holder, or Nobody
    sources,     \* Registry.sources: the cached *Source of a name, or None
    clients,     \* the Source objects whose mongo.Client is connected
    tunnels,     \* the Source objects whose sshDialer is open
    pc,          \* where a caller is in Get, or "using" what Get returned
    want,        \* the source name the caller passed, or None
    ticket,      \* the number of the caller's current call
    lent,        \* the *Source Get returned to the caller, or None
    calls,       \* how many calls were made so far
    closer       \* where Close is

vars == <<mu, sources, clients, tunnels, pc, want, ticket, lent, calls, closer>>
callVars == <<want, ticket, calls>>

\* The steps of Get that run while its caller holds the mutex.
InConnect == {"dialing", "handshaking", "connecting", "pinging", "undoing"}

\* The Source object the caller's connect is building.
Mine(c) == [id |-> ticket[c], name |-> want[c]]

Cached == {sources[s] : s \in Sources} \ {None}

TypeOK ==
    /\ mu \in Callers \cup {Closer, Nobody}
    /\ sources \in [Sources -> Handle \cup {None}]
    /\ clients \subseteq Handle
    /\ tunnels \subseteq Handle
    /\ pc \in [Callers -> {"idle", "locking", "using"} \cup InConnect]
    /\ want \in [Callers -> Sources \cup {None}]
    /\ ticket \in [Callers -> 0..MaxCalls]
    /\ lent \in [Callers -> Handle \cup {None}]
    /\ calls \in 0..MaxCalls
    /\ closer \in {"open", "locking", "closing", "closed"}
    /\ \A c \in Callers : pc[c] = "idle" <=> want[c] = None
    /\ \A c \in Callers : pc[c] # "idle" => ticket[c] > 0
    /\ \A c \in Callers : pc[c] = "using" <=> lent[c] # None

Init ==
    /\ mu = Nobody
    /\ sources = [s \in Sources |-> None]
    /\ clients = {} /\ tunnels = {}
    /\ pc     = [c \in Callers |-> "idle"]
    /\ want   = [c \in Callers |-> None]
    /\ ticket = [c \in Callers |-> 0]
    /\ lent   = [c \in Callers |-> None]
    /\ calls = 0
    /\ closer = "open"

-----------------------------------------------------------------------------
\* Get

Goto(c, from, to) == pc[c] = from /\ pc' = [pc EXCEPT ![c] = to]

\* Get is called for a configured name.  For any other name it returns
\* ErrUnknownSource before it touches the registry, which changes nothing.
Get(c, s) ==
    /\ calls < MaxCalls
    /\ Goto(c, "idle", "locking")
    /\ want' = [want EXCEPT ![c] = s]
    /\ ticket' = [ticket EXCEPT ![c] = calls + 1]
    /\ calls' = calls + 1
    /\ UNCHANGED <<mu, sources, clients, tunnels, lent, closer>>

\* Mutated Hit: the caller is answered without a Source.
HitUnanswered(c) ==
    /\ mu = Nobody
    /\ Goto(c, "locking", "using")
    /\ sources[want[c]] # None
    /\ UNCHANGED <<mu, sources, clients, tunnels, callVars, lent, closer>>

\* The mutex is taken, the name is cached, the mutex is released.
Hit(c) ==
    /\ mu = Nobody
    /\ Goto(c, "locking", "using")
    /\ sources[want[c]] # None
    /\ lent' = [lent EXCEPT ![c] = sources[want[c]]]
    /\ UNCHANGED <<mu, sources, clients, tunnels, callVars, closer>>

\* Mutated Miss: connect runs without the mutex.
MissUnlocked(c) ==
    /\ Goto(c, "locking", IF want[c] \in Tunnelled THEN "dialing" ELSE "connecting")
    /\ sources[want[c]] = None
    /\ UNCHANGED <<mu, sources, clients, tunnels, callVars, lent, closer>>

\* Mutated Miss: connect starts whether or not the name is cached.
MissUnchecked(c) ==
    /\ mu = Nobody
    /\ Goto(c, "locking", IF want[c] \in Tunnelled THEN "dialing" ELSE "connecting")
    /\ mu' = c
    /\ UNCHANGED <<sources, clients, tunnels, callVars, lent, closer>>

\* The mutex is taken and the name is not cached: connect starts, and the
\* mutex stays held until it ends.
Miss(c) ==
    /\ mu = Nobody
    /\ Goto(c, "locking", IF want[c] \in Tunnelled THEN "dialing" ELSE "connecting")
    /\ sources[want[c]] = None
    /\ mu' = c
    /\ UNCHANGED <<sources, clients, tunnels, callVars, lent, closer>>

\* Get returns an error and its deferred Unlock runs.
Fail(c, from) ==
    /\ Goto(c, from, "idle")
    /\ mu' = Nobody
    /\ want' = [want EXCEPT ![c] = None]
    /\ UNCHANGED <<sources, clients, ticket, lent, calls, closer>>

\* The TCP connection to the SSH server, within ClientConfig.Timeout.
DialOk(c) ==
    /\ Goto(c, "dialing", "handshaking")
    /\ UNCHANGED <<mu, sources, clients, tunnels, callVars, lent, closer>>

\* No usable authentication method, unreadable known_hosts, or no connection.
DialFails(c) == Fail(c, "dialing") /\ UNCHANGED tunnels

\* The SSH handshake: ssh.Dial has no deadline for it.
HandshakeOk(c) ==
    /\ Goto(c, "handshaking", "connecting")
    /\ tunnels' = tunnels \cup {Mine(c)}
    /\ UNCHANGED <<mu, sources, clients, callVars, lent, closer>>

HandshakeFails(c) == Fail(c, "handshaking") /\ UNCHANGED tunnels

\* mongo.Connect.
ConnectOk(c) ==
    /\ Goto(c, "connecting", "pinging")
    /\ clients' = clients \cup {Mine(c)}
    /\ UNCHANGED <<mu, sources, tunnels, callVars, lent, closer>>

ConnectFails(c) ==
    /\ Goto(c, "connecting", "undoing")
    /\ UNCHANGED <<mu, sources, clients, tunnels, callVars, lent, closer>>

\* The server answered the ping: the Source is cached and returned.
PingOk(c) ==
    /\ Goto(c, "pinging", "using")
    /\ sources' = [sources EXCEPT ![want[c]] = Mine(c)]
    /\ lent' = [lent EXCEPT ![c] = Mine(c)]
    /\ mu' = Nobody
    /\ UNCHANGED <<clients, tunnels, callVars, closer>>

\* Mutated PingFails: connect tries again until the server answers.
PingFailsRetries(c) ==
    /\ Goto(c, "pinging", "connecting")
    /\ clients' = clients \ {Mine(c)}
    /\ UNCHANGED <<mu, sources, tunnels, callVars, lent, closer>>

\* The ping failed or its deadline passed: the client is disconnected.
PingFails(c) ==
    /\ Goto(c, "pinging", "undoing")
    /\ clients' = clients \ {Mine(c)}
    /\ UNCHANGED <<mu, sources, tunnels, callVars, lent, closer>>

\* Mutated Undo: the tunnel stays open.
UndoKeepsTunnel(c) == Fail(c, "undoing") /\ UNCHANGED tunnels

\* The error paths after the tunnel was opened close it before they return.
Undo(c) == Fail(c, "undoing") /\ tunnels' = tunnels \ {Mine(c)}

\* Mutated Done: the handler disconnects the client it was lent.
DoneDisconnects(c) ==
    /\ Goto(c, "using", "idle")
    /\ want' = [want EXCEPT ![c] = None]
    /\ lent' = [lent EXCEPT ![c] = None]
    /\ clients' = clients \ {lent[c]}
    /\ UNCHANGED <<mu, sources, tunnels, ticket, calls, closer>>

\* The handler is done with the operation it needed the Source for.
Done(c) ==
    /\ Goto(c, "using", "idle")
    /\ want' = [want EXCEPT ![c] = None]
    /\ lent' = [lent EXCEPT ![c] = None]
    /\ UNCHANGED <<mu, sources, clients, tunnels, ticket, calls, closer>>

-----------------------------------------------------------------------------
\* Close

otherThanClose == <<pc, lent, callVars>>

CloseCall ==
    /\ closer = "open" /\ closer' = "locking"
    /\ UNCHANGED <<mu, sources, clients, tunnels, otherThanClose>>

CloseLock ==
    /\ closer = "locking" /\ closer' = "closing"
    /\ mu = Nobody /\ mu' = Closer
    /\ UNCHANGED <<sources, clients, tunnels, otherThanClose>>

\* Mutated Disconnect: the tunnel goes first.
DisconnectTunnel(s) ==
    /\ closer = "closing"
    /\ sources[s] # None
    /\ Cached \subseteq clients
    /\ tunnels' = tunnels \ {sources[s]}
    /\ UNCHANGED <<mu, sources, clients, closer, otherThanClose>>

\* The loop's next source, in any order: its client is disconnected first.
Disconnect(s) ==
    /\ closer = "closing"
    /\ sources[s] # None
    /\ Cached \subseteq clients
    /\ clients' = clients \ {sources[s]}
    /\ UNCHANGED <<mu, sources, tunnels, closer, otherThanClose>>

\* Mutated TearDown: the entry is deleted, its tunnel is not closed.
TearDownForgetsTunnel(s) ==
    /\ closer = "closing"
    /\ sources[s] \in Cached \ clients
    /\ sources' = [sources EXCEPT ![s] = None]
    /\ UNCHANGED <<mu, clients, tunnels, closer, otherThanClose>>

\* Then its tunnel is torn down and its entry deleted.
TearDown(s) ==
    /\ closer = "closing"
    /\ sources[s] \in Cached \ clients
    /\ tunnels' = tunnels \ {sources[s]}
    /\ sources' = [sources EXCEPT ![s] = None]
    /\ UNCHANGED <<mu, clients, closer, otherThanClose>>

CloseReturn ==
    /\ closer = "closing" /\ closer' = "closed"
    /\ Cached = {}
    /\ mu' = Nobody
    /\ UNCHANGED <<sources, clients, tunnels, otherThanClose>>

-----------------------------------------------------------------------------

Acquire(c) == Hit(c) \/ Miss(c)
Dialing(c) == DialOk(c) \/ DialFails(c)
Handshaking(c) == HandshakeOk(c) \/ HandshakeFails(c)
Connecting(c) == ConnectOk(c) \/ ConnectFails(c) \/ PingOk(c) \/ PingFails(c) \/ Undo(c)
Closing ==
    \/ CloseLock
    \/ \E s \in Sources : Disconnect(s) \/ TearDown(s)
    \/ CloseReturn

\* The bound on calls is used up and nothing is left to do.
Rest ==
    /\ calls = MaxCalls /\ closer = "closed"
    /\ \A c \in Callers : pc[c] = "idle"
    /\ UNCHANGED vars

Next ==
    \/ \E c \in Callers, s \in Sources : Get(c, s)
    \/ \E c \in Callers :
          \/ Acquire(c) \/ Dialing(c) \/ Handshaking(c) \/ Connecting(c)
          \/ Done(c)
    \/ CloseCall \/ Closing
    \/ Rest

Spec == Init /\ [][Next]_vars

\* What the code bounds in time: the TCP dial (15s), mongo.Connect, the ping
\* (connect_timeout), an operation (operation_timeout), the disconnections of
\* Close (the 5s context its callers pass).  sync.Mutex lets no waiter starve,
\* hence strong fairness for taking it.
BoundedSteps ==
    /\ \A c \in Callers : SF_vars(Acquire(c))
    /\ \A c \in Callers : WF_vars(Dialing(c)) /\ WF_vars(Connecting(c)) /\ WF_vars(Done(c))
    /\ SF_vars(CloseLock) /\ WF_vars(Closing)

\* The code alone, whatever the SSH server does after accepting a connection.
CodeSpec == Spec /\ BoundedSteps

\* The same with an SSH server that ends every handshake it began.
FairSpec == CodeSpec /\ \A c \in Callers : WF_vars(Handshaking(c))
-----------------------------------------------------------------------------
\* Properties

\* No two connected clients of one source ever exist, however calls and Close
\* interleave: connect runs under the mutex and re-checks nothing after it.
OneClientPerSource ==
    \A h, k \in clients : h.name = k.name => h = k

\* The Source object a failing connect has yet to release.
UnderConstruction(h) ==
    \E c \in Callers : mu = c /\ pc[c] \in InConnect /\ h = Mine(c)

\* No error path of connect, and no step of Close, loses a client or a tunnel:
\* whatever is open is cached, where Close finds it, or the mutex holder's.
NothingLeaks ==
    \A h \in clients \cup tunnels : h \in Cached \/ UnderConstruction(h)

\* A connected client of a tunnelled source has its tunnel: connect opens the
\* tunnel first, and both its error paths and Close take it down last.
TunnelOutlivesClient ==
    \A h \in clients : h.name \in Tunnelled => h \in tunnels

\* Until Close starts, what Get handed out stays connected while it is used:
\* no other caller's failed or finished call disconnects it.
LentStaysConnected ==
    closer \in {"open", "locking"} =>
        \A c \in Callers : pc[c] = "using" => lent[c] \in clients

\* "Close disconnects all connected sources and tears down SSH tunnels": at the
\* moment it returns nothing of the registry is open, in-flight calls included.
CloseReleasesAll ==
    [][closer = "closing" /\ closer' = "closed" => clients' = {} /\ tunnels' = {}]_vars

\* The inductive invariant the safety properties follow from.

\* Who holds the mutex is where it says.
HolderIsInside ==
    /\ \A c \in Callers : mu = c <=> pc[c] \in InConnect
    /\ mu = Closer <=> closer = "closing"

CachedUnderItsName == \A s \in Sources : sources[s] # None => sources[s].name = s

\* What connect has built so far, at each of its steps.
Construction ==
    \A c \in Callers :
        /\ pc[c] \in InConnect => sources[want[c]] = None
        /\ pc[c] \in {"dialing", "handshaking", "connecting", "undoing"} => Mine(c) \notin clients
        /\ pc[c] \in {"dialing", "handshaking"} => Mine(c) \notin tunnels
        /\ pc[c] \in {"connecting", "pinging"} /\ want[c] \in Tunnelled => Mine(c) \in tunnels
        /\ pc[c] = "pinging" => Mine(c) \in clients

CachedIsConnected == closer # "closing" => Cached \subseteq clients

LentIsCached ==
    closer \in {"open", "locking"} =>
        \A c \in Callers : pc[c] = "using" => lent[c] \in Cached

IInv ==
    /\ TypeOK
    /\ HolderIsInside
    /\ CachedUnderItsName
    /\ Construction
    /\ NothingLeaks
    /\ TunnelOutlivesClient
    /\ CachedIsConnected
    /\ LentIsCached

\* Every call of Get ends, also those that queue behind a slow connection.
CallsReturn == \A c \in Callers : pc[c] # "idle" ~> pc[c] = "idle"

\* Close gets the mutex and ends although calls keep coming.
CloseReturns == closer = "locking" ~> closer = "closed"

\* What the callers see is a LazyPool.
Pool == INSTANCE LazyPool WITH Conn <- Handle, pool <- Cached, asked <- want

ImplementsPool == Pool!Spec

\* What the callers of one source and Close do to each other is what Connection
\* says: Workspace and Server rely on no more.
At(c, s) ==
    IF want[c] # s THEN "none"
    ELSE CASE pc[c] = "locking"   -> "locking"
           [] pc[c] \in InConnect -> "connecting"
           [] OTHER               -> "operating"

SourceOf(s) == INSTANCE Connection WITH
                   mutex <- mu,
                   open  <- sources[s] \in clients,
                   at    <- [c \in Callers |-> At(c, s)]

\* connect_timeout "bounds the initial connection + ping": a caller that
\* started to connect is done with it some time later.
ConnectIsBounded ==
    \A c \in Callers : pc[c] \in InConnect ~> pc[c] \notin InConnect
=============================================================================
