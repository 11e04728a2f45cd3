------------------------------- MODULE Server -------------------------------
(***************************************************************************)
(* The process: run and runHTTP of cmd/mongodb-mcp/main.go, with the front *)
(* end of internal/server/server.go and the registry the process owns.     *)
(*                                                                         *)
(* run loads the global config, or goes without one, serves over stdio or  *)
(* HTTP until it is signalled or its transport ends, and closes the global *)
(* registry.  Meanwhile requests arrive, are checked and find the registry *)
(* they run against: that of a workspace root, of which Workspace.tla says *)
(* more, or the global one, whose source is connected with its mutex held. *)
(***************************************************************************)
EXTENDS Config, Roots

CONSTANTS
    Requests,    \* requests at a time
    Files,       \* the documents a config file may hold
    Missing,     \* there is no file
    Garbled,     \* a file that cannot be read or decoded
    Inputs,      \* what a request brings: its origin, headers and session's roots
    Configured,  \* the roots with a config file
    Base,        \* the global registry, as the target of a request
    Main,        \* the goroutine of run
    Nobody,
    MaxSignals   \* bound: SIGINT and SIGTERM, together

Input == [origin : {"own", "valid", "other"}, headers : Headers, roots : Seq(Paths)]

ASSUME ServerAssumption ==
    /\ \A f \in Files : IsDocument(f)
    /\ Inputs \subseteq Input
    /\ Missing \notin Files /\ Garbled \notin Files /\ Missing # Garbled
    /\ None \notin Inputs
    /\ Configured \subseteq Paths
    /\ Base \notin Paths \cup {NoPath}
    /\ Main \notin Requests /\ Nobody \notin Requests \cup {Main}
    /\ MaxSignals \in Nat

VARIABLES
    explicit,    \* --config was given
    file,        \* what is at its path, or at the default one
    transport,   \* --transport
    stage,       \* where run is
    cfg,         \* the config it runs with
    status,      \* how run ended, and main with it
    caught,      \* signal.NotifyContext is in force
    ctx,         \* its context has ended
    signals,     \* signals so far
    listener,    \* the goroutine of ListenAndServe
    errCh,       \* its error waits in the channel
    req,         \* where a request is
    input,       \* what it brought
    target,      \* the registry it runs against
    holder,      \* the mutex of the global registry
    open,        \* the source of the global registry is connected
    late         \* history: it was asked to connect after its Close

flags == <<explicit, file, transport>>
mainVars == <<stage, cfg, status, caught, ctx, signals, listener, errCh>>
requestVars == <<req, input, target, holder, open, late>>
vars == <<flags, mainVars, requestVars>>

MainTypeOK ==
    /\ explicit \in BOOLEAN
    /\ file \in Files \cup {Missing, Garbled}
    /\ transport \in {"stdio", "http", "other"}
    /\ stage \in {"load", "wire", "serve", "drain", "return", "close", "closing",
                  "closed", "exit"}
    /\ status \in {"none", "ok", "error", "killed"}
    /\ caught \in BOOLEAN /\ ctx \in BOOLEAN /\ errCh \in BOOLEAN
    /\ signals \in 0..MaxSignals
    /\ listener \in {"none", "starting", "up", "failed", "closed"}

RequestTypeOK ==
    /\ req \in [Requests -> {"idle", "arrived", "elsewhere", "stream",
                             "locking", "connecting", "operating"}]
    /\ input \in [Requests -> Inputs \cup {None}]
    /\ target \in [Requests -> Configured \cup {Base, NoPath}]
    /\ holder \in Requests \cup {Main, Nobody}
    /\ open \in BOOLEAN /\ late \in BOOLEAN
    /\ \A q \in Requests : req[q] = "arrived" <=> input[q] # None

ServerTypeOK == MainTypeOK /\ RequestTypeOK

Init ==
    /\ explicit \in BOOLEAN
    /\ file \in Files \cup {Missing, Garbled}
    /\ transport \in {"stdio", "http", "other"}
    /\ stage = "load"
    /\ cfg = None
    /\ status = "none"
    /\ caught = FALSE /\ ctx = FALSE /\ errCh = FALSE
    /\ signals = 0
    /\ listener = "none"
    /\ req = [q \in Requests |-> "idle"]
    /\ input = [q \in Requests |-> None]
    /\ target = [q \in Requests |-> NoPath]
    /\ holder = Nobody
    /\ open = FALSE /\ late = FALSE

-----------------------------------------------------------------------------
\* run, up to the transport

HasBase == DOMAIN cfg.sources # {}

ReadConfig == IF file \in Files THEN Loaded(file) ELSE None

LoadConfig ==
    /\ stage = "load"
    /\ ReadConfig # None
    /\ cfg' = ReadConfig
    /\ stage' = "wire"
    /\ UNCHANGED <<flags, status, caught, ctx, signals, listener, errCh, requestVars>>

\* Mutated RootsOnly: every error of Load is taken for ErrNotFound.
RootsOnlyAnyway ==
    /\ stage = "load"
    /\ ReadConfig = None /\ ~ explicit
    /\ cfg' = Default
    /\ stage' = "wire"
    /\ UNCHANGED <<flags, status, caught, ctx, signals, listener, errCh, requestVars>>

\* No file where one is searched for: the server goes without a global config.
RootsOnly ==
    /\ stage = "load"
    /\ file = Missing /\ ~ explicit
    /\ cfg' = Default
    /\ stage' = "wire"
    /\ UNCHANGED <<flags, status, caught, ctx, signals, listener, errCh, requestVars>>

LoadFails ==
    /\ stage = "load"
    /\ ReadConfig = None
    /\ file = Missing => explicit
    /\ status' = "error"
    /\ stage' = "exit"
    /\ UNCHANGED <<flags, cfg, caught, ctx, signals, listener, errCh, requestVars>>

\* The registry, server.New, NotifyContext, and the goroutine that listens.
Wire ==
    /\ stage = "wire"
    /\ caught' = TRUE
    /\ listener' = IF transport = "http" THEN "starting" ELSE "none"
    /\ stage' = "serve"
    /\ UNCHANGED <<flags, cfg, status, ctx, signals, errCh, requestVars>>

-----------------------------------------------------------------------------
\* The transports

\* run returns, and its deferred calls follow.
Return(from, result) ==
    /\ stage = from
    /\ status' = result
    /\ stage' = "return"
    /\ UNCHANGED <<flags, cfg, caught, ctx, signals, requestVars>>

UnknownTransport ==
    /\ transport = "other"
    /\ Return("serve", "error")
    /\ UNCHANGED <<listener, errCh>>

\* server.RunStdio returns: the client has left, its pipe broke, or the context
\* has ended, and then no error counts.
StdioEnds ==
    /\ transport = "stdio"
    /\ \E result \in {"ok", "error"} : (ctx => result = "ok") /\ Return("serve", result)
    /\ UNCHANGED <<listener, errCh>>

ListenerUp ==
    /\ listener = "starting"
    /\ stage # "exit"
    /\ listener' = "up"
    /\ UNCHANGED <<flags, stage, cfg, status, caught, ctx, signals, errCh, requestVars>>

\* The address cannot be listened on, or not any more.
ListenerFails ==
    /\ listener \in {"starting", "up"}
    /\ stage # "exit"
    /\ listener' = "failed"
    /\ errCh' = TRUE
    /\ UNCHANGED <<flags, stage, cfg, status, caught, ctx, signals, requestVars>>

ListenerEnds ==
    /\ transport = "http"
    /\ errCh
    /\ errCh' = FALSE
    /\ Return("serve", "error")
    /\ UNCHANGED listener

\* Mutated Shutdown: the second signal is to be the user's way out.
ShutdownUncaught ==
    /\ transport = "http"
    /\ stage = "serve"
    /\ ctx
    /\ stage' = "drain"
    /\ caught' = FALSE
    /\ listener' = IF listener = "failed" THEN "failed" ELSE "closed"
    /\ UNCHANGED <<flags, cfg, status, ctx, signals, errCh, requestVars>>

\* The select of runHTTP takes the context, also if an error waits, and calls
\* httpSrv.Shutdown.  ListenAndServe then ends, even one yet to start.
Shutdown ==
    /\ transport = "http"
    /\ stage = "serve"
    /\ ctx
    /\ stage' = "drain"
    /\ listener' = IF listener = "failed" THEN "failed" ELSE "closed"
    /\ UNCHANGED <<flags, cfg, status, caught, ctx, signals, errCh, requestVars>>

Drained ==
    /\ \A q \in Requests : req[q] = "idle"
    /\ Return("drain", "ok")
    /\ UNCHANGED <<listener, errCh>>

\* Mutated ShutdownTimesOut: Shutdown is given a context without a deadline.
ShutdownWaits ==
    /\ \A q \in Requests : req[q] = "idle"
    /\ Return("drain", "error")
    /\ UNCHANGED <<listener, errCh>>

\* After 5s.  A client that keeps a stream open makes this the usual end.
ShutdownTimesOut ==
    /\ Return("drain", "error")
    /\ UNCHANGED <<listener, errCh>>

-----------------------------------------------------------------------------
\* The deferred calls, last one first, and the signals

Stop ==
    /\ stage = "return"
    /\ caught' = FALSE
    /\ stage' = IF HasBase THEN "close" ELSE "exit"
    /\ UNCHANGED <<flags, cfg, status, ctx, signals, listener, errCh, requestVars>>

\* Mutated CloseLocks: Close gives up waiting when its context ends.
CloseGivesUp ==
    /\ stage = "close"
    /\ holder' = IF holder = Nobody THEN Main ELSE holder
    /\ stage' = IF holder = Nobody THEN "closing" ELSE "closed"
    /\ UNCHANGED <<flags, cfg, status, caught, ctx, signals, listener, errCh,
                   req, input, target, open, late>>

\* Close waits for the mutex, whatever its 5s context says.
CloseLocks ==
    /\ stage = "close"
    /\ holder = Nobody
    /\ holder' = Main
    /\ stage' = "closing"
    /\ UNCHANGED <<flags, cfg, status, caught, ctx, signals, listener, errCh,
                   req, input, target, open, late>>

CloseEnds ==
    /\ stage = "closing"
    /\ open' = FALSE
    /\ holder' = Nobody
    /\ stage' = "closed"
    /\ UNCHANGED <<flags, cfg, status, caught, ctx, signals, listener, errCh,
                   req, input, target, late>>

Exit ==
    /\ stage = "closed"
    /\ stage' = "exit"
    /\ UNCHANGED <<flags, cfg, status, caught, ctx, signals, listener, errCh, requestVars>>

\* A signal ends the context while it is caught, and the process otherwise.
Signal ==
    /\ stage # "exit"
    /\ signals < MaxSignals
    /\ signals' = signals + 1
    /\ IF caught
       THEN ctx' = TRUE /\ UNCHANGED <<stage, status>>
       ELSE stage' = "exit" /\ status' = "killed" /\ UNCHANGED ctx
    /\ UNCHANGED <<flags, cfg, caught, listener, errCh, requestVars>>

-----------------------------------------------------------------------------
\* Requests

Move(q, from, to) ==
    /\ stage # "exit"
    /\ req[q] = from
    /\ req' = [req EXCEPT ![q] = to]
    /\ UNCHANGED <<flags, mainVars>>

\* Over stdio a request has no origin and no headers.
FromPipe(i) == i.origin = "own" /\ \A n \in DOMAIN i.headers : i.headers[n] = <<>>

Arrive(q, i) ==
    /\ Move(q, "idle", "arrived")
    /\ stage = "serve"
    /\ listener = "up" \/ (transport = "stdio" /\ FromPipe(i))
    /\ input' = [input EXCEPT ![q] = i]
    /\ UNCHANGED <<target, holder, open, late>>

\* crossOriginProtection: "*" switches it off, an entry that is no origin is
\* ignored.
Passes(origin) == origin = "own" \/ "*" \in cfg.origins \/ origin \in {"valid"} \cap cfg.origins

Forget(q) == input' = [input EXCEPT ![q] = None]

\* Mutated Forbid: what is refused is kept.
ForbidKeeps(q) ==
    /\ Move(q, "arrived", "idle")
    /\ ~ Passes(input[q].origin)
    /\ UNCHANGED <<input, target, holder, open, late>>

Forbid(q) ==
    /\ Move(q, "arrived", "idle")
    /\ ~ Passes(input[q].origin)
    /\ Forget(q)
    /\ UNCHANGED <<target, holder, open, late>>

\* A client of the HTTP transport listens for events, with a GET, which passes
\* whatever its origin.
OpenStream(q) ==
    /\ Move(q, "arrived", "stream")
    /\ transport = "http"
    /\ Forget(q)
    /\ UNCHANGED <<target, holder, open, late>>

\* Resolver.Registry, as far as it reads the request: header roots come first.
Workspace(i) ==
    LET named == FirstRootConfig(RootsFromHeaders(i.headers), Configured)
    IN  IF named # NoPath THEN named ELSE FirstRootConfig(i.roots, Configured)

RunInWorkspace(q) ==
    /\ Move(q, "arrived", "elsewhere")
    /\ Passes(input[q].origin)
    /\ Workspace(input[q]) \in Configured
    /\ target' = [target EXCEPT ![q] = Workspace(input[q])]
    /\ Forget(q)
    /\ UNCHANGED <<holder, open, late>>

RunInBase(q) ==
    /\ Move(q, "arrived", "locking")
    /\ Passes(input[q].origin)
    /\ Workspace(input[q]) \notin Configured
    /\ HasBase
    /\ target' = [target EXCEPT ![q] = Base]
    /\ Forget(q)
    /\ UNCHANGED <<holder, open, late>>

\* "no config resolved"
NoConfig(q) ==
    /\ Move(q, "arrived", "idle")
    /\ Passes(input[q].origin)
    /\ Workspace(input[q]) \notin Configured
    /\ ~ HasBase
    /\ Forget(q)
    /\ UNCHANGED <<target, holder, open, late>>

\* Get finds the source connected.
Cached(q) ==
    /\ Move(q, "locking", "operating")
    /\ holder = Nobody /\ open
    /\ UNCHANGED <<input, target, holder, open, late>>

Connect(q) ==
    /\ Move(q, "locking", "connecting")
    /\ holder = Nobody /\ ~ open
    /\ holder' = q
    /\ late' = (late \/ stage = "closed")
    /\ UNCHANGED <<input, target, open>>

\* The ping succeeds, never under a deadline that has passed at once.
Connected(q) ==
    /\ Move(q, "connecting", "operating")
    /\ \E n \in DOMAIN cfg.sources : ConnectTimeoutOrDefault(cfg.sources[n]) > 0
    /\ open' = TRUE
    /\ holder' = Nobody
    /\ UNCHANGED <<input, target, late>>

ConnectFails(q) ==
    /\ Move(q, "connecting", "idle")
    /\ holder' = Nobody
    /\ target' = [target EXCEPT ![q] = NoPath]
    /\ UNCHANGED <<input, open, late>>

\* A handler answers, or the client gives its stream up.
Finish(q) ==
    /\ \E from \in {"elsewhere", "stream", "operating"} : Move(q, from, "idle")
    /\ target' = [target EXCEPT ![q] = NoPath]
    /\ UNCHANGED <<input, holder, open, late>>

Request(q) ==
    \/ \E i \in Inputs : Arrive(q, i)
    \/ Forbid(q) \/ OpenStream(q)
    \/ RunInWorkspace(q) \/ RunInBase(q) \/ NoConfig(q)
    \/ Cached(q) \/ Connect(q) \/ Connected(q) \/ ConnectFails(q)
    \/ Finish(q)

-----------------------------------------------------------------------------

Start == LoadConfig \/ RootsOnly \/ LoadFails \/ Wire
Transport ==
    \/ UnknownTransport \/ StdioEnds \/ ListenerEnds
    \/ Shutdown \/ Drained \/ ShutdownTimesOut
Deferred == Stop \/ CloseEnds \/ Exit

Next ==
    \/ Start \/ Transport \/ Deferred \/ CloseLocks
    \/ ListenerUp \/ ListenerFails \/ Signal
    \/ \E q \in Requests : Request(q)
    \/ stage = "exit" /\ UNCHANGED vars

Spec == Init /\ [][Next]_vars

\* run makes progress and the mutex lets no waiter starve.  Over stdio a client
\* need not leave its session; the SDK ends one whose context has ended, but may
\* wait for its requests first.  Nothing is assumed of requests.
Fairness ==
    /\ WF_vars(Start \/ Deferred \/ (transport # "stdio" /\ Transport))
    /\ SF_vars(ctx /\ (\A q \in Requests : req[q] = "idle") /\ StdioEnds)
    /\ SF_vars(CloseLocks)

FairSpec == Spec /\ Fairness
-----------------------------------------------------------------------------
\* Properties

\* The server goes without a global config only if none was asked for and there
\* is none: "an explicit --config that fails to load is still fatal", and so is
\* a broken config at the default path.
RootsOnlyOnlyIfMissing ==
    stage \notin {"load", "exit"} /\ ~ HasBase => ~ explicit /\ file = Missing

\* A request is answered from the first root its headers name that has a
\* config, in the order of the headers and of what is in them; from the roots
\* of its session only if there is none.
TargetIsFirstNamed ==
    [][\A q \in Requests : req[q] = "arrived" /\ target'[q] # NoPath =>
          LET h == input[q].headers
          IN  \/ IsFirstNamed(target'[q], h, Configured)
              \/ NoneNamed(h, Configured) /\ target'[q] \in {Base} \cup Configured]_vars

\* No signal cuts a drain short, nor a session that serves: one that kills comes
\* before the server serves or when it closes its registry.
DrainIsNotCut ==
    [][status' = "killed" => stage \notin {"serve", "drain", "return"} \/ stage = "exit"]_vars

\* A process that was not killed has closed the global registry.  If its source
\* is connected all the same, a request outlived the drain and asked for it
\* after the Close.
ExitReleasesBase ==
    stage = "exit" /\ status # "killed" => ~ open \/ late

\* Once signalled, or without its listener, the process ends.  Over HTTP it does
\* with requests and streams under way or not, over stdio unless there is always
\* some request under way; and a connect that holds the mutex for ever, as an SSH
\* handshake without a deadline may, keeps it.
StopsWhenAsked ==
    \/ ctx \/ errCh ~> stage = "exit"
    \/ \E q \in Requests : <>[](holder = q)
    \/ transport = "stdio" /\ <>[](\E q \in Requests : req[q] # "idle")

\* The global registry, too, is used and closed as Connection says.
At(q) == IF req[q] \in {"locking", "connecting", "operating"} THEN req[q] ELSE "none"

BaseRegistry == INSTANCE Connection WITH
                    Callers <- Requests,
                    Closer  <- Main,
                    mutex   <- holder,
                    at      <- [q \in Requests |-> At(q)]

\* The inductive invariant of the safety properties.

HolderIsAtWork ==
    /\ \A q \in Requests : req[q] = "connecting" <=> holder = q
    /\ stage = "closing" => holder = Main
    /\ holder = Main => stage \in {"closing", "exit"}

\* Requests get to the global registry only where there is one.
BaseIsThere ==
    open \/ (\E q \in Requests : req[q] \in {"locking", "connecting", "operating"})
        => stage \notin {"load", "wire"} /\ HasBase

\* Between Close and exit, what is open or will be was asked for late.
ClosedOrLate ==
    stage = "closed" => late \/ (~ open /\ \A q \in Requests : req[q] # "connecting")

\* A request has a target from where it was resolved until it ends.
TargetFits(q) ==
    /\ req[q] \in {"idle", "arrived", "stream"} => target[q] = NoPath
    /\ req[q] = "elsewhere" => target[q] \in Configured
    /\ req[q] \in {"locking", "connecting", "operating"} => target[q] = Base

Inv ==
    /\ ServerTypeOK
    /\ HolderIsAtWork
    /\ \A q \in Requests : TargetFits(q)
    /\ stage \in {"serve", "drain", "return"} => caught
    /\ status = "killed" => stage = "exit"
    /\ stage \in {"load", "wire"} => \A q \in Requests : req[q] = "idle"
    /\ RootsOnlyOnlyIfMissing
    /\ BaseIsThere
    /\ ClosedOrLate
    /\ ExitReleasesBase
=============================================================================
