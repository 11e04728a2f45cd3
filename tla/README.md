# A TLA+ development of mongodb-mcp

mongodb-mcp is an MCP server that gives models access to MongoDB: one process
serves several clients over stdio or HTTP, resolves for every tool call the
configuration of the client's workspace, connects to its sources on first use
(through SSH where configured) and runs the operation under the source's
policy. This directory holds TLA+ specifications of that machinery, TLC
configurations that check them on small instances, and TLAPS proofs of their
safety properties for instances of any size.

## The system

| Part | Source | State | Operations |
|---|---|---|---|
| Source registry | `internal/source/source.go` | mutex, map of connected sources, their clients and tunnels | `Get`, `RequireWritable`, `connect`, `Close` |
| SSH tunnel | `internal/source/ssh.go` | the SSH client | `newSSHDialer`, `DialContext`, `Close` |
| Per-workspace registries | `internal/source/resolver.go`, `roots.go` | `Resolver.regs`: path → (mtime, registry) | `firstRootConfig`, `rootRegistry`, `closeRegistryAsync` |
| Resolver | `internal/source/resolver.go`, `roots.go` | `Resolver.sessions`: session → cached roots | `Registry`, `sessionFor`, `rootPaths`, `OnRootsChanged`, `sweepSessions` |
| Tool handlers | `internal/tools/*.go` | none of their own; the database | 18 tools |
| Configuration | `internal/config/config.go` | none | `Load`, `applyDefaults`, `expandEnv`, `Validate` |
| Server, transports | `internal/server/*.go` | the SDK's sessions | `New`, `RunStdio`, `HTTPHandler`, `crossOriginProtection` |
| Process | `cmd/mongodb-mcp/main.go` | the global registry | `run`, `runHTTP`, shutdown |
| Schema generator | `cmd/gen-schema/main.go` | none | writes the JSON schema |

A tool handler runs on a goroutine of its own. It asks the resolver for a
registry (header roots, then roots/list, then the global registry), asks that
registry for a connected source, and runs one operation on it. Handlers share
the resolver's two maps, the registries and the state of sessions; the other
goroutines that touch these are the SDK's notification handler, the ten-minute
sweep, the closers of replaced registries and, at exit, `run`'s deferred Close.

What is hard here:

- *One mutex over a network connection.* `Get` connects with the registry's
  mutex held. Uniqueness is easy to get this way; undoing partial connections,
  `Close` between calls, and progress behind a slow connection are not.
- *Check, work without the lock, check again.* `rootRegistry` and `rootPaths`
  both release their lock for the slow part (loading a file, asking the client)
  and decide again afterwards. What happened in between (an edit, another
  call, a list_changed) must not be lost.
- *Time stamps as versions.* The cache of registries compares mtimes for
  equality only.
- *Request-scoped and session-scoped data next to each other.* Roots of a
  header must never enter the session's cache.
- *Policy by version.* A handler's policy comes from the registry it resolved,
  which may be replaced before the operation runs.
- *A closed registry connects again.* Nothing tells it from one never used, so
  whether a replaced registry stays disconnected depends on who gets its mutex
  first.
- *A blocking call under a context.* The SSH client dials without one; a
  goroutine, a channel and a `select` stand in between.
- *Two ends at once.* At exit a signal, a failing listener, open streams, a
  deadline for each of two shutdowns and a mutex without one meet.

`PROJECT.json` lists these hazards line by line with the properties that watch
over them, and those no property covers yet.

## The modules

| Module | Models | Promise |
|---|---|---|
| `LazyPool` | what callers may expect of a registry | (abstract) |
| `Connection` | one source of a registry, as the goroutines that share it rely on it | (abstract) |
| `Registry` | one `source.Registry` and its `connect`, `Close` | implements `LazyPool` and, for each source, `Connection` |
| `ConfigView` | what callers may expect of workspace resolution | (abstract) |
| `RootRegistry` | `rootRegistry`, the stat before it, the closers after it | implements `ConfigView` |
| `Workspace` | `RootRegistry`, with `Get` and `Close` of its registries | implements `RootRegistry` |
| `RootsView` | which roots a call may be resolved by | (abstract) |
| `Resolver` | `Resolver.Registry`, session states, notifications, sweep | implements `RootsView` |
| `ToolCalls` | the handlers, from resolution to the answer | own invariants |
| `Config` | what `config.Load` makes of a document (operators) | used by `Tunnel`, `Server` |
| `DialView` | what the driver may expect of `DialContext` | (abstract) |
| `Tunnel` | `newSSHDialer`, `DialContext`, `Close` of a tunnel | implements `DialView` |
| `Roots` | `rootsFromHeaders`, `fileURIToPath`, `firstRootConfig` (operators) | `IsFirstNamed` |
| `Server` | `run`, `runHTTP`, signals, the way of a request to its registry | own invariants |
| `MC*` | instances of the above for TLC | |
| `*Proofs` | theorems of the above, checked by TLAPS | |

The modules are stacked by their promises. The module below is shown to implement
one; that the module above asks no more is proved for `Connection` and
`ConfigView`, and for `LazyPool` it is read off the handlers' step `Get`.

| Contract | Kept by | Relied on by |
|---|---|---|
| `LazyPool` | `Registry` | `ToolCalls`: `Get` answers with a connection or an error |
| `Connection` | every source of `Registry` | every registry of `Workspace`, the global one of `Server` |
| `ConfigView` | `RootRegistry`, and `Workspace` with it | `ToolCalls`: a call is given a version current during the call |
| `RootRegistry` | `Workspace` | - |
| `RootsView` | `Resolver` | - |
| `DialView` | `Tunnel` | - |

`Workspace` and `Server` have connects of one step, closers and a mutex, and no
tunnels or error paths; that they ask of a registry what `Connection` says is
proved, as is that `Registry`, with everything it opens and undoes, keeps it.
`Resolver` names root lists and leaves what a config file makes of them to
`RootRegistry`.

Definitions named `...` "Mutated" in their comments are the code with one bug
each (a dropped guard, a missing close). They are not part of any specification;
`PROJECT.json` says which property each of them breaks, so that a property is
known to be able to fail.

### Registry

A caller's `pc` follows `Get`: `locking` (waiting for `mu`), then the stages of
`connect` with the mutex held (`dialing`, `handshaking` for a tunnelled source,
`connecting`, `pinging`, `undoing` on an error path), then `using` until the
handler is done. A `*Source` is the record of the call that built it and its
source name; `clients` and `tunnels` are the Sources whose MongoDB client, or
SSH client, is open. The environment lets every stage fail. Failures before the
tunnel stands return at once; later ones pass through `undoing`, where
`connect`'s error paths close the tunnel after `PingFails` disconnected the
client. `Close` walks the map in any order, client first, then tunnel and entry.

`Get` of an unknown name returns before it touches anything and is no action.
Errors of `Disconnect` are reported, not acted upon, so a disconnection always
takes effect here.

### RootRegistry

A config file has a presence, a version, a validity and an mtime, which the
environment edits and removes between any two steps of a call. A call's steps
are the stat, the first critical section, `config.Load` without the lock, the
second critical section, and the hand-over of the replaced registry to its
closer after the unlock. `floor` remembers the version the file had when the
call began. With `FreshMtimes` every edit changes the mtime; without it an edit
may keep it, which is what a coarse clock does.

The path a call works on is chosen by the environment (which root comes first is
`Resolver`'s). A registry's connections are `Workspace`'s.

### Workspace

`Workspace` EXTENDS `RootRegistry`: its actions keep their meaning, a handler
that is `using` a registry goes through `Get` (`locking`, `connecting`,
`operating`), and a closer waits for the registry's mutex before it
disconnects. `holder` is the mutex of each registry, `open` says which are
connected, and `late` remembers those asked to connect after their Close: the
one way, shown by `OpenIsAccountedFor`, to a connection nothing closes.

A registry has one source here, since callers of different sources meet at the
mutex only, and its connect is one step that succeeds or fails with the mutex
held; the stages are `Registry`'s.

### Resolver

Root lists are named by their client and a generation that grows with every
change. `Notice` and `Invalidate` are the two halves of `OnRootsChanged`, which
takes the resolver's mutex and the state's mutex one after the other;
`CheckHit`/`CheckMiss`, `Reply`, `Store` are the parts of `rootPaths` separated
by its locks; `SweepSnapshot` and `SweepDelete` the two halves of a tick of
`sweepSessions`. A `*sessionState` is named by the call that created it, so a
swept and re-created state is a different one, which calls and notifications
may still hold. `noted` is the generation of the last handled list_changed;
`floor` is the oldest list a call that starts now may be resolved by: a
list_changed raises it, unless it overtakes a query (the handler runs while a
call is asking the client), and `since` is the floor at the start of a call.
`RootsView` says the same without states, locks or sweeps: a call is answered at
once by its own headers, or with a list its own client had that is not below the
floor it started with.

Notifications of a session are handled one after the other. Which lists hold a
config (`Rooted`) is fixed; that files come and go is `RootRegistry`'s.

### ToolCalls

A handler resolves (any version from the one at its start to the present one),
gets its connection (write tools through `RequireWritable`), checks its arguments
(`aggregate` also the policy, if the pipeline writes), and runs its operation,
which the database may refuse, or accept and lose the answer. Documents and
catalog entries are numbers; a request keeps limit, skip, the kinds of the
pipeline's stages, and how many documents are inserted. `insertMany` may stop
half-way. `Accepted` is the server's rule that `$out` and `$merge` come last and
a stage has a key; it is external, modelled from `pipelineWrites`' comment and
the way `aggregate` relies on it.

### Config and Tunnel

A text of a config is empty, plain, a variable that is set or not, or an unset
one with plain text around it, which is what `expandEnv` and `Validate` tell
apart; durations are representatives of what `time.ParseDuration` makes of them.
`Loaded` is `Load` on a decoded document: defaults, expansion, validation, in
this order.

The settings of a `Tunnel` are the `ssh` blocks of documents that `Loaded`
accepts, so that what an attempt finds configured is what validation let
through. `stage` follows `newSSHDialer` through `sshAuthMethods` (agent,
identity file, password), the host keys and the dial; an attempt that fails is
followed by another, as `Get` connects again. Each dial of the driver is a caller in its `select`, the
goroutine (`worker`), their channel of one place, and a context that the
environment may end. A tunnel's Close breaks what was dialled through it.
`DialView` is what the driver sees of a dial: it waits, is given a connection of
its own or an error, or gives up once its context has ended and leaves at most
one connection behind, which lasts until the tunnel is closed.

### Roots and Server

A header is the sequence of the parts between its commas, over all its lines; a
part has a kind (blank, absolute path, file URI, one with a drive letter, other)
and the path it stands for.

`stage` follows `run`: `load`, `wire` (up to the transport), `serve`, `drain`
(`httpSrv.Shutdown`), `return`, and the deferred calls, `stop` first and
`Close` of the global registry last. `caught` says whether `NotifyContext` is in
force, `ctx` whether its context has ended. The listener has its goroutine and
its channel. Requests bring an origin, headers and the roots of their session;
they pass `crossOriginProtection` or are refused, become a stream, or are
resolved to a workspace's registry (`elsewhere`), the global one, or none. The
global registry has one source, whose connect holds the mutex; `Connected` asks
for a `connect_timeout` above zero.

The roots of a session come with the request (how they are cached is
`Resolver`'s), and the files in them stay as they are.

## The runs

Runs that must pass:

| Run | Instance | Shows |
|---|---|---|
| `Registry_fair` | 3 callers, 3 calls, a direct and a tunnelled source, Close, `FairSpec` | `OneClientPerSource`, `NothingLeaks`, `TunnelOutlivesClient`, `LentStaysConnected`, `CloseReleasesAll`; `Registry` implements `LazyPool`; calls and Close end |
| `RootRegistry_safety` | 3 callers, 3 calls, 3 versions of one file, fresh mtimes; symmetric callers | `NoneForgotten`, `RetiredGainsNoUser`; `RootRegistry` implements `ConfigView` |
| `Workspace_fair` | 2 callers, 2 calls, 2 versions, mtimes that an edit may not change, `WorkspaceFairSpec` | `OnlyEditsDisconnect`, `OpenIsAccountedFor`, `ReplacedIsDisconnected`; `Workspace` implements `RootRegistry`, its fairness included |
| `Resolver_safety` | 2 callers, 3 calls, one session, 2 changes of its roots, a tenant in headers; symmetric callers | `StaleOnlyIfOvertaken`, `FilledOnce`; `Resolver` implements `RootsView` |
| `Resolver_sessions` | 2 callers, 2 calls, 3 sessions, one without roots, a config in the workspaces of the others, a tenant in headers, `FairSpec` | `RootsBelongToTheCall`, `EndedSessionsAreSwept`, `EveryCallResolves` |
| `ToolCalls_results` | one caller, cap 2, up to 4 documents, pipelines of up to 2 stages, 3 versions | `WritesWereAllowed`, `PagesAreExact`, `ValidPipelinesRun` |
| `Tunnel_dials` | every setting of the authentication, 2 attempts, 2 dials, `FairSpec` | `UsableMethods`, `CtxIsHonoured`, `WorkersEnd`; `Tunnel` implements `DialView` |
| `Server_stops` | 3 documents, no file, a garbled one; 3 roots, 5 kinds of request, 2 at a time; 2 signals, `FairSpec` | `RootsOnlyOnlyIfMissing`, `TargetIsFirstNamed`, `DrainIsNotCut`, `ExitReleasesBase`, `StopsWhenAsked` |

The first run of each component also checks its type invariant
(`RootRegistry`'s covers what `Workspace` shares with it; the rest,
`WorkspaceTypeOK`, is proved). `NoStaleConfig`, `CacheIsCoherent`,
`CachedIsNotRetired` and `OpenIsDelivered` follow from `ImplementsView`,
`RetiredGainsNoUser` and `ImplementsDialView` as far as callers can tell; they
are stated for the proofs. Deadlock is
checked in every run; the steps `Rest` say where a bounded instance may stop.

*Why the bounds are enough.* Every race in this code is between two parties and
what a third one sees of it: two connects and a Close, two installs and an edit,
a query and a list_changed with another call after them. Three callers, or two
with three calls, contain them. In `Workspace_fair` one call resolves what the
other has replaced, which takes two calls and an edit, and two handlers and a
closer contend for one mutex. Three versions let an edit happen before and after
a load. One caller suffices for `ToolCalls`, whose other actors are the config
and the other users of the database, and a cap of 2 with 4 documents has pages
below, at, one above and well above the cap. Two sessions with a config of their
own, under one resolver, are what it takes to be told another client's roots. A
tunnel's second attempt follows a failed one, and dials meet only in its Close.
Two requests let one hold the global registry's mutex while another, or Close,
waits; the second signal is the one that comes while the server drains or
closes. The proofs below hold without these bounds.

Runs that must find a violation, each of a sentence of the documentation:

| Run | What happens |
|---|---|
| `Registry_handshake` | The SSH handshake has no deadline; `connect_timeout` starts after it. `connect` may never end, with the mutex held (`source.go:136`). |
| `RootRegistry_retires` | A slow call installs an older config over a newer one and closes the newer registry (`resolver.go:126`). The next call repairs it by one more reload. |
| `Resolver_overtaken` | A roots/list answer from before a change is cached after the list_changed that announced it, and stays (`roots.go:81`). |
| `Workspace_late` | A handler gets its registry, an edit has it replaced and closed, and then the handler's `Get` connects it again: nothing closes that connection before the process exits (`resolver.go:129`, `source.go:86`). |

`StaleOnlyIfOvertaken` delimits `Resolver_overtaken`: what that run shows is the
only way to stale roots. `OpenIsAccountedFor` delimits `Workspace_late`, and the
theorem `QuietButForLate` says it of the very state that run looks at: once all
is quiet, what is open and not served was asked for after its Close.
`OlderIsReloaded` delimits `RootRegistry_retires`: an older config cached over a
newer one is cached under an mtime the file no longer has, so that the next call
reloads. It needs `FreshMtimes`, like `NoStaleConfig`: an edit that leaves the
mtime as it was is not noticed (`resolver.go:107`).

What the models show besides, and no run reports:

- `sweepSessions` collects the live sessions before it takes the lock, so it may
  drop the state of a session that began in between (the next call asks the
  client again); and a call that outlives its session creates its state again,
  which the next sweep removes.
- A roots/list that fails or times out sends a client that has a workspace
  config to the global one, without an error (`roots.go:66`), although
  `config.go:27` says the workspace's overrides it.
- `listDatabases` and `listCollections` return every name (`read.go:280`, `:312`),
  although `tools.go:16` speaks of any tool.
- `config.go:188` says a variable that expands to empty surfaces as a validation
  error. So it does for a URI, and for the last method of authentication
  (`UsableMethods`); an unset passphrase, password (next to another method) or
  `known_hosts_file` is silently empty, and the last one then means the default.
- A `connect_timeout` of "0s", or a negative one, is accepted and makes every
  ping fail (`source.go:152`); only for `operation_timeout` does "0s" disable.
- A client that keeps its event stream open makes `Shutdown` end by its 5s, and
  the process with an error status (`main.go:126`).
- A second signal is swallowed while the server drains, as `stop` is deferred,
  and kills the process while it closes (`DrainIsNotCut`).
- `Close` at exit waits for the mutex whatever its 5s say: a connect whose SSH
  handshake never ends keeps the process (the second disjunct of
  `StopsWhenAsked`). Over stdio, which has no deadline of its own, so may any
  request that never ends, if the SDK waits for it (the third one).
- Without an edit that changes the time stamp nobody is disconnected
  (`OnlyEditsDisconnect`). With one, a handler may be in the middle of its
  operation: the closer does not wait for handlers (`resolver.go:129`).

## Fairness

- `Registry!BoundedSteps`: weak fairness where the code has a deadline (the TCP
  dial, the ping, the operations through CSOT, the 5s of Close's callers), strong
  fairness for taking the mutex, since `sync.Mutex` hands itself to a starving
  waiter. `CodeSpec` has nothing more; `FairSpec` adds that SSH handshakes end,
  which the code does not ensure, and `Registry_handshake` shows the difference.
  An `operation_timeout` of "0s" takes away the deadline of an operation; the
  fairness of `Done` is that of the default.
- `RootRegistry!Fairness`: goroutines run, a handler ends, and so does a closer's
  Close (weak fairness). It is no assumption of a run: `ImplementsRootRegistry`
  checks that `Workspace` meets it.
- `Workspace!WorkspaceFairness`: goroutines run and a registry's mutex starves
  nobody (strong fairness, as above), connects end, as `Registry!CallsReturn` and
  `CloseReturns` say one module below, under the assumption they need there.
- `Tunnel!Fairness`: goroutines run. A dial through an open tunnel need never
  end; one through a closed tunnel fails, as the SSH client does at once.
- `Server!Fairness`: `run` goes on, `Shutdown` ends by its deadline, and Close gets
  the mutex if it is free again and again. Over stdio the SDK's `Run` ends a
  session whose context has ended if it is without requests again and again: the
  SDK is not in this repository and may wait for requests under way, so that it
  may return before they end, but need not. Nothing is assumed of requests, nor
  that a connect ends.
- `Resolver!Fairness`: goroutines run, `ListRoots` ends within its 30s, the
  ticker ticks. Nothing is assumed of clients, who need never answer, change
  roots or end.

## The proofs

TLAPS checks the eight `*Proofs` modules; the assumptions are the `ASSUME`s of the
modules proved about (sorts of the constants are disjoint, bounds are naturals,
`Requests` is not empty), which TLC evaluates in the runs.

- `RegistryProofs`. The safety properties are not inductive alone: that an error
  path loses nothing depends on what `connect` has built when it takes it.
  `IInv` therefore adds who may hold the mutex (`HolderIsInside`), what is open at
  each step of connect (`Construction`), that the cache holds connected Sources
  under their own name, and that what is lent is cached until Close starts. From
  it follow `OneClientPerSource`, `NothingLeaks`, `TunnelOutlivesClient`,
  `LentStaysConnected`, `CloseReleasesAll` and, step by step, `ImplementsPool`.
  `SourceIsConnection` maps the state to one source: whoever connects another
  source only holds the mutex (`Elsewhere`). The step that needs the invariant
  is the one of a hit, which answers with the connection that is open.
- `RootRegistryProofs`. `Ticketing` says registries are new when built;
  `Ownership` that one about to be cached, or replaced, is nobody else's, whence
  `CachedIsNotRetired` and `NoneForgotten`, both with mtimes of any granularity.
  `Freshness` orders floor, mtime, loaded and present version along a call; it
  is where `FreshMtimes` is used, for `CacheIsCoherent`, `NoStaleConfig`,
  `ImplementsView` and `OlderIsNoticed`.
- `ResolverProofs`. `StatesAreNew` and `OneSessionPerState` say that a state is
  only ever referred to on behalf of the session it was made for, however often
  it is swept, whence `RootsBelongToTheCall`; `Freshness` says that what is
  cached, or about to be stored, is not below the floor of its session, and
  newer when a running notification found an older state, whence
  `StaleOnlyIfOvertaken`. `Refinement` adds to them that a call gets no roots
  older than the floor it started with, also when it finds them in a state that
  was swept from the map, or that another call is about to fill; the steps that
  only touch states, locks and sweeps are stutters of `RootsView`. `FilledOnce`
  is proved as an action property from the types.
- `ToolCallsProofs`. Every way a handler ends is shown to end it with an answer
  that fits its request (`EndsWell`), and the remaining steps to keep the version
  a call holds between its start and the present. The theorems hold for
  every cap, every number of documents and pipelines of any length.
  `ResolutionIsConfigView` is the other side of `RootRegistry`'s refinement: all
  a handler knows of its config is what `ConfigView` answers.
- `WorkspaceProofs`. Every step is shown to be one of `RootRegistry`'s or a
  stutter (`WorkspaceRefinement`, the safety half of `ImplementsRootRegistry`), so
  that its invariant, with who owns which registry, holds here too.
  `WorkspaceInv` adds that a mutex is held by who connects or closes
  (`HolderIsAtWork`), that what a handler uses was once served
  (`UsedWasServed`), that what is open and closed was connected late
  (`OpenWasResolved`), and that what a handler operates on is open until it is
  closed (`OpenUntilClosed`). `OpenIsAccountedFor` needs the second for a registry
  that a handler connects while it is being replaced. `OnlyEditsDisconnect` needs
  one part more: as long as a file keeps its first time stamp, all calls know the
  same one, so that whoever installs second finds the first's registry cached,
  and nothing is ever replaced (`UneditedIsServed`). `WorkspaceView` joins
  `WorkspaceRefinement` with `RootRegistry`'s own refinement: handlers that
  connect and closers that wait still give callers a `ConfigView`.
  `RegistryIsConnection` shows every registry to be used as `Connection` allows.
- `TunnelProofs`. `SettingsHaveMethod` derives from `Loaded` that an accepted
  block has a method after expansion; `AttemptHasMethod` carries it through the
  attempt to where `newSSHDialer` asks, whence `UsableMethods`. `WorkerIsAwaited`
  says that an unsent result belongs to a caller that waits or whose context
  ended, and which connections are open for whom, whence `OpenIsDelivered` and,
  one lemma per group of steps, `Refinement`: a worker's dial and its send are
  stutters of `DialView` while the caller waits, and what is left behind once it
  has given up.
- `RootsProofs`. `Listed` is what the loop over the parts has collected after
  each of them. `HeaderRootsInOrder` says, for headers of any length, that the
  root `FirstRootConfig` finds in what `RootsFromHeaders` returns is the first
  configured one in the order the headers name them. The loop's invariant is
  proved by induction over the set of positions up to which it holds (every
  non-empty set of naturals has a least element), as the rule of induction over
  predicates cannot be instantiated here.
- `ServerProofs`. `BaseIsThere` says that requests reach the global registry only
  where `run` made one, so that what is open at exit has a Close before it;
  `HolderIsAtWork` and `ClosedOrLate` say what Close leaves. From them follow
  `ExitReleasesBase` and `RootsOnlyOnlyIfMissing`; `DrainIsNotCut` follows from
  signals being caught from `serve` to `return`. `FirstNamedIsTarget` takes
  `HeaderRootsInOrder` to the request, and `BaseIsConnection` shows the global
  registry to be used as `Connection` allows, by a killed process too.

Only model-checked: the liveness properties (`CallsReturn`, `CloseReturns`,
`ReplacedIsDisconnected`, `EndedSessionsAreSwept`, `EveryCallResolves`,
`CtxIsHonoured`, `WorkersEnd`, `StopsWhenAsked`, and in `ImplementsRootRegistry`
that `Workspace` is as fair as `RootRegistry` asks), because fairness and ENABLED
are beyond the prover. Every safety property and every refinement the runs check
is also proved. Three refinements are only proved: `SourceIsConnection` and
`RegistryIsConnection`, which TLC does not take because the contract is instanced
once for each source or registry, and the handlers' use of `ConfigView`; so is
`BaseIsConnection`, and the consequences a run's property already shows on a
small instance.

## Not modelled

- The search path, the JSON decoder and `ExpandPath`: a file is missing, garbled
  or a document. Percent-encoding and hosts in URIs: a part stands for its path.
- The SDK and `streamableOptions`: the server is stateful. A stateless one
  re-initializes at every request, which `Resolver` has as the client without
  the roots capability.
- The socket to the SSH agent: no code closes it (`ssh.go:95`), and what becomes of
  it is the runtime's affair.
- The SSH and MongoDB libraries, beyond what the code relies on: an SSH client's
  Close breaks the connections through it, a driver closes what it dialled.
- `--version` and the overrides of address and path: nothing depends on them.
- `cmd/gen-schema`, the build, the generated docs: not part of the behaviour.

## Plan

The order is that of what could hurt most: connections, then configs, then
roots, then handlers, then the process. All modules of the plan exist. What
could follow:

1. `Tunnel`'s stages in the place of `Registry`'s `dialing` and `handshaking`, so
   that the mutex and the attempt are seen together.
2. `Workspace` with several sources (its contract, `Connection`, has them as
   `Elsewhere`), and with `Resolver` choosing the paths: a call whose roots
   change while its registry is replaced. `RootsView` and `ConfigView` are what
   such a module would be built on.
3. `Server` with the workspace registries of `Workspace` at exit.
