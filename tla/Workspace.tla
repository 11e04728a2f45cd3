----------------------------- MODULE Workspace ------------------------------
(***************************************************************************)
(* A resolver's workspace registries together with the connections they    *)
(* hold: RootRegistry, with Registry.Get (internal/source/source.go) as    *)
(* what a handler does with the registry it resolved, and Registry.Close   *)
(* as what the goroutine of closeRegistryAsync (resolver.go) does with the *)
(* one that was replaced.  Get and Close of one registry exclude each      *)
(* other by its mutex, in any order: a handler may resolve a registry, see *)
(* it replaced and closed, and only then ask it for a connection.          *)
(*                                                                         *)
(* A registry has one source here; Registry.tla has several, and shows     *)
(* that connect and Close lose nothing of what they open.                  *)
(***************************************************************************)
EXTENDS RootRegistry

CONSTANTS
    Nobody,      \* a registry's mutex is free
    Closer       \* the goroutine of closeRegistryAsync

ASSUME WorkspaceAssumption == Closer \notin Callers /\ Nobody \notin Callers \cup {Closer}

VARIABLES
    holder,      \* Registry.mu of a registry: its holder, or Nobody
    open,        \* the registries whose source is connected
    op,          \* where a handler is with the registry it resolved
    late         \* history: registries asked to connect after their Close

connVars == <<holder, open, op, late>>
workspaceVars == <<vars, connVars>>

WorkspaceTypeOK ==
    /\ TypeOK
    /\ holder \in [Reg -> Callers \cup {Closer, Nobody}]
    /\ open \subseteq Reg
    /\ op \in [Callers -> {"none", "locking", "connecting", "operating"}]
    /\ late \subseteq Reg
    /\ \A c \in Callers : op[c] # "none" => pc[c] = "using"

WorkspaceInit ==
    /\ Init
    /\ holder = [r \in Reg |-> Nobody]
    /\ open = {}
    /\ op = [c \in Callers |-> "none"]
    /\ late = {}

-----------------------------------------------------------------------------
\* Get, called by a handler that has resolved its registry

To(c, from, to) == op[c] = from /\ op' = [op EXCEPT ![c] = to]

Get(c) ==
    /\ pc[c] = "using"
    /\ To(c, "none", "locking")
    /\ UNCHANGED <<vars, holder, open, late>>

\* The source is connected: the handler gets it.
GetCached(c) ==
    /\ To(c, "locking", "operating")
    /\ holder[mine[c]] = Nobody
    /\ mine[c] \in open
    /\ UNCHANGED <<vars, holder, open, late>>

\* It is not: connect runs with the mutex held.  Nothing tells a registry that
\* was closed from one that was never used.
Connect(c) ==
    /\ To(c, "locking", "connecting")
    /\ holder[mine[c]] = Nobody
    /\ mine[c] \notin open
    /\ holder' = [holder EXCEPT ![mine[c]] = c]
    /\ late' = IF mine[c] \in closed THEN late \cup {mine[c]} ELSE late
    /\ UNCHANGED <<vars, open>>

Connected(c) ==
    /\ To(c, "connecting", "operating")
    /\ open' = open \cup {mine[c]}
    /\ holder' = [holder EXCEPT ![mine[c]] = Nobody]
    /\ UNCHANGED <<vars, late>>

\* Mutated ConnectFails: Get tries again until it is connected.
ConnectFailsRetries(c) ==
    /\ To(c, "connecting", "locking")
    /\ holder' = [holder EXCEPT ![mine[c]] = Nobody]
    /\ UNCHANGED <<vars, open, late>>

\* connect fails: Get returns its error and the handler ends with it.
ConnectFails(c) ==
    /\ To(c, "connecting", "none")
    /\ Done(c)
    /\ holder' = [holder EXCEPT ![mine[c]] = Nobody]
    /\ UNCHANGED <<open, late>>

\* The handler ends, after its operation or without having asked for a
\* connection (the source it was told is not in this config).
HandlerEnds(c) ==
    /\ Done(c)
    /\ op[c] \in {"none", "operating"}
    /\ op' = [op EXCEPT ![c] = "none"]
    /\ UNCHANGED <<holder, open, late>>

-----------------------------------------------------------------------------
\* The other steps of a call, and the closers

\* Resolving a registry touches no connection.
Resolve(c) ==
    /\ \/ Stat(c) \/ StatNotFound(c)
       \/ LookupHit(c) \/ LookupMiss(c)
       \/ Load(c) \/ LoadFails(c)
       \/ InstallLost(c) \/ Install(c) \/ CloseOld(c)
    /\ UNCHANGED connVars

\* Mutated CloserLocks: Close does not take the mutex of the registry.
CloserBarges(r) ==
    /\ r \in closing
    /\ holder[r] # Closer
    /\ holder' = [holder EXCEPT ![r] = Closer]
    /\ UNCHANGED <<vars, open, op, late>>

\* Close waits for the mutex, whatever its 5s context says.
CloserLocks(r) ==
    /\ r \in closing
    /\ holder[r] = Nobody
    /\ holder' = [holder EXCEPT ![r] = Closer]
    /\ UNCHANGED <<vars, open, op, late>>

\* The source is disconnected, handlers that operate on it or not.
CloserEnds(r) ==
    /\ holder[r] = Closer
    /\ CloseAsync(r)
    /\ open' = open \ {r}
    /\ holder' = [holder EXCEPT ![r] = Nobody]
    /\ UNCHANGED <<op, late>>

-----------------------------------------------------------------------------

LockMine(c) == GetCached(c) \/ Connect(c)
Work(c) == Get(c) \/ Connected(c) \/ ConnectFails(c) \/ HandlerEnds(c)

WorkspaceNext ==
    \/ \E p \in Paths : (Edit(p) \/ Remove(p)) /\ UNCHANGED connVars
    \/ \E c \in Callers, p \in Paths : Call(c, p) /\ UNCHANGED connVars
    \/ \E c \in Callers : Resolve(c) \/ LockMine(c) \/ Work(c)
    \/ \E r \in closing : CloserLocks(r) \/ CloserEnds(r)
    \/ Rest /\ UNCHANGED connVars

WorkspaceSpec == WorkspaceInit /\ [][WorkspaceNext]_workspaceVars

\* The closer of the registry that call i built, if there is one.
CloserOf(i) == \E r \in closing : r.id = i /\ (CloserLocks(r) \/ CloserEnds(r))

\* As in Registry: goroutines run, what has a deadline ends, and the mutex
\* lets no waiter starve.  SSH handshakes are taken to end.
WorkspaceFairness ==
    /\ \A c \in Callers : SF_workspaceVars(Resolve(c) \/ LockMine(c) \/ Work(c))
    /\ \A i \in 1..MaxCalls : SF_workspaceVars(CloserOf(i))

WorkspaceFairSpec == WorkspaceSpec /\ WorkspaceFairness
-----------------------------------------------------------------------------
\* Properties

\* A connection is taken from a handler that operates on it only if its registry
\* is no longer the one that is served for its workspace, and the config there
\* has got another time stamp since the server started: in a workspace nobody
\* edits, no race of first calls and no end of another handler does it.
OnlyEditsDisconnect ==
    \A c \in Callers : op[c] = "operating" /\ mine[c] \notin open =>
        ~ IsServed(mine[c]) /\ file[mine[c].path].mtime # 0

\* Every connection belongs to the registry that is served for its path, or to
\* one that is on its way to a closer, or was asked for after the Close by a
\* handler that resolved the registry before: a connect that was under way when
\* the closer came is closed by it, and there is no other way to lose one.
OpenIsAccountedFor ==
    \A r \in open :
        \/ IsServed(r)
        \/ r \in closing \/ \E c \in Callers : old[c] = r
        \/ r \in late

\* What is replaced, or lost the race to be cached, is disconnected in the end,
\* also when handlers keep taking its mutex.
Pending(i) == \E r \in made : r.id = i /\ ~ IsServed(r) /\ r \notin closed

ReplacedIsDisconnected ==
    \A i \in 1..MaxCalls :
        Pending(i) ~> \A r \in made : r.id = i => IsServed(r) \/ (r \in closed /\ r \notin open)

\* Handlers and closers that wait for a registry's mutex, whoever else keeps
\* taking it, still do what RootRegistry says of them, and still end as its
\* fairness demands.
ImplementsRootRegistry == FairSpec

\* "An edited config (new mtime) rebuilds and closes the old one": when every
\* call has ended and every closer is done, only served registries are connected.
QuietIsClean ==
    (closing = {} /\ \A c \in Callers : pc[c] = "idle") => \A r \in open : IsServed(r)

\* A workspace registry is used and closed as Connection says, which Registry
\* shows it can be.
At(c, r) == IF mine[c] = r THEN op[c] ELSE "none"

RegistryOf(r) == INSTANCE Connection WITH
                     mutex <- holder[r],
                     open  <- r \in open,
                     at    <- [c \in Callers |-> At(c, r)]

\* The inductive invariant the safety properties follow from.

\* A registry's mutex is held by the handler that connects it or by its closer.
HolderIsAtWork ==
    /\ \A c \in Callers : op[c] = "connecting" => holder[mine[c]] = c
    /\ \A r \in Reg : holder[r] = Closer => r \in closing

\* What a call resolved is, or once was, served: it is no registry that another
\* call has yet to install.
UsedWasServed ==
    \A c \in Callers : pc[c] \in {"replace", "using"} =>
        \/ IsServed(mine[c]) \/ Retired(mine[c])
        \/ \E d \in Callers : old[d] = mine[c]

\* A connection is that of a registry that was resolved, and in a closed one it
\* was asked for late.
OpenWasResolved ==
    /\ open \subseteq made
    /\ \A c \in Callers : pc[c] = "install" => mine[c] \notin open
    /\ open \cap closed \subseteq late
    /\ \A c \in Callers : op[c] = "connecting" /\ mine[c] \in closed => mine[c] \in late

\* What a handler operates on is open until a closer has closed its registry.
OpenUntilClosed ==
    \A c \in Callers : op[c] = "operating" /\ mine[c] \notin closed => mine[c] \in open

\* As long as a file keeps the time stamp it had when the server started, every
\* call that looked at it knows that one, and what it resolved stays cached.
Unedited(p) ==
    /\ regs[p] # None => regs[p].mtime = 0
    /\ \A c \in Callers :
          /\ path[c] = p => mtime[c] = 0 /\ old[c] = None
          /\ path[c] = p /\ pc[c] = "using" => IsServed(mine[c])

UneditedIsServed ==
    /\ \A c \in Callers : pc[c] \in {"idle", "stat"} => mtime[c] = 0
    /\ \A c \in Callers : mine[c] # None => mine[c].path = path[c]
    /\ \A p \in Paths : file[p].mtime = 0 => Unedited(p)

WorkspaceInv ==
    /\ WorkspaceTypeOK
    /\ IInv
    /\ HolderIsAtWork
    /\ UsedWasServed
    /\ OpenWasResolved
    /\ OpenUntilClosed
    /\ UneditedIsServed
=============================================================================
