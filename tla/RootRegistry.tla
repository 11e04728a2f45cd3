---------------------------- MODULE RootRegistry ----------------------------
(***************************************************************************)
(* The registries a source.Resolver builds from workspace config files:    *)
(* rootRegistry and closeRegistryAsync of internal/source/resolver.go with *)
(* the stat of firstRootConfig (internal/source/roots.go) that precedes    *)
(* them.  Calls run concurrently with each other, with the edits of the    *)
(* files and with the goroutines that close what was replaced.             *)
(*                                                                         *)
(* The n-th content a file ever has is its version n.  A version's mtime   *)
(* is the number of the version that first carried that time stamp, so two *)
(* mtimes are equal when time.Time.Equal says so and their order means     *)
(* nothing to the code.  A Registry object is named by the call that built *)
(* it, the path and the version it was built from.                         *)
(***************************************************************************)
EXTENDS Naturals

CONSTANTS
    Callers,     \* goroutines running tool handlers
    Paths,       \* the workspace config files
    FreshMtimes, \* TRUE: an edit always changes the mtime;
                 \* FALSE: an edit within the clock's granularity may not
    None,        \* a nil *cachedReg or *Registry
    MaxCalls,    \* bound: calls in one behaviour
    MaxVersions  \* bound: versions of one file

ASSUME RootRegistryAssumption ==
    /\ FreshMtimes \in BOOLEAN
    /\ MaxCalls \in Nat
    /\ MaxVersions \in Nat

Version == 0..MaxVersions
Reg == [id : 1..MaxCalls, path : Paths, ver : Version]     \* *Registry
Entry == [mtime : Version, reg : Reg]                      \* cachedReg

ASSUME NoneIsNew == None \notin Reg \cup Entry \cup Paths

VARIABLES
    file,        \* the file at a path: presence, version, mtime, validity
    regs,        \* Resolver.regs: the cachedReg of a path, or None
    closing,     \* registries a closeRegistryAsync goroutine is to close
    closed,      \* registries such a goroutine has closed
    made,        \* every registry ever built
    pc,          \* where a caller is, or "using" the registry it got
    path,        \* the config path of the caller's call
    ticket,      \* the number of the caller's call
    floor,       \* the version at the path when the call started
    mtime,       \* local variable mtime
    mine,        \* local variable reg, later the result
    old,         \* local variable old
    calls        \* how many calls were made so far

vars == <<file, regs, closing, closed, made, pc, path, ticket, floor, mtime, mine, old, calls>>
callVars == <<path, ticket, floor, calls>>
regVars == <<regs, closing, closed, made>>

File == [present : BOOLEAN, ver : Version, mtime : Version, valid : BOOLEAN]

TypeOK ==
    /\ file \in [Paths -> File]
    /\ regs \in [Paths -> Entry \cup {None}]
    /\ closing \subseteq Reg
    /\ closed \subseteq Reg
    /\ made \subseteq Reg
    /\ pc \in [Callers -> {"idle", "stat", "lookup", "load", "install", "replace", "using"}]
    /\ path \in [Callers -> Paths \cup {None}]
    /\ ticket \in [Callers -> 0..MaxCalls]
    /\ floor \in [Callers -> Version]
    /\ mtime \in [Callers -> Version]
    /\ mine \in [Callers -> Reg \cup {None}]
    /\ old \in [Callers -> Reg \cup {None}]
    /\ calls \in 0..MaxCalls
    /\ \A c \in Callers :
          /\ pc[c] = "idle" <=> path[c] = None
          /\ pc[c] = "idle" <=> ticket[c] = 0
          /\ mine[c] # None <=> pc[c] \in {"install", "replace", "using"}
          /\ old[c] # None <=> pc[c] = "replace"

Init ==
    /\ file \in [Paths -> [present : BOOLEAN, ver : {0}, mtime : {0}, valid : {TRUE}]]
    /\ regs = [p \in Paths |-> None]
    /\ closing = {} /\ closed = {} /\ made = {}
    /\ pc     = [c \in Callers |-> "idle"]
    /\ path   = [c \in Callers |-> None]
    /\ ticket = [c \in Callers |-> 0]
    /\ floor  = [c \in Callers |-> 0]
    /\ mtime  = [c \in Callers |-> 0]
    /\ mine   = [c \in Callers |-> None]
    /\ old    = [c \in Callers |-> None]
    /\ calls = 0

-----------------------------------------------------------------------------
\* The user edits, creates or removes the file.

\* A new content appears at once (a writer that truncates first is two edits,
\* the first of an invalid content).
Edit(p) ==
    /\ file[p].ver < MaxVersions
    /\ \E valid \in BOOLEAN, fresh \in {FreshMtimes, TRUE} :
          file' = [file EXCEPT ![p] =
                     [present |-> TRUE, ver |-> @.ver + 1, valid |-> valid,
                      mtime |-> IF fresh THEN @.ver + 1 ELSE @.mtime]]
    /\ UNCHANGED <<regVars, pc, callVars, mtime, mine, old>>

Remove(p) ==
    /\ file[p].present
    /\ file' = [file EXCEPT ![p].present = FALSE]
    /\ UNCHANGED <<regVars, pc, callVars, mtime, mine, old>>

-----------------------------------------------------------------------------
\* A call

Goto(c, from, to) == pc[c] = from /\ pc' = [pc EXCEPT ![c] = to]

\* A call whose roots name the directory of p.
Call(c, p) ==
    /\ calls < MaxCalls
    /\ Goto(c, "idle", "stat")
    /\ path' = [path EXCEPT ![c] = p]
    /\ ticket' = [ticket EXCEPT ![c] = calls + 1]
    /\ floor' = [floor EXCEPT ![c] = file[p].ver]
    /\ calls' = calls + 1
    /\ UNCHANGED <<file, regVars, mtime, mine, old>>

\* The call is over: its local variables are gone.
Leave(c, from) ==
    /\ Goto(c, from, "idle")
    /\ path'   = [path EXCEPT ![c] = None]
    /\ ticket' = [ticket EXCEPT ![c] = 0]
    /\ floor'  = [floor EXCEPT ![c] = 0]
    /\ mtime'  = [mtime EXCEPT ![c] = 0]
    /\ mine'   = [mine EXCEPT ![c] = None]
    /\ UNCHANGED <<file, regVars, old, calls>>

\* firstRootConfig: the file is there, its mtime is noted.
Stat(c) ==
    /\ Goto(c, "stat", "lookup")
    /\ file[path[c]].present
    /\ mtime' = [mtime EXCEPT ![c] = file[path[c]].mtime]
    /\ UNCHANGED <<file, regVars, callVars, mine, old>>

StatNotFound(c) == Leave(c, "stat") /\ ~ file[path[c]].present

\* The cache test of rootRegistry, the same under both of its locks.
IsCached(c) ==
    /\ regs[path[c]] # None
    /\ regs[path[c]].mtime = mtime[c]

\* First critical section: a cached registry of this mtime is returned.
LookupHit(c) ==
    /\ Goto(c, "lookup", "using")
    /\ IsCached(c)
    /\ mine' = [mine EXCEPT ![c] = regs[path[c]].reg]
    /\ UNCHANGED <<file, regVars, callVars, mtime, old>>

LookupMiss(c) ==
    /\ Goto(c, "lookup", "load")
    /\ ~ IsCached(c)
    /\ UNCHANGED <<file, regVars, callVars, mtime, mine, old>>

\* config.Load reads the file as it is now, without the lock.
Load(c) ==
    LET f == file[path[c]]
        r == [id |-> ticket[c], path |-> path[c], ver |-> f.ver]
    IN  /\ Goto(c, "load", "install")
        /\ f.present /\ f.valid
        /\ made' = made \cup {r}
        /\ mine' = [mine EXCEPT ![c] = r]
        /\ UNCHANGED <<file, regs, closing, closed, callVars, mtime, old>>

LoadFails(c) ==
    /\ Leave(c, "load")
    /\ ~ (file[path[c]].present /\ file[path[c]].valid)

\* Mutated InstallLost: the winner is closed, not ours.
InstallLostClosesWinner(c) ==
    /\ Goto(c, "install", "using")
    /\ IsCached(c)
    /\ closing' = closing \cup {regs[path[c]].reg}
    /\ mine' = [mine EXCEPT ![c] = regs[path[c]].reg]
    /\ UNCHANGED <<file, regs, closed, made, callVars, mtime, old>>

\* Mutated InstallLost: ours is dropped without a Close.
InstallLostForgets(c) ==
    /\ Goto(c, "install", "using")
    /\ IsCached(c)
    /\ mine' = [mine EXCEPT ![c] = regs[path[c]].reg]
    /\ UNCHANGED <<file, regVars, callVars, mtime, old>>

\* Second critical section: another call cached this mtime meanwhile.  Its
\* registry is returned and ours is closed.
InstallLost(c) ==
    /\ Goto(c, "install", "using")
    /\ IsCached(c)
    /\ closing' = closing \cup {mine[c]}
    /\ mine' = [mine EXCEPT ![c] = regs[path[c]].reg]
    /\ UNCHANGED <<file, regs, closed, made, callVars, mtime, old>>

\* Mutated Install: the entry gets the mtime the file has after the load.
InstallRestat(c) ==
    LET was == regs[path[c]]
    IN  /\ Goto(c, "install", IF was = None THEN "using" ELSE "replace")
        /\ ~ IsCached(c)
        /\ regs' = [regs EXCEPT ![path[c]] = [mtime |-> file[path[c]].mtime, reg |-> mine[c]]]
        /\ old' = [old EXCEPT ![c] = IF was = None THEN None ELSE was.reg]
        /\ UNCHANGED <<file, closing, closed, made, callVars, mtime, mine>>

\* Otherwise ours is cached; what it replaces is closed after the unlock.
Install(c) ==
    LET was == regs[path[c]]
    IN  /\ Goto(c, "install", IF was = None THEN "using" ELSE "replace")
        /\ ~ IsCached(c)
        /\ regs' = [regs EXCEPT ![path[c]] = [mtime |-> mtime[c], reg |-> mine[c]]]
        /\ old' = [old EXCEPT ![c] = IF was = None THEN None ELSE was.reg]
        /\ UNCHANGED <<file, closing, closed, made, callVars, mtime, mine>>

\* Mutated CloseOld: the replaced registry is still held afterwards.
CloseOldHolds(c) ==
    /\ Goto(c, "replace", "using")
    /\ closing' = closing \cup {old[c]}
    /\ UNCHANGED <<file, regs, closed, made, callVars, mtime, mine, old>>

\* Mutated CloseOld: no closer is started for the replaced registry.
CloseOldForgets(c) ==
    /\ Goto(c, "replace", "using")
    /\ old' = [old EXCEPT ![c] = None]
    /\ UNCHANGED <<file, regVars, callVars, mtime, mine>>

\* The replaced registry is handed to its closer.
CloseOld(c) ==
    /\ Goto(c, "replace", "using")
    /\ closing' = closing \cup {old[c]}
    /\ old' = [old EXCEPT ![c] = None]
    /\ UNCHANGED <<file, regs, closed, made, callVars, mtime, mine>>

\* The tool handler is done with the registry it resolved.
Done(c) == Leave(c, "using")

\* A closeRegistryAsync goroutine runs Registry.Close to its end.
CloseAsync(r) ==
    /\ r \in closing
    /\ closing' = closing \ {r}
    /\ closed' = closed \cup {r}
    /\ UNCHANGED <<file, regs, made, pc, callVars, mtime, mine, old>>

-----------------------------------------------------------------------------

Step(c) ==
    \/ Stat(c) \/ StatNotFound(c)
    \/ LookupHit(c) \/ LookupMiss(c)
    \/ Load(c) \/ LoadFails(c)
    \/ InstallLost(c) \/ Install(c) \/ CloseOld(c)
    \/ Done(c)

\* The bounds are used up and nothing is left to do.
Rest ==
    /\ calls = MaxCalls /\ closing = {}
    /\ \A c \in Callers : pc[c] = "idle"
    /\ UNCHANGED vars

Next ==
    \/ \E p \in Paths : Edit(p) \/ Remove(p)
    \/ \E c \in Callers, p \in Paths : Call(c, p)
    \/ \E c \in Callers : Step(c)
    \/ \E r \in closing : CloseAsync(r)
    \/ Rest

Spec == Init /\ [][Next]_vars

\* The closer of the registry that call i built, if there is one.
RegistryCloses(i) == \E r \in closing : r.id = i /\ CloseAsync(r)

\* Goroutines run, handlers end, and so does the Close of a closer.
Fairness ==
    /\ \A c \in Callers : WF_vars(Step(c))
    /\ \A i \in 1..MaxCalls : WF_vars(RegistryCloses(i))

FairSpec == Spec /\ Fairness
-----------------------------------------------------------------------------
\* Properties

\* A cached registry that the next call would find under the file's mtime was
\* built from the content the file has: load follows stat, so an old content
\* is never cached under the mtime of a later one.
CacheIsCoherent ==
    \A p \in Paths :
        regs[p] # None /\ file[p].present /\ regs[p].mtime = file[p].mtime
            => regs[p].reg.ver = file[p].ver

\* No call runs against a config older than the file was when it started,
\* whichever calls and edits it raced with.
NoStaleConfig ==
    \A c \in Callers : pc[c] = "using" => mine[c].ver >= floor[c]

Retired(r) == r \in closing \cup closed

\* A registry that is served from the cache was never handed to a closer.
CachedIsNotRetired ==
    \A p \in Paths : regs[p] # None => ~ Retired(regs[p].reg)

IsServed(r) == regs[r.path] # None /\ regs[r.path].reg = r

\* No registry is forgotten: it is cached, closed or to be closed, or still in
\* the hands of the call that built it or of the call that replaced it.
NoneForgotten ==
    \A r \in made :
        \/ IsServed(r) \/ Retired(r)
        \/ \E c \in Callers : old[c] = r \/ (pc[c] = "install" /\ mine[c] = r)

\* The calls whose answer is r: a call that still has to start the closer of
\* what it replaced may find its own registry retired before it returns it.
Users(r) == {c \in Callers : pc[c] \in {"replace", "using"} /\ mine[c] = r}

\* A retired registry is on its way out: once the calls that got it have ended
\* no call gets it again.
RetiredGainsNoUser ==
    [][\A r \in Reg : Retired(r) => Users(r)' \subseteq Users(r)]_vars

\* A slow call that caches an older config over a newer one caches it under an
\* mtime the file no longer has: the next call reloads.
OlderIsNoticed ==
    [][\A p \in Paths :
        regs[p] # None /\ regs'[p] # None /\ regs'[p].reg.ver < regs[p].reg.ver
            => regs'[p].mtime < file'[p].mtime]_vars

\* The inductive invariant the safety properties follow from.

\* What a call caches is not older than the mtime it caches it under, and that
\* is not older than the file was when the call started.
Freshness ==
    /\ \A p \in Paths :
          /\ file[p].mtime = file[p].ver
          /\ regs[p] # None =>
                regs[p].mtime <= regs[p].reg.ver /\ regs[p].reg.ver <= file[p].ver
    /\ \A c \in Callers : pc[c] # "idle" =>
          /\ floor[c] <= file[path[c]].ver
          /\ pc[c] \in {"lookup", "load", "install"} =>
                floor[c] <= mtime[c] /\ mtime[c] <= file[path[c]].ver
          /\ pc[c] = "install" => mtime[c] <= mine[c].ver
          /\ mine[c] # None =>
                floor[c] <= mine[c].ver /\ mine[c].ver <= file[path[c]].ver

\* Tickets name calls: a call's registry is not made before its load.
Ticketing ==
    /\ \A r \in made : r.id <= calls
    /\ closing \subseteq made /\ closed \subseteq made
    /\ \A p \in Paths : regs[p] # None => regs[p].reg \in made /\ regs[p].reg.path = p
    /\ \A c \in Callers :
          /\ ticket[c] <= calls
          /\ \A d \in Callers : ticket[c] = ticket[d] /\ c # d => ticket[c] = 0
          /\ pc[c] \in {"stat", "lookup", "load"} => \A r \in made : r.id # ticket[c]
          /\ mine[c] # None => mine[c] \in made
          /\ old[c] # None => old[c] \in made

\* A registry has one owner: a call about to install it, the cache, or a call
\* that replaced it.
Ownership ==
    /\ \A c \in Callers : pc[c] = "install" =>
          /\ mine[c].id = ticket[c] /\ mine[c].path = path[c]
          /\ ~ Retired(mine[c])
          /\ ~ IsServed(mine[c])
          /\ \A d \in Callers : old[d] # mine[c]
    /\ \A c \in Callers : pc[c] = "replace" => ~ IsServed(old[c])

IInv ==
    /\ TypeOK
    /\ Ticketing
    /\ Ownership
    /\ CachedIsNotRetired
    /\ NoneForgotten
    /\ FreshMtimes => Freshness

\* What the callers see is a ConfigView.
View == INSTANCE ConfigView WITH
    current <- [p \in Paths |-> file[p].ver],
    asked   <- path,
    since   <- floor,
    got     <- [c \in Callers |-> IF pc[c] = "using" THEN mine[c].ver ELSE None]

ImplementsView == View!Spec

\* A changed config lets the cache "retire the stale connections": what a call
\* retires was not built from a later content than what it caches instead.
RetiresTheStale ==
    \A c \in Callers : pc[c] = "replace" => old[c].ver <= mine[c].ver
=============================================================================
