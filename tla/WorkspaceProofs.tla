-------------------------- MODULE WorkspaceProofs ---------------------------
(***************************************************************************)
(* Theorems about Workspace: it implements RootRegistry, so that what was  *)
(* proved of the registries holds with connections opened and closed       *)
(* around them, and what may be open is known.                             *)
(***************************************************************************)
EXTENDS Workspace, RootRegistryProofs

\* Every step is one of RootRegistry or leaves its variables alone.
LEMMA RegistryStep == [WorkspaceNext]_workspaceVars => [Next]_vars
<1> SUFFICES ASSUME [WorkspaceNext]_workspaceVars PROVE [Next]_vars
  OBVIOUS
<1>1. ASSUME NEW c \in Callers, Resolve(c) PROVE Next
  BY <1>1 DEF Resolve, Next, Step
<1>2. ASSUME NEW c \in Callers, LockMine(c) \/ Get(c) \/ Connected(c)
      PROVE  UNCHANGED vars
  BY <1>2 DEF LockMine, GetCached, Connect, Get, Connected
<1>3. ASSUME NEW c \in Callers, ConnectFails(c) \/ HandlerEnds(c) PROVE Next
  BY <1>3 DEF ConnectFails, HandlerEnds, Next, Step
<1>4. ASSUME NEW r \in closing, CloserLocks(r) PROVE UNCHANGED vars
  BY <1>4 DEF CloserLocks
<1>5. ASSUME NEW r \in closing, CloserEnds(r) PROVE Next
  BY <1>5 DEF CloserEnds, Next
<1>6. CASE UNCHANGED workspaceVars
  BY <1>6 DEF workspaceVars
<1> QED
  BY <1>1, <1>2, <1>3, <1>4, <1>5, <1>6 DEF WorkspaceNext, Work, Next

\* A resolver whose registries connect and are closed still takes the steps that
\* RootRegistry describes, and no others.
THEOREM WorkspaceRefinement == WorkspaceSpec => Spec
<1>1. WorkspaceInit => Init
  BY DEF WorkspaceInit
<1> QED
  BY <1>1, RegistryStep, PTL DEF WorkspaceSpec, Spec

\* So callers of a resolver whose registries are connected and closed around them
\* still see a ConfigView.
THEOREM WorkspaceView == FreshMtimes => (WorkspaceSpec => ImplementsView)
<1> SUFFICES ASSUME FreshMtimes PROVE WorkspaceSpec => ImplementsView
  OBVIOUS
<1>1. Spec => ImplementsView
  BY Refinement
<1> QED
  BY <1>1, WorkspaceRefinement, PTL

-----------------------------------------------------------------------------
\* The types, and the inductive invariant.

LEMMA WorkspaceTypeInit == WorkspaceInit => WorkspaceTypeOK
  BY TypeInit DEF WorkspaceInit, WorkspaceTypeOK

LEMMA WorkspaceTypeStep ==
    WorkspaceTypeOK /\ [WorkspaceNext]_workspaceVars => WorkspaceTypeOK'
<1> SUFFICES ASSUME WorkspaceTypeOK, [WorkspaceNext]_workspaceVars PROVE WorkspaceTypeOK'
  OBVIOUS
<1>0. TypeOK /\ TypeOK'
  BY TypeStep, RegistryStep DEF WorkspaceTypeOK
<1> USE <1>0 DEF WorkspaceTypeOK, To, connVars
<1>1. ASSUME NEW c \in Callers, Resolve(c) PROVE WorkspaceTypeOK'
  BY <1>1 DEF Resolve, Stat, StatNotFound, LookupHit, LookupMiss, Load, LoadFails,
              InstallLost, Install, CloseOld, Leave, Goto, TypeOK
<1>2. ASSUME NEW c \in Callers, LockMine(c) \/ Get(c) \/ Connected(c)
      PROVE  WorkspaceTypeOK'
  <2>1. pc[c] = "using" /\ mine[c] \in Reg
    BY <1>2, NoneIsNew DEF LockMine, GetCached, Connect, Get, Connected, TypeOK
  <2> QED
    BY <1>2, <2>1 DEF LockMine, GetCached, Connect, Get, Connected, vars
<1>3. ASSUME NEW c \in Callers, ConnectFails(c) \/ HandlerEnds(c)
      PROVE  WorkspaceTypeOK'
  BY <1>3 DEF ConnectFails, HandlerEnds, Done, Leave, Goto, TypeOK
<1>4. ASSUME NEW r \in closing, CloserLocks(r) \/ CloserEnds(r)
      PROVE  WorkspaceTypeOK'
  <2>1. r \in Reg
    BY <1>4 DEF TypeOK
  <2>2. pc' = pc
    BY <1>4 DEF CloserLocks, CloserEnds, CloseAsync, vars
  <2> QED
    BY <1>4, <2>1, <2>2 DEF CloserLocks, CloserEnds
<1>5. ASSUME NEW c \in Callers, NEW p \in Paths, Call(c, p), UNCHANGED connVars
      PROVE  WorkspaceTypeOK'
  BY <1>5 DEF Call, Goto, TypeOK
<1>6. CASE \/ \E p \in Paths : (Edit(p) \/ Remove(p)) /\ UNCHANGED connVars
           \/ Rest /\ UNCHANGED connVars
           \/ UNCHANGED workspaceVars
  BY <1>6 DEF Edit, Remove, Rest, vars, workspaceVars
<1> QED
  BY <1>1, <1>2, <1>3, <1>4, <1>5, <1>6 DEF WorkspaceNext, Work

\* Handlers and closers keep the types of the composed state.
THEOREM WorkspaceTypeCorrect == WorkspaceSpec => []WorkspaceTypeOK
  BY WorkspaceTypeInit, WorkspaceTypeStep, PTL DEF WorkspaceSpec

LEMMA WorkspaceInvInit == WorkspaceInit => WorkspaceInv
<1> SUFFICES ASSUME WorkspaceInit PROVE WorkspaceInv
  OBVIOUS
<1>1. WorkspaceTypeOK /\ IInv
  BY WorkspaceTypeInit, InvInit DEF WorkspaceInit
<1>2. HolderIsAtWork /\ UsedWasServed /\ OpenWasResolved /\ OpenUntilClosed
  BY WorkspaceAssumption
  DEF WorkspaceInit, Init, HolderIsAtWork, UsedWasServed, OpenWasResolved, OpenUntilClosed
<1>3. UneditedIsServed
  BY DEF WorkspaceInit, Init, UneditedIsServed, Unedited
<1> QED
  BY <1>1, <1>2, <1>3 DEF WorkspaceInv

LEMMA HolderStep ==
    WorkspaceInv /\ [WorkspaceNext]_workspaceVars => HolderIsAtWork'
<1> SUFFICES ASSUME WorkspaceInv, [WorkspaceNext]_workspaceVars PROVE HolderIsAtWork'
  OBVIOUS
<1>0. /\ TypeOK /\ WorkspaceTypeOK
      /\ \A d \in Callers : op[d] # "none" => mine[d] \in Reg
  BY NoneIsNew DEF WorkspaceInv, WorkspaceTypeOK, TypeOK
<1> USE <1>0, WorkspaceAssumption, NoneIsNew
    DEF WorkspaceInv, WorkspaceTypeOK, HolderIsAtWork, To, connVars
<1>1. ASSUME NEW c \in Callers, Resolve(c) PROVE HolderIsAtWork'
  <2>1. op[c] = "none"
    BY <1>1 DEF Resolve, Stat, StatNotFound, LookupHit, LookupMiss, Load, LoadFails,
                InstallLost, Install, CloseOld, Leave, Goto
  <2>2. closing \subseteq closing' /\ \A d \in Callers : d # c => mine'[d] = mine[d]
    BY <1>1 DEF Resolve, Stat, StatNotFound, LookupHit, LookupMiss, Load, LoadFails,
                InstallLost, Install, CloseOld, Leave, Goto, regVars, TypeOK
  <2> QED
    BY <1>1, <2>1, <2>2 DEF Resolve
<1>2. ASSUME NEW c \in Callers, LockMine(c) \/ Get(c) \/ Connected(c)
      PROVE  HolderIsAtWork'
  <2>1. pc[c] = "using" /\ mine[c] \in Reg
    BY <1>2 DEF LockMine, GetCached, Connect, Get, Connected, TypeOK
  <2>2. UNCHANGED <<mine, closing>>
    BY <1>2 DEF LockMine, GetCached, Connect, Get, Connected, vars
  <2>3. ASSUME NEW d \in Callers, op'[d] = "connecting" PROVE holder'[mine'[d]] = d
    BY <1>2, <2>1, <2>2, <2>3 DEF LockMine, GetCached, Connect, Get, Connected
  <2>4. ASSUME NEW r \in Reg, holder'[r] = Closer PROVE holder[r] = Closer
    BY <1>2, <2>1, <2>4 DEF LockMine, GetCached, Connect, Get, Connected
  <2> QED
    BY <2>2, <2>3, <2>4
<1>3. ASSUME NEW c \in Callers, ConnectFails(c) \/ HandlerEnds(c)
      PROVE  HolderIsAtWork'
  <2>1. pc[c] = "using" /\ mine[c] \in Reg
    BY <1>3 DEF ConnectFails, HandlerEnds, Done, Leave, Goto, TypeOK
  <2>2. closing' = closing /\ \A d \in Callers : d # c => mine'[d] = mine[d]
    BY <1>3 DEF ConnectFails, HandlerEnds, Done, Leave, Goto, regVars, TypeOK
  <2>3. ASSUME NEW d \in Callers, op'[d] = "connecting" PROVE holder'[mine'[d]] = d
    <3>1. d # c /\ op[d] = "connecting"
      BY <1>3, <2>3 DEF ConnectFails, HandlerEnds
    <3> QED
      BY <1>3, <2>1, <2>2, <3>1 DEF ConnectFails, HandlerEnds
  <2>4. ASSUME NEW r \in Reg, holder'[r] = Closer PROVE holder[r] = Closer
    BY <1>3, <2>1, <2>4 DEF ConnectFails, HandlerEnds
  <2> QED
    BY <2>2, <2>3, <2>4
<1>4. ASSUME NEW r \in closing, CloserLocks(r) \/ CloserEnds(r)
      PROVE  HolderIsAtWork'
  <2>1. r \in Reg /\ holder[r] \in {Nobody, Closer} /\ mine' = mine /\ op' = op
    BY <1>4 DEF TypeOK, CloserLocks, CloserEnds, CloseAsync, vars
  <2>2. \A q \in Reg \ {r} : holder'[q] = holder[q]
    BY <1>4, <2>1 DEF CloserLocks, CloserEnds
  <2>3. \A d \in Callers : op[d] = "connecting" => mine[d] # r
    BY <2>1
  <2>4. \A q \in Reg : holder'[q] = Closer => q \in closing'
    BY <1>4, <2>1, <2>2 DEF CloserLocks, CloserEnds, CloseAsync, vars
  <2> QED
    BY <2>1, <2>2, <2>3, <2>4
<1>5. ASSUME NEW c \in Callers, NEW p \in Paths, Call(c, p), UNCHANGED connVars
      PROVE  HolderIsAtWork'
  BY <1>5 DEF Call, Goto, regVars
<1>6. CASE \/ \E p \in Paths : (Edit(p) \/ Remove(p)) /\ UNCHANGED connVars
           \/ Rest /\ UNCHANGED connVars
           \/ UNCHANGED workspaceVars
  BY <1>6 DEF Edit, Remove, Rest, vars, workspaceVars, regVars
<1> QED
  BY <1>1, <1>2, <1>3, <1>4, <1>5, <1>6 DEF WorkspaceNext, Work

\* What is no longer served was handed over by the call that replaced it.
LEMMA UsedStep ==
    WorkspaceInv /\ [WorkspaceNext]_workspaceVars => UsedWasServed'
<1> SUFFICES ASSUME WorkspaceInv, [Next]_vars PROVE UsedWasServed'
  BY RegistryStep
<1>0. TypeOK /\ Ticketing
  BY DEF WorkspaceInv, IInv
<1> USE <1>0, NoneIsNew
    DEF WorkspaceInv, TypeOK, Reg, Entry, Ticketing, UsedWasServed, IsServed, Retired,
        Goto, callVars, regVars
<1>1. ASSUME NEW c \in Callers, LookupHit(c) PROVE UsedWasServed'
  BY <1>1 DEF LookupHit, IsCached
<1>2. ASSUME NEW c \in Callers, InstallLost(c) PROVE UsedWasServed'
  BY <1>2 DEF InstallLost, IsCached
<1>3. ASSUME NEW c \in Callers, Install(c) PROVE UsedWasServed'
  <2>1. mine[c] \in Reg /\ mine[c].path = path[c] /\ path[c] \in Paths
    BY <1>3 DEF Install, IInv, Ownership
  <2>2. regs'[path[c]] = [mtime |-> mtime[c], reg |-> mine[c]]
    BY <1>3, <2>1 DEF Install
  <2>3. regs[path[c]] # None => old'[c] = regs[path[c]].reg
    BY <1>3, <2>1 DEF Install
  <2>4. old[c] = None
    BY <1>3 DEF Install
  <2> QED
    BY <1>3, <2>1, <2>2, <2>3, <2>4 DEF Install
<1>4. ASSUME NEW c \in Callers, CloseOld(c) PROVE UsedWasServed'
  BY <1>4 DEF CloseOld
<1>5. ASSUME NEW c \in Callers,
             Stat(c) \/ StatNotFound(c) \/ LookupMiss(c) \/ Load(c) \/ LoadFails(c) \/ Done(c)
      PROVE  UsedWasServed'
  BY <1>5 DEF Stat, StatNotFound, LookupMiss, Load, LoadFails, Done, Leave
<1>6. ASSUME NEW c \in Callers, NEW p \in Paths, Call(c, p) PROVE UsedWasServed'
  BY <1>6 DEF Call
<1>7. CASE \/ \E p \in Paths : Edit(p) \/ Remove(p)
           \/ \E r \in closing : CloseAsync(r)
           \/ UNCHANGED vars
  BY <1>7 DEF Edit, Remove, CloseAsync, vars
<1> QED
  BY <1>1, <1>2, <1>3, <1>4, <1>5, <1>6, <1>7 DEF Next, Step, Rest

\* A registry that a call has yet to install is nobody else's, so that nobody
\* connects it; and a connect excludes the closer, so that what is open in a
\* closed registry was asked for after the Close.
LEMMA OpenStep ==
    WorkspaceInv /\ [WorkspaceNext]_workspaceVars
        => OpenWasResolved' /\ OpenUntilClosed'
<1> SUFFICES ASSUME WorkspaceInv, [WorkspaceNext]_workspaceVars
             PROVE  OpenWasResolved' /\ OpenUntilClosed'
  OBVIOUS
<1>0. /\ TypeOK /\ WorkspaceTypeOK /\ Ticketing /\ Ownership
      /\ OpenWasResolved /\ OpenUntilClosed /\ HolderIsAtWork
      /\ \A d \in Callers : op[d] # "none" => mine[d] \in Reg /\ mine[d] \in made
      /\ \A c, d \in Callers :
            pc[c] = "install" /\ op[d] # "none" => mine[c] # mine[d]
  BY NoneIsNew
  DEF WorkspaceInv, WorkspaceTypeOK, TypeOK, IInv, Ticketing, Ownership, UsedWasServed
<1> USE <1>0, WorkspaceAssumption, NoneIsNew
    DEF WorkspaceTypeOK, OpenWasResolved, OpenUntilClosed, To, connVars
<1>1. ASSUME NEW c \in Callers, Load(c), UNCHANGED connVars
      PROVE  OpenWasResolved' /\ OpenUntilClosed'
  <2>1. PICK r : r = [id |-> ticket[c], path |-> path[c], ver |-> file[path[c]].ver]
    OBVIOUS
  <2>2. r \notin made
    BY <1>1, <2>1 DEF Load, Goto, Ticketing
  <2>3. /\ made' = made \cup {r} /\ mine' = [mine EXCEPT ![c] = r]
        /\ pc' = [pc EXCEPT ![c] = "install"] /\ op[c] = "none" /\ closed' = closed
    BY <1>1, <2>1 DEF Load, Goto
  <2> QED
    BY <1>1, <2>2, <2>3 DEF TypeOK
<1>2. ASSUME NEW c \in Callers, UNCHANGED connVars,
             \/ Stat(c) \/ StatNotFound(c) \/ LookupHit(c) \/ LookupMiss(c) \/ LoadFails(c)
             \/ InstallLost(c) \/ Install(c) \/ CloseOld(c)
      PROVE  OpenWasResolved' /\ OpenUntilClosed'
  <2>1. /\ op[c] = "none" /\ made' = made /\ closed' = closed
        /\ \A d \in Callers : d # c => mine'[d] = mine[d] /\ pc'[d] = pc[d]
        /\ pc'[c] # "install"
    BY <1>2 DEF Stat, StatNotFound, LookupHit, LookupMiss, LoadFails, InstallLost, Install,
                CloseOld, Leave, Goto, regVars, TypeOK
  <2> QED
    BY <1>2, <2>1
<1>3. ASSUME NEW c \in Callers, LockMine(c) \/ Get(c) \/ Connected(c)
      PROVE  OpenWasResolved' /\ OpenUntilClosed'
  <2>1. UNCHANGED <<pc, mine, made, closed>>
    BY <1>3 DEF LockMine, GetCached, Connect, Get, Connected, vars
  <2>2. CASE GetCached(c) \/ Get(c)
    BY <2>1, <2>2 DEF GetCached, Get
  <2>3. CASE Connect(c)
    BY <2>1, <2>3 DEF Connect
  <2>4. CASE Connected(c)
    BY <2>1, <2>4 DEF Connected
  <2> QED
    BY <1>3, <2>2, <2>3, <2>4 DEF LockMine
<1>4. ASSUME NEW c \in Callers, ConnectFails(c) \/ HandlerEnds(c)
      PROVE  OpenWasResolved' /\ OpenUntilClosed'
  <2>1. /\ made' = made /\ closed' = closed /\ open' = open /\ late' = late
        /\ op' = [op EXCEPT ![c] = "none"] /\ pc' = [pc EXCEPT ![c] = "idle"]
        /\ \A d \in Callers : d # c => mine'[d] = mine[d]
    BY <1>4 DEF ConnectFails, HandlerEnds, Done, Leave, Goto, regVars, TypeOK
  <2> QED
    BY <2>1 DEF TypeOK
<1>5. ASSUME NEW r \in closing, CloserLocks(r) \/ CloserEnds(r)
      PROVE  OpenWasResolved' /\ OpenUntilClosed'
  <2>1. r \in Reg /\ UNCHANGED <<pc, mine, made, op, late>>
    BY <1>5 DEF TypeOK, CloserLocks, CloserEnds, CloseAsync, vars
  <2>2. CASE CloserLocks(r)
    BY <2>1, <2>2 DEF CloserLocks, vars
  <2>3. CASE CloserEnds(r)
    <3>1. \A c \in Callers : op[c] = "connecting" => mine[c] # r
      BY <2>3 DEF CloserEnds, HolderIsAtWork
    <3>2. open' = open \ {r} /\ closed' = closed \cup {r}
      BY <2>3 DEF CloserEnds, CloseAsync
    <3> QED
      BY <2>1, <3>1, <3>2
  <2> QED
    BY <1>5, <2>2, <2>3
<1>6. ASSUME NEW c \in Callers, NEW p \in Paths, Call(c, p), UNCHANGED connVars
      PROVE  OpenWasResolved' /\ OpenUntilClosed'
  BY <1>6 DEF Call, Goto, regVars, TypeOK
<1>7. CASE \/ \E p \in Paths : (Edit(p) \/ Remove(p)) /\ UNCHANGED connVars
           \/ Rest /\ UNCHANGED connVars
           \/ UNCHANGED workspaceVars
  BY <1>7 DEF Edit, Remove, Rest, vars, workspaceVars, regVars
<1> QED
  BY <1>1, <1>2, <1>3, <1>4, <1>5, <1>6, <1>7 DEF WorkspaceNext, Resolve, Work

\* With one time stamp there is one registry: whoever comes second finds it cached.
LEMMA UneditedStep ==
    WorkspaceInv /\ [WorkspaceNext]_workspaceVars => UneditedIsServed'
<1> SUFFICES ASSUME WorkspaceInv, [Next]_vars PROVE UneditedIsServed'
  BY RegistryStep
<1>0. TypeOK /\ Ticketing /\ UneditedIsServed
  BY DEF WorkspaceInv, IInv
<1> USE <1>0, NoneIsNew
    DEF TypeOK, Reg, Entry, UneditedIsServed, Unedited, IsServed, Goto, callVars, regVars
<1>1. ASSUME NEW c \in Callers, LookupHit(c) PROVE UneditedIsServed'
  BY <1>1 DEF LookupHit, IsCached, Ticketing
<1>2. ASSUME NEW c \in Callers, InstallLost(c) PROVE UneditedIsServed'
  BY <1>2 DEF InstallLost, IsCached, Ticketing
<1>3. ASSUME NEW c \in Callers, Install(c) PROVE UneditedIsServed'
  <2>1. mine[c] \in Reg /\ mine[c].path = path[c] /\ path[c] \in Paths
    BY <1>3 DEF Install
  <2>2. regs' = [regs EXCEPT ![path[c]] = [mtime |-> mtime[c], reg |-> mine[c]]]
    BY <1>3 DEF Install
  <2>3. file[path[c]].mtime = 0 => regs[path[c]] = None /\ mtime[c] = 0
    BY <1>3, <2>1 DEF Install, IsCached
  <2> QED
    BY <1>3, <2>1, <2>2, <2>3 DEF Install
<1>4. ASSUME NEW c \in Callers, CloseOld(c) PROVE UneditedIsServed'
  BY <1>4 DEF CloseOld
<1>5. ASSUME NEW c \in Callers, Stat(c) \/ LookupMiss(c) \/ Load(c) PROVE UneditedIsServed'
  BY <1>5 DEF Stat, LookupMiss, Load
<1>6. ASSUME NEW c \in Callers, StatNotFound(c) \/ LoadFails(c) \/ Done(c)
      PROVE  UneditedIsServed'
  BY <1>6 DEF StatNotFound, LoadFails, Done, Leave
<1>7. ASSUME NEW c \in Callers, NEW p \in Paths, Call(c, p) PROVE UneditedIsServed'
  BY <1>7 DEF Call
<1>8. ASSUME NEW p \in Paths, Edit(p) \/ Remove(p) PROVE UneditedIsServed'
  <2>1. \A q \in Paths : file'[q].mtime = 0 => file[q].mtime = 0
    BY <1>8 DEF Edit, Remove, File, Version
  <2> QED
    BY <1>8, <2>1 DEF Edit, Remove
<1>9. CASE (\E r \in closing : CloseAsync(r)) \/ UNCHANGED vars
  BY <1>9 DEF CloseAsync, vars
<1> QED
  BY <1>1, <1>2, <1>3, <1>4, <1>5, <1>6, <1>7, <1>8, <1>9 DEF Next, Step, Rest

LEMMA WorkspaceInvStep ==
    WorkspaceInv /\ [WorkspaceNext]_workspaceVars => WorkspaceInv'
<1> SUFFICES ASSUME WorkspaceInv, [WorkspaceNext]_workspaceVars PROVE WorkspaceInv'
  OBVIOUS
<1>1. WorkspaceTypeOK'
  BY WorkspaceTypeStep DEF WorkspaceInv
<1>2. IInv'
  BY InvStep, RegistryStep DEF WorkspaceInv
<1> QED
  BY <1>1, <1>2, HolderStep, UsedStep, OpenStep, UneditedStep DEF WorkspaceInv

\* WorkspaceInv is an invariant of the composition.
THEOREM WorkspaceInvariance == WorkspaceSpec => []WorkspaceInv
  BY WorkspaceInvInit, WorkspaceInvStep, PTL DEF WorkspaceSpec

-----------------------------------------------------------------------------
\* What may be open, and who may close it.

\* Without an edit that changes the time stamp, no handler loses the connection
\* it operates on, however many calls race to build and cache the registry.
THEOREM EditsOnly == WorkspaceSpec => []OnlyEditsDisconnect
<1>1. WorkspaceInv => OnlyEditsDisconnect
  <2> SUFFICES ASSUME WorkspaceInv, NEW c \in Callers, op[c] = "operating", mine[c] \notin open
               PROVE  ~ IsServed(mine[c]) /\ file[mine[c].path].mtime # 0
    BY DEF OnlyEditsDisconnect
  <2>1. mine[c] \in closed
    BY DEF WorkspaceInv, OpenUntilClosed
  <2>2. pc[c] = "using" /\ mine[c] \in Reg /\ path[c] \in Paths /\ mine[c].path = path[c]
    BY NoneIsNew DEF WorkspaceInv, WorkspaceTypeOK, TypeOK, UneditedIsServed
  <2>3. ~ IsServed(mine[c])
    BY <2>1, <2>2 DEF WorkspaceInv, IInv, CachedIsNotRetired, Retired, IsServed
  <2> QED
    BY <2>2, <2>3 DEF WorkspaceInv, UneditedIsServed, Unedited
<1> QED
  BY <1>1, WorkspaceInvariance, PTL

\* Whatever is connected is served, on its way to a closer, or was asked for
\* after its Close by a handler that had resolved it before.
THEOREM OpenAccounted == WorkspaceSpec => []OpenIsAccountedFor
<1>1. WorkspaceInv => OpenIsAccountedFor
  BY DEF WorkspaceInv, IInv, NoneForgotten, Retired, OpenWasResolved, OpenIsAccountedFor
<1> QED
  BY <1>1, WorkspaceInvariance, PTL

\* When every call has ended and every closer is done, a connection that nothing
\* serves was asked for after the Close of its registry.
THEOREM QuietButForLate ==
    WorkspaceSpec => []((closing = {} /\ \A c \in Callers : pc[c] = "idle")
                           => \A r \in open : IsServed(r) \/ r \in late)
<1> DEFINE Quiet == closing = {} /\ \A c \in Callers : pc[c] = "idle"
<1>1. WorkspaceInv /\ OpenIsAccountedFor => (Quiet => \A r \in open : IsServed(r) \/ r \in late)
  <2> SUFFICES ASSUME WorkspaceInv, OpenIsAccountedFor, Quiet, NEW r \in open
               PROVE  IsServed(r) \/ r \in late
    OBVIOUS
  <2>1. r # None /\ \A c \in Callers : old[c] = None
    BY NoneIsNew DEF WorkspaceInv, WorkspaceTypeOK, TypeOK
  <2> QED
    BY <2>1 DEF OpenIsAccountedFor
<1> QED
  BY <1>1, WorkspaceInvariance, OpenAccounted, PTL

-----------------------------------------------------------------------------
\* Every workspace registry is a Connection.

LEMMA RegistryConnectionInit ==
  ASSUME WorkspaceInit, NEW r \in Reg
  PROVE  RegistryOf(r)!Init
BY DEF WorkspaceInit, At, RegistryOf!Init

\* A step of Get of a handler is seen at the registry it resolved, and nowhere else.
LEMMA ConnectionOfHandler ==
  ASSUME WorkspaceInv, NEW r \in Reg, NEW c \in Callers, LockMine(c) \/ Work(c)
  PROVE  RegistryOf(r)!Next \/ UNCHANGED RegistryOf(r)!connectionVars
<1> DEFINE at == [d \in Callers |-> At(d, r)]
<1> USE DEF To, RegistryOf!Goto, RegistryOf!Locks, RegistryOf!Unlocks
<1>a. /\ op \in [Callers -> {"none", "locking", "connecting", "operating"}]
      /\ holder \in [Reg -> Callers \cup {Closer, Nobody}]
      /\ op[c] = "connecting" => holder[mine[c]] = c
  BY DEF WorkspaceInv, WorkspaceTypeOK, HolderIsAtWork
<1>b. \A d \in Callers : d # c => op'[d] = op[d] /\ mine'[d] = mine[d]
  BY DEF LockMine, GetCached, Connect, Work, Get, Connected, ConnectFails, HandlerEnds,
         Done, Leave, Goto, vars, regVars, WorkspaceInv, WorkspaceTypeOK, TypeOK
<1>c. at' = [at EXCEPT ![c] = At(c, r)']
  <2>1. \A d \in Callers : d # c => At(d, r)' = At(d, r)
    BY <1>b DEF At
  <2> QED
    BY <2>1
<1>d. CASE mine[c] # r
  <2>1. holder'[r] = holder[r] /\ (r \in open)' = (r \in open)
    BY <1>a, <1>d DEF LockMine, GetCached, Connect, Work, Get, Connected, ConnectFails, HandlerEnds
  <2>2. At(c, r) = "none" /\ At(c, r)' = "none"
    BY <1>a, <1>d
    DEF At, LockMine, GetCached, Connect, Work, Get, Connected, ConnectFails, HandlerEnds, vars
  <2>3. at' = at
    BY <1>c, <2>2
  <2> QED
    BY <2>1, <2>3 DEF RegistryOf!connectionVars
<1>e. CASE mine[c] = r
  <2>1. At(c, r) = op[c] /\ (op'[c] = "none" \/ mine'[c] = r => At(c, r)' = op'[c])
    BY <1>e DEF At
  <2>2. CASE Get(c)
    BY <1>a, <1>c, <1>e, <2>1, <2>2 DEF Get, vars, RegistryOf!Get, RegistryOf!Next
  <2>3. CASE GetCached(c)
    BY <1>a, <1>c, <1>e, <2>1, <2>3 DEF GetCached, vars, RegistryOf!Hit, RegistryOf!Next
  <2>4. CASE Connect(c)
    BY <1>a, <1>c, <1>e, <2>1, <2>4 DEF Connect, vars, RegistryOf!Miss, RegistryOf!Next
  <2>5. CASE Connected(c)
    BY <1>a, <1>c, <1>e, <2>1, <2>5 DEF Connected, vars, RegistryOf!Connected, RegistryOf!Next
  <2>6. CASE ConnectFails(c)
    BY <1>a, <1>c, <1>e, <2>1, <2>6 DEF ConnectFails, RegistryOf!Fails, RegistryOf!Next
  <2>7. CASE HandlerEnds(c)
    <3>1. op[c] \in {"none", "operating"} /\ op'[c] = "none" /\ UNCHANGED <<holder, open>>
      BY <1>a, <2>7 DEF HandlerEnds
    <3>2. CASE op[c] = "none"
      BY <1>c, <2>1, <3>1, <3>2 DEF RegistryOf!connectionVars
    <3>3. CASE op[c] = "operating"
      BY <1>c, <2>1, <3>1, <3>3 DEF RegistryOf!Leave, RegistryOf!Next
    <3> QED
      BY <3>1, <3>2, <3>3
  <2> QED
    BY <2>2, <2>3, <2>4, <2>5, <2>6, <2>7 DEF LockMine, Work
<1> QED
  BY <1>d, <1>e

LEMMA ConnectionOfCloser ==
  ASSUME WorkspaceInv, NEW r \in Reg, NEW q \in closing, CloserLocks(q) \/ CloserEnds(q)
  PROVE  RegistryOf(r)!Next \/ UNCHANGED RegistryOf(r)!connectionVars
<1>1. q \in Reg /\ holder \in [Reg -> Callers \cup {Closer, Nobody}]
  BY DEF WorkspaceInv, WorkspaceTypeOK, TypeOK
<1>2. \A c \in Callers : At(c, r)' = At(c, r)
  BY DEF At, CloserLocks, CloserEnds, CloseAsync, vars
<1>3. CASE q # r
  BY <1>1, <1>2, <1>3 DEF CloserLocks, CloserEnds, RegistryOf!connectionVars
<1>4. CASE q = r /\ CloserLocks(q)
  BY <1>1, <1>2, <1>4 DEF CloserLocks, RegistryOf!CloseLocks, RegistryOf!Locks, RegistryOf!Next
<1>5. CASE q = r /\ CloserEnds(q)
  BY <1>1, <1>2, <1>5 DEF CloserEnds, RegistryOf!CloseGoesOn, RegistryOf!Next
<1> QED
  BY <1>3, <1>4, <1>5

LEMMA RegistryConnectionStep ==
  ASSUME WorkspaceInv, [WorkspaceNext]_workspaceVars, NEW r \in Reg
  PROVE  [RegistryOf(r)!Next]_(RegistryOf(r)!connectionVars)
<1>1. CASE UNCHANGED connVars /\ \A c \in Callers : op[c] # "none" => mine'[c] = mine[c]
  BY <1>1 DEF connVars, At, RegistryOf!connectionVars
<1>2. ASSUME NEW c \in Callers, Resolve(c) \/ \E p \in Paths : Call(c, p) /\ UNCHANGED connVars
      PROVE  UNCHANGED connVars /\ \A d \in Callers : op[d] # "none" => mine'[d] = mine[d]
  <2>1. op[c] = "none"
    BY <1>2 DEF WorkspaceInv, WorkspaceTypeOK, Resolve, Stat, StatNotFound, LookupHit, LookupMiss,
                Load, LoadFails, InstallLost, Install, CloseOld, Call, Leave, Goto
  <2>2. TypeOK
    BY DEF WorkspaceInv, WorkspaceTypeOK
  <2>3. UNCHANGED connVars
    BY <1>2 DEF Resolve
  <2>4. \A d \in Callers : d # c => mine'[d] = mine[d]
    BY <1>2, <2>2 DEF Resolve, Stat, StatNotFound, LookupHit, LookupMiss, Load, LoadFails,
                      InstallLost, Install, CloseOld, Call, Leave, Goto, regVars, TypeOK
  <2> QED
    BY <2>1, <2>3, <2>4
<1>3. CASE \/ \E p \in Paths : (Edit(p) \/ Remove(p)) /\ UNCHANGED connVars
           \/ Rest /\ UNCHANGED connVars
           \/ UNCHANGED workspaceVars
  BY <1>1, <1>3 DEF Edit, Remove, Rest, vars, workspaceVars, regVars
<1> QED
  BY <1>1, <1>2, <1>3, ConnectionOfHandler, ConnectionOfCloser DEF WorkspaceNext

\* Handlers and closers do to a registry what Connection allows: what is shown here
\* of what is replaced needs no more of a registry than what Registry has.
THEOREM RegistryIsConnection ==
  ASSUME NEW r \in Reg
  PROVE  WorkspaceSpec => RegistryOf(r)!Spec
<1>1. WorkspaceInit => RegistryOf(r)!Init
  BY RegistryConnectionInit
<1>2. WorkspaceInv /\ [WorkspaceNext]_workspaceVars
        => [RegistryOf(r)!Next]_(RegistryOf(r)!connectionVars)
  BY RegistryConnectionStep
<1> QED
  BY <1>1, <1>2, WorkspaceInvariance, PTL DEF WorkspaceSpec, RegistryOf!Spec
=============================================================================
