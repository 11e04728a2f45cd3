------------------------- MODULE RootRegistryProofs -------------------------
(***************************************************************************)
(* Proofs about RootRegistry.tla, for every set of callers and paths and   *)
(* every bound.  IInv is inductive.  What concerns the content of the      *)
(* files holds when every edit changes the mtime (FreshMtimes); without    *)
(* that TLC refutes it (the run RootRegistry_coarse).                      *)
(***************************************************************************)
EXTENDS RootRegistry, TLAPS

LEMMA TypeInit == Init => TypeOK
<1> SUFFICES ASSUME Init PROVE TypeOK
  OBVIOUS
<1>1. 0 \in Version
  BY RootRegistryAssumption DEF Version
<1>2. [present : BOOLEAN, ver : {0}, mtime : {0}, valid : {TRUE}] \subseteq File
  BY <1>1 DEF File
<1>3. file \in [Paths -> File]
  BY <1>2 DEF Init
<1> QED
  BY <1>1, <1>3, RootRegistryAssumption, NoneIsNew DEF Init, TypeOK

\* Every step keeps the variables in their types.
LEMMA TypeStep == TypeOK /\ [Next]_vars => TypeOK'
<1> SUFFICES ASSUME TypeOK, [Next]_vars PROVE TypeOK'
  OBVIOUS
<1> USE RootRegistryAssumption, NoneIsNew
    DEF TypeOK, File, Reg, Entry, Version, Goto, callVars, regVars
<1>1. ASSUME NEW p \in Paths, Edit(p)
      PROVE  TypeOK'
  BY <1>1 DEF Edit
<1>2. ASSUME NEW p \in Paths, Remove(p)
      PROVE  TypeOK'
  <2>1. ASSUME NEW f \in File PROVE [f EXCEPT !.present = FALSE] \in File
    BY Zenon
  <2>2. file' \in [Paths -> File]
    BY <1>2, <2>1 DEF Remove
  <2> QED
    BY <1>2, <2>2 DEF Remove
<1>3. ASSUME NEW c \in Callers, NEW p \in Paths, Call(c, p)
      PROVE  TypeOK'
  BY <1>3 DEF Call
<1>4. ASSUME NEW c \in Callers, Stat(c)
      PROVE  TypeOK'
  BY <1>4 DEF Stat
<1>5. ASSUME NEW c \in Callers, StatNotFound(c)
      PROVE  TypeOK'
  BY <1>5 DEF StatNotFound, Leave
<1>6. ASSUME NEW c \in Callers, LookupHit(c)
      PROVE  TypeOK'
  BY <1>6 DEF LookupHit, IsCached
<1>7. ASSUME NEW c \in Callers, LookupMiss(c)
      PROVE  TypeOK'
  BY <1>7 DEF LookupMiss, IsCached
<1>8. ASSUME NEW c \in Callers, Load(c)
      PROVE  TypeOK'
  BY <1>8 DEF Load
<1>9. ASSUME NEW c \in Callers, LoadFails(c)
      PROVE  TypeOK'
  BY <1>9 DEF LoadFails, Leave
<1>10. ASSUME NEW c \in Callers, InstallLost(c)
      PROVE  TypeOK'
  BY <1>10 DEF InstallLost, IsCached
<1>11. ASSUME NEW c \in Callers, Install(c)
      PROVE  TypeOK'
  BY <1>11 DEF Install, IsCached
<1>12. ASSUME NEW c \in Callers, CloseOld(c)
      PROVE  TypeOK'
  BY <1>12 DEF CloseOld
<1>13. ASSUME NEW c \in Callers, Done(c)
      PROVE  TypeOK'
  BY <1>13 DEF Done, Leave
<1>14. ASSUME NEW r \in closing, CloseAsync(r)
      PROVE  TypeOK'
  BY <1>14 DEF CloseAsync
\* The bounds are reached, or nothing happens.
<1>15. CASE UNCHANGED vars
  BY <1>15 DEF vars
<1> QED
  BY <1>1, <1>2, <1>3, <1>4, <1>5, <1>6, <1>7, <1>8, <1>9, <1>10,
     <1>11, <1>12, <1>13, <1>14, <1>15
     DEF Next, Step, Rest

\* The type invariant of the resolver's registries holds in every behaviour.
THEOREM TypeCorrect == Spec => []TypeOK
<1>1. Init => TypeOK
  BY TypeInit
<1>2. TypeOK /\ [Next]_vars => TypeOK'
  BY TypeStep
<1> QED
  BY <1>1, <1>2, PTL DEF Spec

-----------------------------------------------------------------------------

LEMMA InvInit == Init => IInv
<1> SUFFICES ASSUME Init PROVE IInv
  OBVIOUS
<1>1. TypeOK
  BY TypeInit
<1>2. Freshness
  BY <1>1, NoneIsNew DEF Init, Freshness, TypeOK, Version
<1> QED
  BY <1>1, <1>2
  DEF Init, IInv, Ticketing, Ownership, CachedIsNotRetired, NoneForgotten

LEMMA TicketingStep == IInv /\ [Next]_vars => Ticketing'
<1> SUFFICES ASSUME IInv, [Next]_vars PROVE Ticketing'
  OBVIOUS
<1> USE RootRegistryAssumption, NoneIsNew
    DEF IInv, TypeOK, File, Reg, Entry, Version, Goto, callVars, regVars,
        Ticketing, Ownership
<1>1. ASSUME NEW p \in Paths, Edit(p)
      PROVE  Ticketing'
  BY <1>1 DEF Edit
<1>2. ASSUME NEW p \in Paths, Remove(p)
      PROVE  Ticketing'
  BY <1>2 DEF Remove
<1>3. ASSUME NEW c \in Callers, NEW p \in Paths, Call(c, p)
      PROVE  Ticketing'
  BY <1>3 DEF Call
<1>4. ASSUME NEW c \in Callers, Stat(c)
      PROVE  Ticketing'
  BY <1>4 DEF Stat
<1>5. ASSUME NEW c \in Callers, StatNotFound(c)
      PROVE  Ticketing'
  BY <1>5 DEF StatNotFound, Leave
<1>6. ASSUME NEW c \in Callers, LookupHit(c)
      PROVE  Ticketing'
  BY <1>6 DEF LookupHit, IsCached
<1>7. ASSUME NEW c \in Callers, LookupMiss(c)
      PROVE  Ticketing'
  BY <1>7 DEF LookupMiss, IsCached
<1>8. ASSUME NEW c \in Callers, Load(c)
      PROVE  Ticketing'
  BY <1>8 DEF Load
<1>9. ASSUME NEW c \in Callers, LoadFails(c)
      PROVE  Ticketing'
  BY <1>9 DEF LoadFails, Leave
<1>10. ASSUME NEW c \in Callers, InstallLost(c)
      PROVE  Ticketing'
  BY <1>10 DEF InstallLost, IsCached
<1>11. ASSUME NEW c \in Callers, Install(c)
      PROVE  Ticketing'
  BY <1>11 DEF Install, IsCached
<1>12. ASSUME NEW c \in Callers, CloseOld(c)
      PROVE  Ticketing'
  BY <1>12 DEF CloseOld
<1>13. ASSUME NEW c \in Callers, Done(c)
      PROVE  Ticketing'
  BY <1>13 DEF Done, Leave
<1>14. ASSUME NEW r \in closing, CloseAsync(r)
      PROVE  Ticketing'
  BY <1>14 DEF CloseAsync
\* The bounds are reached, or nothing happens.
<1>15. CASE UNCHANGED vars
  BY <1>15 DEF vars
<1> QED
  BY <1>1, <1>2, <1>3, <1>4, <1>5, <1>6, <1>7, <1>8, <1>9, <1>10,
     <1>11, <1>12, <1>13, <1>14, <1>15
     DEF Next, Step, Rest

LEMMA OwnershipStep == IInv /\ [Next]_vars => Ownership'
<1> SUFFICES ASSUME IInv, [Next]_vars PROVE Ownership'
  OBVIOUS
<1> USE RootRegistryAssumption, NoneIsNew
    DEF IInv, TypeOK, File, Reg, Entry, Version, Goto, callVars, regVars,
        Ownership, Ticketing, CachedIsNotRetired, Retired, IsServed
<1>1. ASSUME NEW p \in Paths, Edit(p)
      PROVE  Ownership'
  BY <1>1 DEF Edit
<1>2. ASSUME NEW p \in Paths, Remove(p)
      PROVE  Ownership'
  BY <1>2 DEF Remove
<1>3. ASSUME NEW c \in Callers, NEW p \in Paths, Call(c, p)
      PROVE  Ownership'
  BY <1>3 DEF Call
<1>4. ASSUME NEW c \in Callers, Stat(c)
      PROVE  Ownership'
  BY <1>4 DEF Stat
<1>5. ASSUME NEW c \in Callers, StatNotFound(c)
      PROVE  Ownership'
  BY <1>5 DEF StatNotFound, Leave
<1>6. ASSUME NEW c \in Callers, LookupHit(c)
      PROVE  Ownership'
  BY <1>6 DEF LookupHit, IsCached
<1>7. ASSUME NEW c \in Callers, LookupMiss(c)
      PROVE  Ownership'
  BY <1>7 DEF LookupMiss, IsCached
<1>8. ASSUME NEW c \in Callers, Load(c)
      PROVE  Ownership'
  BY <1>8 DEF Load
<1>9. ASSUME NEW c \in Callers, LoadFails(c)
      PROVE  Ownership'
  BY <1>9 DEF LoadFails, Leave
<1>10. ASSUME NEW c \in Callers, InstallLost(c)
      PROVE  Ownership'
  BY <1>10 DEF InstallLost, IsCached
<1>11. ASSUME NEW c \in Callers, Install(c)
      PROVE  Ownership'
  BY <1>11 DEF Install, IsCached
<1>12. ASSUME NEW c \in Callers, CloseOld(c)
      PROVE  Ownership'
  BY <1>12 DEF CloseOld
<1>13. ASSUME NEW c \in Callers, Done(c)
      PROVE  Ownership'
  BY <1>13 DEF Done, Leave
<1>14. ASSUME NEW r \in closing, CloseAsync(r)
      PROVE  Ownership'
  BY <1>14 DEF CloseAsync
\* The bounds are reached, or nothing happens.
<1>15. CASE UNCHANGED vars
  BY <1>15 DEF vars
<1> QED
  BY <1>1, <1>2, <1>3, <1>4, <1>5, <1>6, <1>7, <1>8, <1>9, <1>10,
     <1>11, <1>12, <1>13, <1>14, <1>15
     DEF Next, Step, Rest

LEMMA CachedIsNotRetiredStep == IInv /\ [Next]_vars => CachedIsNotRetired'
<1> SUFFICES ASSUME IInv, [Next]_vars PROVE CachedIsNotRetired'
  OBVIOUS
<1> USE RootRegistryAssumption, NoneIsNew
    DEF IInv, TypeOK, File, Reg, Entry, Version, Goto, callVars, regVars,
        Ownership, Ticketing, CachedIsNotRetired, Retired, IsServed
<1>1. ASSUME NEW p \in Paths, Edit(p)
      PROVE  CachedIsNotRetired'
  BY <1>1 DEF Edit
<1>2. ASSUME NEW p \in Paths, Remove(p)
      PROVE  CachedIsNotRetired'
  BY <1>2 DEF Remove
<1>3. ASSUME NEW c \in Callers, NEW p \in Paths, Call(c, p)
      PROVE  CachedIsNotRetired'
  BY <1>3 DEF Call
<1>4. ASSUME NEW c \in Callers, Stat(c)
      PROVE  CachedIsNotRetired'
  BY <1>4 DEF Stat
<1>5. ASSUME NEW c \in Callers, StatNotFound(c)
      PROVE  CachedIsNotRetired'
  BY <1>5 DEF StatNotFound, Leave
<1>6. ASSUME NEW c \in Callers, LookupHit(c)
      PROVE  CachedIsNotRetired'
  BY <1>6 DEF LookupHit, IsCached
<1>7. ASSUME NEW c \in Callers, LookupMiss(c)
      PROVE  CachedIsNotRetired'
  BY <1>7 DEF LookupMiss, IsCached
<1>8. ASSUME NEW c \in Callers, Load(c)
      PROVE  CachedIsNotRetired'
  BY <1>8 DEF Load
<1>9. ASSUME NEW c \in Callers, LoadFails(c)
      PROVE  CachedIsNotRetired'
  BY <1>9 DEF LoadFails, Leave
<1>10. ASSUME NEW c \in Callers, InstallLost(c)
      PROVE  CachedIsNotRetired'
  BY <1>10 DEF InstallLost, IsCached
<1>11. ASSUME NEW c \in Callers, Install(c)
      PROVE  CachedIsNotRetired'
  BY <1>11 DEF Install, IsCached
<1>12. ASSUME NEW c \in Callers, CloseOld(c)
      PROVE  CachedIsNotRetired'
  BY <1>12 DEF CloseOld
<1>13. ASSUME NEW c \in Callers, Done(c)
      PROVE  CachedIsNotRetired'
  BY <1>13 DEF Done, Leave
<1>14. ASSUME NEW r \in closing, CloseAsync(r)
      PROVE  CachedIsNotRetired'
  BY <1>14 DEF CloseAsync
\* The bounds are reached, or nothing happens.
<1>15. CASE UNCHANGED vars
  BY <1>15 DEF vars
<1> QED
  BY <1>1, <1>2, <1>3, <1>4, <1>5, <1>6, <1>7, <1>8, <1>9, <1>10,
     <1>11, <1>12, <1>13, <1>14, <1>15
     DEF Next, Step, Rest

LEMMA NoneForgottenStep == IInv /\ [Next]_vars => NoneForgotten'
<1> SUFFICES ASSUME IInv, [Next]_vars PROVE NoneForgotten'
  OBVIOUS
<1> USE RootRegistryAssumption, NoneIsNew
    DEF IInv, TypeOK, File, Reg, Entry, Version, Goto, callVars, regVars,
        Ownership, Ticketing, NoneForgotten, Retired, IsServed
<1>1. ASSUME NEW p \in Paths, Edit(p)
      PROVE  NoneForgotten'
  BY <1>1 DEF Edit
<1>2. ASSUME NEW p \in Paths, Remove(p)
      PROVE  NoneForgotten'
  BY <1>2 DEF Remove
<1>3. ASSUME NEW c \in Callers, NEW p \in Paths, Call(c, p)
      PROVE  NoneForgotten'
  BY <1>3 DEF Call
<1>4. ASSUME NEW c \in Callers, Stat(c)
      PROVE  NoneForgotten'
  BY <1>4 DEF Stat
<1>5. ASSUME NEW c \in Callers, StatNotFound(c)
      PROVE  NoneForgotten'
  BY <1>5 DEF StatNotFound, Leave
<1>6. ASSUME NEW c \in Callers, LookupHit(c)
      PROVE  NoneForgotten'
  BY <1>6 DEF LookupHit, IsCached
<1>7. ASSUME NEW c \in Callers, LookupMiss(c)
      PROVE  NoneForgotten'
  BY <1>7 DEF LookupMiss, IsCached
<1>8. ASSUME NEW c \in Callers, Load(c)
      PROVE  NoneForgotten'
  BY <1>8 DEF Load
<1>9. ASSUME NEW c \in Callers, LoadFails(c)
      PROVE  NoneForgotten'
  BY <1>9 DEF LoadFails, Leave
<1>10. ASSUME NEW c \in Callers, InstallLost(c)
      PROVE  NoneForgotten'
  BY <1>10 DEF InstallLost, IsCached
<1>11. ASSUME NEW c \in Callers, Install(c)
      PROVE  NoneForgotten'
  BY <1>11 DEF Install, IsCached
<1>12. ASSUME NEW c \in Callers, CloseOld(c)
      PROVE  NoneForgotten'
  BY <1>12 DEF CloseOld
<1>13. ASSUME NEW c \in Callers, Done(c)
      PROVE  NoneForgotten'
  BY <1>13 DEF Done, Leave
<1>14. ASSUME NEW r \in closing, CloseAsync(r)
      PROVE  NoneForgotten'
  BY <1>14 DEF CloseAsync
\* The bounds are reached, or nothing happens.
<1>15. CASE UNCHANGED vars
  BY <1>15 DEF vars
<1> QED
  BY <1>1, <1>2, <1>3, <1>4, <1>5, <1>6, <1>7, <1>8, <1>9, <1>10,
     <1>11, <1>12, <1>13, <1>14, <1>15
     DEF Next, Step, Rest

LEMMA FreshnessStep == FreshMtimes /\ IInv /\ [Next]_vars => Freshness'
<1> SUFFICES ASSUME FreshMtimes, IInv, [Next]_vars PROVE Freshness'
  OBVIOUS
<1> USE RootRegistryAssumption, NoneIsNew
    DEF IInv, TypeOK, File, Reg, Entry, Version, Goto, callVars, regVars,
        Freshness, Ticketing, Ownership
<1>1. ASSUME NEW p \in Paths, Edit(p)
      PROVE  Freshness'
  <2>1. PICK valid \in BOOLEAN, fresh \in {FreshMtimes, TRUE} :
          file' = [file EXCEPT ![p] =
                     [present |-> TRUE, ver |-> @.ver + 1, valid |-> valid,
                      mtime |-> IF fresh THEN @.ver + 1 ELSE @.mtime]]
    BY <1>1 DEF Edit
  <2>2. fresh = TRUE
    OBVIOUS
  <2>3. file' = [file EXCEPT ![p] =
                   [present |-> TRUE, ver |-> file[p].ver + 1, valid |-> valid,
                    mtime |-> file[p].ver + 1]]
    BY <2>1, <2>2, Zenon
  <2> QED
    BY <1>1, <2>3 DEF Edit
<1>2. ASSUME NEW p \in Paths, Remove(p)
      PROVE  Freshness'
  BY <1>2 DEF Remove
<1>3. ASSUME NEW c \in Callers, NEW p \in Paths, Call(c, p)
      PROVE  Freshness'
  BY <1>3 DEF Call
<1>4. ASSUME NEW c \in Callers, Stat(c)
      PROVE  Freshness'
  BY <1>4 DEF Stat
<1>5. ASSUME NEW c \in Callers, StatNotFound(c)
      PROVE  Freshness'
  BY <1>5 DEF StatNotFound, Leave
<1>6. ASSUME NEW c \in Callers, LookupHit(c)
      PROVE  Freshness'
  BY <1>6 DEF LookupHit, IsCached
<1>7. ASSUME NEW c \in Callers, LookupMiss(c)
      PROVE  Freshness'
  BY <1>7 DEF LookupMiss, IsCached
<1>8. ASSUME NEW c \in Callers, Load(c)
      PROVE  Freshness'
  BY <1>8 DEF Load
<1>9. ASSUME NEW c \in Callers, LoadFails(c)
      PROVE  Freshness'
  BY <1>9 DEF LoadFails, Leave
<1>10. ASSUME NEW c \in Callers, InstallLost(c)
      PROVE  Freshness'
  BY <1>10 DEF InstallLost, IsCached
<1>11. ASSUME NEW c \in Callers, Install(c)
      PROVE  Freshness'
  BY <1>11 DEF Install, IsCached
<1>12. ASSUME NEW c \in Callers, CloseOld(c)
      PROVE  Freshness'
  BY <1>12 DEF CloseOld
<1>13. ASSUME NEW c \in Callers, Done(c)
      PROVE  Freshness'
  BY <1>13 DEF Done, Leave
<1>14. ASSUME NEW r \in closing, CloseAsync(r)
      PROVE  Freshness'
  BY <1>14 DEF CloseAsync
\* The bounds are reached, or nothing happens.
<1>15. CASE UNCHANGED vars
  BY <1>15 DEF vars
<1> QED
  BY <1>1, <1>2, <1>3, <1>4, <1>5, <1>6, <1>7, <1>8, <1>9, <1>10,
     <1>11, <1>12, <1>13, <1>14, <1>15
     DEF Next, Step, Rest

LEMMA InvStep == IInv /\ [Next]_vars => IInv'
<1> SUFFICES ASSUME IInv, [Next]_vars PROVE IInv'
  OBVIOUS
<1>1. TypeOK'
  BY TypeStep DEF IInv
<1>2. Ticketing' /\ Ownership' /\ CachedIsNotRetired' /\ NoneForgotten'
  BY TicketingStep, OwnershipStep, CachedIsNotRetiredStep, NoneForgottenStep
<1>3. FreshMtimes => Freshness'
  BY FreshnessStep
<1> QED
  BY <1>1, <1>2, <1>3 DEF IInv

\* The inductive invariant of the resolver's registries.
THEOREM Invariance == Spec => []IInv
<1>1. Init => IInv
  BY InvInit
<1>2. IInv /\ [Next]_vars => IInv'
  BY InvStep
<1> QED
  BY <1>1, <1>2, PTL DEF Spec

\* A cached registry is not one that was handed to a closer: the loser of a
\* race closes its own registry, and a replaced one is no longer cached.
THEOREM CachedStaysOpen == Spec => []CachedIsNotRetired
<1>1. IInv => CachedIsNotRetired
  BY DEF IInv
<1> QED
  BY <1>1, Invariance, PTL

\* Every registry ever built is cached, retired, or in the hands of a call.
THEOREM NoRegistryIsLost == Spec => []NoneForgotten
<1>1. IInv => NoneForgotten
  BY DEF IInv
<1> QED
  BY <1>1, Invariance, PTL

\* An entry whose mtime is the file's was built from the content the file has.
THEOREM CoherentCache == FreshMtimes => (Spec => []CacheIsCoherent)
<1> SUFFICES ASSUME FreshMtimes PROVE Spec => []CacheIsCoherent
  OBVIOUS
<1>1. IInv => CacheIsCoherent
  <2> SUFFICES ASSUME IInv, NEW p \in Paths, regs[p] # None,
                      regs[p].mtime = file[p].mtime
               PROVE  regs[p].reg.ver = file[p].ver
    BY DEF CacheIsCoherent
  <2>1. /\ regs[p].mtime <= regs[p].reg.ver
        /\ regs[p].reg.ver <= file[p].ver
        /\ file[p].mtime = file[p].ver
    BY DEF IInv, Freshness
  <2>2. regs[p].reg.ver \in Nat /\ file[p].ver \in Nat
    BY RootRegistryAssumption DEF IInv, TypeOK, Entry, Reg, File, Version
  <2> QED
    BY <2>1, <2>2
<1> QED
  BY <1>1, Invariance, PTL

\* No call is answered with a config older than the file was at its start.
THEOREM FreshConfig == FreshMtimes => (Spec => []NoStaleConfig)
<1> SUFFICES ASSUME FreshMtimes PROVE Spec => []NoStaleConfig
  OBVIOUS
<1>1. IInv => NoStaleConfig
  BY DEF IInv, TypeOK, Reg, Version, Freshness, NoStaleConfig
<1> QED
  BY <1>1, Invariance, PTL

\* What replaces a newer config is cached under an mtime older than that config,
\* and so than the file: the entry is not served again.
THEOREM OlderIsReloaded == FreshMtimes => (Spec => OlderIsNoticed)
<1> SUFFICES ASSUME FreshMtimes PROVE Spec => OlderIsNoticed
  OBVIOUS
<1> DEFINE Noticed ==
      \A p \in Paths :
         regs[p] # None /\ regs'[p] # None /\ regs'[p].reg.ver < regs[p].reg.ver
            => regs'[p].mtime < file'[p].mtime
<1>1. IInv /\ [Next]_vars => [Noticed]_vars
  <2> SUFFICES ASSUME IInv, IInv', [Next]_vars, NEW p \in Paths, regs[p] # None, regs'[p] # None,
                      regs'[p].reg.ver < regs[p].reg.ver
               PROVE  regs'[p].mtime < file'[p].mtime
    BY InvStep
  <2>1. /\ file[p].mtime = file[p].ver /\ regs[p].reg.ver <= file[p].ver
        /\ regs'[p].mtime <= regs'[p].reg.ver
    BY DEF IInv, Freshness
  <2>2. /\ regs[p].reg.ver \in Nat /\ file[p].ver \in Nat
        /\ regs'[p].mtime \in Nat /\ regs'[p].reg.ver \in Nat
    BY RootRegistryAssumption DEF IInv, TypeOK, Entry, Reg, File, Version
  <2>3. regs' # regs
    BY <2>2
  <2>4. \E c \in Callers : Install(c)
    BY <2>3
    DEF Next, Step, Rest, Edit, Remove, Call, Stat, StatNotFound, LookupHit, LookupMiss, Load,
        LoadFails, InstallLost, CloseOld, Done, Leave, CloseAsync, vars, regVars
  <2>5. file' = file
    BY <2>4 DEF Install
  <2> QED
    BY <2>1, <2>2, <2>5
<1> QED
  BY <1>1, Invariance, PTL DEF Spec, OlderIsNoticed

\* What a call gets, from the cache or by its own install, is not retired when
\* it gets it; a call that has its registry keeps it until it ends.
LEMMA UserStep ==
    IInv /\ [Next]_vars => \A r \in Reg : Retired(r) => Users(r)' \subseteq Users(r)
<1> SUFFICES ASSUME IInv, [Next]_vars, NEW r \in Reg, Retired(r),
                    NEW c \in Callers, pc'[c] \in {"replace", "using"}, mine'[c] = r
             PROVE  pc[c] \in {"replace", "using"} /\ mine[c] = r
  BY DEF Users
<1> USE NoneIsNew
    DEF IInv, TypeOK, Entry, Goto, callVars, regVars, Ownership, CachedIsNotRetired
<1>1. ASSUME NEW d \in Callers, LookupHit(d) \/ InstallLost(d)
      PROVE  pc[c] \in {"replace", "using"} /\ mine[c] = r
  <2>1. path[d] \in Paths /\ regs[path[d]] # None
    BY <1>1 DEF LookupHit, InstallLost, IsCached
  <2>2. ~ Retired(regs[path[d]].reg) /\ mine' = [mine EXCEPT ![d] = regs[path[d]].reg]
    BY <1>1, <2>1 DEF LookupHit, InstallLost
  <2> QED
    BY <1>1, <2>2 DEF LookupHit, InstallLost
<1>2. ASSUME NEW d \in Callers, Install(d)
      PROVE  pc[c] \in {"replace", "using"} /\ mine[c] = r
  <2>1. ~ Retired(mine[d]) /\ mine' = mine
    BY <1>2 DEF Install
  <2> QED
    BY <1>2, <2>1 DEF Install
<1>3. ASSUME NEW d \in Callers,
             Stat(d) \/ StatNotFound(d) \/ LookupMiss(d) \/ Load(d) \/ LoadFails(d)
                \/ CloseOld(d) \/ Done(d)
      PROVE  pc[c] \in {"replace", "using"} /\ mine[c] = r
  BY <1>3 DEF Stat, StatNotFound, LookupMiss, Load, LoadFails, CloseOld, Done, Leave
<1>4. ASSUME NEW d \in Callers, NEW p \in Paths, Call(d, p)
      PROVE  pc[c] \in {"replace", "using"} /\ mine[c] = r
  BY <1>4 DEF Call
<1>5. CASE \/ \E p \in Paths : Edit(p) \/ Remove(p)
           \/ \E q \in closing : CloseAsync(q)
           \/ UNCHANGED vars
  BY <1>5 DEF Edit, Remove, CloseAsync, vars
<1> QED
  BY <1>1, <1>2, <1>3, <1>4, <1>5 DEF Next, Step, Rest

\* Once a registry is retired, the calls that have it only become fewer.
THEOREM RetiredIsOnItsWayOut == Spec => RetiredGainsNoUser
<1>1. IInv /\ [Next]_vars
        => [\A r \in Reg : Retired(r) => Users(r)' \subseteq Users(r)]_vars
  BY UserStep
<1> QED
  BY <1>1, Invariance, PTL DEF Spec, RetiredGainsNoUser

-----------------------------------------------------------------------------
\* RootRegistry implements ConfigView.

LEMMA ViewInit == Init => View!Init
  BY DEF Init, View!Init

\* A call is answered by the cache hit, the lost race or the install that gives
\* it its registry; all other steps of the call are invisible.
LEMMA ViewStep == FreshMtimes /\ IInv /\ [Next]_vars => [View!Next]_(View!viewVars)
<1> SUFFICES ASSUME FreshMtimes, IInv, [Next]_vars
             PROVE  [View!Next]_(View!viewVars)
  OBVIOUS
<1> DEFINE Current == [p \in Paths |-> file[p].ver]
           Got == [c \in Callers |-> IF pc[c] = "using" THEN mine[c].ver ELSE None]
<1> USE DEF View!viewVars, Goto, callVars, regVars
<1>0. TypeOK /\ Freshness /\ TypeOK' /\ Freshness'
  BY InvStep DEF IInv
<1>1. ASSUME file' = file PROVE Current' = Current
  BY <1>1
<1>2. ASSUME pc' = pc, mine' = mine PROVE Got' = Got
  BY <1>2
\* A step of c within its call: it becomes "using", or it does not.
<1>3. ASSUME NEW c \in Callers, NEW from, from \notin {"idle", "using"},
             Goto(c, from, "using"), \A d \in Callers : d # c => mine'[d] = mine[d],
             UNCHANGED <<file, path, floor>>
      PROVE  View!Answer(c)
  <2>1. path[c] # None /\ path[c] \in Paths /\ Got[c] = None
    BY <1>0, <1>3 DEF TypeOK
  <2>2. Got' = [Got EXCEPT ![c] = mine'[c].ver]
    BY <1>0, <1>3 DEF TypeOK
  <2>3. mine'[c] # None /\ path'[c] = path[c] /\ pc'[c] = "using"
    BY <1>0, <1>3 DEF TypeOK
  <2>4. mine'[c].ver \in floor[c]..Current[path[c]]
    BY <1>0, <1>3, <2>1, <2>3, RootRegistryAssumption
    DEF Freshness, TypeOK, Reg, File, Version
  <2> QED
    BY <1>1, <1>3, <2>1, <2>2, <2>4 DEF View!Answer
<1>4. ASSUME NEW c \in Callers, NEW from, NEW to,
             from # "using", to # "using",
             Goto(c, from, to), \A d \in Callers : d # c => mine'[d] = mine[d],
             UNCHANGED <<file, path, floor>>
      PROVE  UNCHANGED <<Current, path, floor, Got>>
  <2>1. Got' = Got
    BY <1>0, <1>4 DEF TypeOK
  <2> QED
    BY <1>1, <1>4, <2>1
<1>5. ASSUME NEW p \in Paths, Edit(p)
      PROVE  View!Edit(p)
  <2>1. PICK valid \in BOOLEAN, fresh \in {FreshMtimes, TRUE} :
          file' = [file EXCEPT ![p] =
                     [present |-> TRUE, ver |-> @.ver + 1, valid |-> valid,
                      mtime |-> IF fresh THEN @.ver + 1 ELSE @.mtime]]
    BY <1>5 DEF Edit
  <2>2. file'[p].ver = file[p].ver + 1 /\ \A q \in Paths \ {p} : file'[q] = file[q]
    BY <1>0, <2>1 DEF TypeOK
  <2>3. Current' = [Current EXCEPT ![p] = @ + 1]
    BY <2>2
  <2> QED
    BY <1>2, <1>5, <2>3 DEF Edit, View!Edit
<1>6. ASSUME NEW p \in Paths, Remove(p)
      PROVE  UNCHANGED <<Current, path, floor, Got>>
  <2>1. Current' = Current
    BY <1>0, <1>6 DEF Remove, TypeOK
  <2> QED
    BY <1>2, <1>6, <2>1 DEF Remove
<1>7. ASSUME NEW c \in Callers, NEW p \in Paths, Call(c, p)
      PROVE  View!Ask(c, p)
  <2>1. Got' = Got /\ path[c] = None
    BY <1>0, <1>7 DEF Call, TypeOK
  <2> QED
    BY <1>0, <1>1, <1>7, <2>1 DEF Call, View!Ask, TypeOK
<1>8. ASSUME NEW c \in Callers,
             LookupHit(c) \/ InstallLost(c) \/ CloseOld(c)
      PROVE  View!Answer(c)
  BY <1>0, <1>3, <1>8 DEF LookupHit, InstallLost, CloseOld, TypeOK
<1>9. ASSUME NEW c \in Callers, Install(c)
      PROVE  [View!Next]_(View!viewVars)
  <2>1. CASE regs[path[c]] = None
    <3>1. View!Answer(c)
      BY <1>3, <1>9, <2>1 DEF Install
    <3> QED
      BY <3>1 DEF View!Next
  <2>2. CASE regs[path[c]] # None
    BY <1>4, <1>9, <2>2 DEF Install
  <2> QED
    BY <2>1, <2>2
<1>10. ASSUME NEW c \in Callers, Stat(c) \/ LookupMiss(c) \/ Load(c)
       PROVE  UNCHANGED <<Current, path, floor, Got>>
  BY <1>0, <1>4, <1>10 DEF Stat, LookupMiss, Load, TypeOK
<1>11. ASSUME NEW c \in Callers, StatNotFound(c) \/ LoadFails(c) \/ Done(c)
       PROVE  View!Leave(c)
  <2>1. Got' = [Got EXCEPT ![c] = None] /\ path[c] # None
    BY <1>0, <1>11 DEF StatNotFound, LoadFails, Done, Leave, TypeOK
  <2> QED
    BY <1>1, <1>11, <2>1 DEF StatNotFound, LoadFails, Done, Leave, View!Leave
<1>12. CASE (\E r \in closing : CloseAsync(r)) \/ UNCHANGED vars
  BY <1>1, <1>2, <1>12 DEF CloseAsync, vars
<1> QED
  BY <1>5, <1>6, <1>7, <1>8, <1>9, <1>10, <1>11, <1>12
  DEF Next, Step, Rest, View!Next

\* What the callers of the resolver see is a config that was current at some
\* moment of their call.
THEOREM Refinement == FreshMtimes => (Spec => ImplementsView)
<1> SUFFICES ASSUME FreshMtimes PROVE Spec => ImplementsView
  OBVIOUS
<1>1. Init => View!Init
  BY ViewInit
<1>2. IInv /\ [Next]_vars => [View!Next]_(View!viewVars)
  BY ViewStep
<1> QED
  BY <1>1, <1>2, Invariance, PTL DEF Spec, ImplementsView, View!Spec
=============================================================================
