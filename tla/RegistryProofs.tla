--------------------------- MODULE RegistryProofs ---------------------------
(***************************************************************************)
(* Proofs about Registry.tla, for every set of callers and sources and     *)
(* every bound on the calls.  IInv is inductive; the safety properties,    *)
(* what Close leaves behind and the refinement of LazyPool follow from it. *)
(***************************************************************************)
EXTENDS Registry, TLAPS

LEMMA TypeInit == Init => TypeOK
  BY RegistryAssumption DEF Init, TypeOK, Handle, InConnect

\* Every step keeps the variables in their types.
LEMMA TypeStep == TypeOK /\ [Next]_vars => TypeOK'
<1> SUFFICES ASSUME TypeOK, [Next]_vars PROVE TypeOK'
  OBVIOUS
<1> USE RegistryAssumption, NoneIsNoHandle
    DEF TypeOK, Handle, InConnect, Mine, Cached, Goto, callVars, otherThanClose
<1>1. ASSUME NEW c \in Callers, NEW s \in Sources, Get(c, s)
      PROVE  TypeOK'
  BY <1>1 DEF Get
<1>2. ASSUME NEW c \in Callers, Hit(c)
      PROVE  TypeOK'
  BY <1>2 DEF Hit
<1>3. ASSUME NEW c \in Callers, Miss(c)
      PROVE  TypeOK'
  BY <1>3 DEF Miss
<1>4. ASSUME NEW c \in Callers, DialOk(c)
      PROVE  TypeOK'
  BY <1>4 DEF DialOk
<1>5. ASSUME NEW c \in Callers, DialFails(c)
      PROVE  TypeOK'
  BY <1>5 DEF DialFails, Fail
<1>6. ASSUME NEW c \in Callers, HandshakeOk(c)
      PROVE  TypeOK'
  BY <1>6 DEF HandshakeOk
<1>7. ASSUME NEW c \in Callers, HandshakeFails(c)
      PROVE  TypeOK'
  BY <1>7 DEF HandshakeFails, Fail
<1>8. ASSUME NEW c \in Callers, ConnectOk(c)
      PROVE  TypeOK'
  BY <1>8 DEF ConnectOk
<1>9. ASSUME NEW c \in Callers, ConnectFails(c)
      PROVE  TypeOK'
  BY <1>9 DEF ConnectFails
<1>10. ASSUME NEW c \in Callers, PingOk(c)
      PROVE  TypeOK'
  BY <1>10 DEF PingOk
<1>11. ASSUME NEW c \in Callers, PingFails(c)
      PROVE  TypeOK'
  BY <1>11 DEF PingFails
<1>12. ASSUME NEW c \in Callers, Undo(c)
      PROVE  TypeOK'
  BY <1>12 DEF Undo, Fail
<1>13. ASSUME NEW c \in Callers, Done(c)
      PROVE  TypeOK'
  BY <1>13 DEF Done
<1>14. CASE CloseCall
  BY <1>14 DEF CloseCall
<1>15. CASE CloseLock
  BY <1>15 DEF CloseLock
<1>16. ASSUME NEW s \in Sources, Disconnect(s)
      PROVE  TypeOK'
  BY <1>16 DEF Disconnect
<1>17. ASSUME NEW s \in Sources, TearDown(s)
      PROVE  TypeOK'
  BY <1>17 DEF TearDown
<1>18. CASE CloseReturn
  BY <1>18 DEF CloseReturn
\* The bound is reached, or nothing happens.
<1>19. CASE UNCHANGED vars
  BY <1>19 DEF vars
<1> QED
  BY <1>1, <1>2, <1>3, <1>4, <1>5, <1>6, <1>7, <1>8, <1>9, <1>10,
     <1>11, <1>12, <1>13, <1>14, <1>15, <1>16, <1>17, <1>18, <1>19
     DEF Next, Acquire, Dialing, Handshaking, Connecting, Closing, Rest

\* The type invariant of the registry holds in every behaviour.
THEOREM TypeCorrect == Spec => []TypeOK
<1>1. Init => TypeOK
  BY TypeInit
<1>2. TypeOK /\ [Next]_vars => TypeOK'
  BY TypeStep
<1> QED
  BY <1>1, <1>2, PTL DEF Spec

-----------------------------------------------------------------------------

LEMMA InvInit == Init => IInv
<1> SUFFICES ASSUME Init PROVE IInv
  OBVIOUS
<1>1. TypeOK
  BY TypeInit
<1>2. HolderIsInside /\ Construction
  BY RegistryAssumption DEF Init, HolderIsInside, Construction, InConnect
<1>3. Cached = {}
  BY DEF Init, Cached
<1> QED
  BY <1>1, <1>2, <1>3
  DEF Init, IInv, CachedUnderItsName, NothingLeaks, TunnelOutlivesClient,
      CachedIsConnected, LentIsCached

\* The mutex makes the invariant inductive: whoever changes clients, tunnels
\* or sources holds it, so at most one Source object is under construction,
\* and its name is not cached.
LEMMA InvStep == IInv /\ [Next]_vars => IInv'
<1> SUFFICES ASSUME IInv, [Next]_vars PROVE IInv'
  OBVIOUS
<1> USE RegistryAssumption, NoneIsNoHandle
    DEF TypeOK, Handle, InConnect, Mine, Cached, Goto, callVars, otherThanClose,
        IInv, HolderIsInside, CachedUnderItsName, Construction, NothingLeaks,
        UnderConstruction, TunnelOutlivesClient, CachedIsConnected, LentIsCached
<1>0. TypeOK'
  BY TypeStep
<1>1. ASSUME NEW c \in Callers, NEW s \in Sources, Get(c, s)
      PROVE  IInv'
  BY <1>0, <1>1 DEF Get
<1>2. ASSUME NEW c \in Callers, Hit(c)
      PROVE  IInv'
  BY <1>0, <1>2 DEF Hit
<1>3. ASSUME NEW c \in Callers, Miss(c)
      PROVE  IInv'
  BY <1>0, <1>3 DEF Miss
<1>4. ASSUME NEW c \in Callers, DialOk(c)
      PROVE  IInv'
  BY <1>0, <1>4 DEF DialOk
<1>5. ASSUME NEW c \in Callers, DialFails(c)
      PROVE  IInv'
  BY <1>0, <1>5 DEF DialFails, Fail
<1>6. ASSUME NEW c \in Callers, HandshakeOk(c)
      PROVE  IInv'
  BY <1>0, <1>6 DEF HandshakeOk
<1>7. ASSUME NEW c \in Callers, HandshakeFails(c)
      PROVE  IInv'
  BY <1>0, <1>7 DEF HandshakeFails, Fail
<1>8. ASSUME NEW c \in Callers, ConnectOk(c)
      PROVE  IInv'
  BY <1>0, <1>8 DEF ConnectOk
<1>9. ASSUME NEW c \in Callers, ConnectFails(c)
      PROVE  IInv'
  BY <1>0, <1>9 DEF ConnectFails
<1>10. ASSUME NEW c \in Callers, PingOk(c)
      PROVE  IInv'
  BY <1>0, <1>10 DEF PingOk
<1>11. ASSUME NEW c \in Callers, PingFails(c)
      PROVE  IInv'
  BY <1>0, <1>11 DEF PingFails
<1>12. ASSUME NEW c \in Callers, Undo(c)
      PROVE  IInv'
  BY <1>0, <1>12 DEF Undo, Fail
<1>13. ASSUME NEW c \in Callers, Done(c)
      PROVE  IInv'
  BY <1>0, <1>13 DEF Done
<1>14. CASE CloseCall
  BY <1>0, <1>14 DEF CloseCall
<1>15. CASE CloseLock
  BY <1>0, <1>15 DEF CloseLock
<1>16. ASSUME NEW s \in Sources, Disconnect(s)
      PROVE  IInv'
  BY <1>0, <1>16 DEF Disconnect
<1>17. ASSUME NEW s \in Sources, TearDown(s)
      PROVE  IInv'
  BY <1>0, <1>17, SMTT(20) DEF TearDown
<1>18. CASE CloseReturn
  BY <1>0, <1>18 DEF CloseReturn
\* The bound is reached, or nothing happens.
<1>19. CASE UNCHANGED vars
  BY <1>0, <1>19 DEF vars
<1> QED
  BY <1>1, <1>2, <1>3, <1>4, <1>5, <1>6, <1>7, <1>8, <1>9, <1>10,
     <1>11, <1>12, <1>13, <1>14, <1>15, <1>16, <1>17, <1>18, <1>19
     DEF Next, Acquire, Dialing, Handshaking, Connecting, Closing, Rest

\* The inductive invariant of the registry holds in every behaviour.
THEOREM Invariance == Spec => []IInv
<1>1. Init => IInv
  BY InvInit
<1>2. IInv /\ [Next]_vars => IInv'
  BY InvStep
<1> QED
  BY <1>1, <1>2, PTL DEF Spec

\* Whatever is open is cached or being built by the holder of the mutex: no
\* error path of connect and no step of Close loses a client or a tunnel.
THEOREM LeakFree == Spec => []NothingLeaks
<1>1. IInv => NothingLeaks
  BY DEF IInv
<1> QED
  BY <1>1, Invariance, PTL

\* No client of a tunnelled source is connected without its tunnel.
THEOREM TunnelsLast == Spec => []TunnelOutlivesClient
<1>1. IInv => TunnelOutlivesClient
  BY DEF IInv
<1> QED
  BY <1>1, Invariance, PTL

\* A lent connection is cached, and until Close starts the cached ones are
\* connected.
THEOREM LentSafe == Spec => []LentStaysConnected
<1>1. IInv => LentStaysConnected
  BY DEF IInv, LentIsCached, CachedIsConnected, LentStaysConnected
<1> QED
  BY <1>1, Invariance, PTL

\* Two connected clients of one source would both be cached under its name,
\* or one of them would be under construction although its name is cached.
LEMMA OneClient == IInv => OneClientPerSource
<1> SUFFICES ASSUME IInv, NEW h \in clients, NEW k \in clients, h.name = k.name
             PROVE  h = k
  BY DEF OneClientPerSource
<1>1. /\ h \in Cached \/ UnderConstruction(h)
      /\ k \in Cached \/ UnderConstruction(k)
  BY DEF IInv, NothingLeaks
<1>2. ASSUME NEW x \in Cached
      PROVE  x.name \in Sources /\ sources[x.name] = x /\ x # None
  BY DEF IInv, Cached, CachedUnderItsName
<1>3. ASSUME NEW x, UnderConstruction(x)
      PROVE  /\ sources[x.name] = None
             /\ \E c \in Callers : mu = c /\ x = Mine(c)
  BY <1>3 DEF IInv, Construction, UnderConstruction, Mine
<1>4. CASE h \in Cached /\ k \in Cached
  BY <1>2, <1>4
<1>5. CASE UnderConstruction(h) /\ UnderConstruction(k)
  BY <1>3, <1>5
<1>6. CASE (h \in Cached /\ UnderConstruction(k)) \/ (k \in Cached /\ UnderConstruction(h))
  BY <1>2, <1>3, <1>6
<1> QED
  BY <1>1, <1>4, <1>5, <1>6

\* At most one client of a source is connected at any time.
THEOREM OneClientAlways == Spec => []OneClientPerSource
  BY OneClient, Invariance, PTL

\* When Close returns it holds the mutex, so nothing is under construction,
\* and its loop left nothing cached: no client and no tunnel is open.
THEOREM CloseReleases == Spec => CloseReleasesAll
<1>1. ASSUME IInv, [Next]_vars, closer = "closing", closer' = "closed"
      PROVE  clients' = {} /\ tunnels' = {}
  <2>1. CloseReturn
    BY <1>1
    DEF Next, vars, Acquire, Dialing, Handshaking, Connecting, Closing, Rest,
        Get, Hit, Miss, Fail, DialOk, DialFails, HandshakeOk, HandshakeFails,
        ConnectOk, ConnectFails, PingOk, PingFails, Undo, Done,
        CloseCall, CloseLock, Disconnect, TearDown
  <2>2. Cached = {} /\ clients' = clients /\ tunnels' = tunnels
    BY <2>1 DEF CloseReturn
  <2>3. mu = Closer
    BY <1>1 DEF IInv, HolderIsInside
  <2>4. ASSUME NEW h PROVE ~ UnderConstruction(h)
    BY <2>3, RegistryAssumption DEF UnderConstruction
  <2> QED
    BY <1>1, <2>2, <2>4 DEF IInv, NothingLeaks
<1>2. IInv /\ [Next]_vars =>
        [closer = "closing" /\ closer' = "closed" => clients' = {} /\ tunnels' = {}]_vars
  BY <1>1
<1> QED
  BY <1>2, Invariance, PTL DEF Spec, CloseReleasesAll

-----------------------------------------------------------------------------
\* Registry implements LazyPool.

LEMMA PoolInit == Init => Pool!Init
  BY DEF Init, Pool!Init, Cached

\* Opening is the ping that succeeds, lending is a hit, and what a Close tears
\* down is dropped; the steps in between are invisible to the callers.
LEMMA PoolStep == IInv /\ [Next]_vars => [Pool!Next]_(Pool!poolVars)
<1> SUFFICES ASSUME IInv, [Next]_vars PROVE [Pool!Next]_(Pool!poolVars)
  OBVIOUS
<1> USE DEF Pool!poolVars
<1>1. ASSUME sources' = sources PROVE Cached' = Cached
  BY <1>1 DEF Cached
<1>2. ASSUME NEW c \in Callers, NEW s \in Sources, Get(c, s)
      PROVE  Pool!Ask(c, s)
  BY <1>1, <1>2 DEF Get, Goto, Pool!Ask, IInv, TypeOK
<1>3. ASSUME NEW c \in Callers, Hit(c)
      PROVE  Pool!Lend(c)
  BY <1>1, <1>3, ZenonT(60)
     DEF Hit, Goto, callVars, Pool!Lend, Pool!Waiting, IInv, TypeOK,
         CachedUnderItsName, Cached
<1>4. ASSUME NEW c \in Callers, PingOk(c)
      PROVE  Pool!Open(c)
  <2> USE DEF IInv, TypeOK, PingOk, Goto, callVars, Mine, Handle, InConnect, Construction
  <2>1. Mine(c) \in Handle /\ Mine(c) # None /\ want[c] \in Sources /\ Pool!Waiting(c)
    BY <1>4, NoneIsNoHandle DEF Pool!Waiting
  <2>2. sources[want[c]] = None
    BY <1>4
  <2>3. Cached' = Cached \cup {Mine(c)}
    BY <1>4, <2>1, <2>2 DEF Cached
  <2>4. \A j \in Cached : j.name # want[c]
    BY <2>2 DEF Cached, CachedUnderItsName
  <2> QED
    BY <1>4, <2>1, <2>3, <2>4 DEF Pool!Open
<1>5. ASSUME NEW c \in Callers,
             DialFails(c) \/ HandshakeFails(c) \/ Undo(c) \/ Done(c)
      PROVE  Pool!Leave(c)
  BY <1>1, <1>5 DEF DialFails, HandshakeFails, Undo, Done, Fail, Goto, Pool!Leave,
                    IInv, TypeOK, InConnect
<1>6. ASSUME NEW s \in Sources, TearDown(s)
      PROVE  Pool!Drop
  <2>1. Cached' = Cached \ {sources[s]}
    BY <1>6 DEF TearDown, Cached, IInv, TypeOK, CachedUnderItsName
  <2> QED
    BY <1>6, <2>1 DEF TearDown, otherThanClose, callVars, Pool!Drop
<1>7. CASE \/ \E c \in Callers :
              \/ Miss(c) \/ DialOk(c) \/ HandshakeOk(c)
              \/ ConnectOk(c) \/ ConnectFails(c) \/ PingFails(c)
           \/ CloseCall \/ CloseLock \/ CloseReturn
           \/ \E s \in Sources : Disconnect(s)
           \/ UNCHANGED vars
  BY <1>1, <1>7
  DEF Miss, DialOk, HandshakeOk, ConnectOk, ConnectFails, PingFails,
      CloseCall, CloseLock, CloseReturn, Disconnect, vars, callVars, otherThanClose
<1> QED
  BY <1>2, <1>3, <1>4, <1>5, <1>6, <1>7
  DEF Pool!Next, Next, Acquire, Dialing, Handshaking, Connecting, Closing, Rest

\* What the callers of a registry see is a pool that opens at most one
\* connection per source and lends only those of the source asked for.
THEOREM Refinement == Spec => ImplementsPool
<1>1. Init => Pool!Init
  BY PoolInit
<1>2. IInv /\ [Next]_vars => [Pool!Next]_(Pool!poolVars)
  BY PoolStep
<1> QED
  BY <1>1, <1>2, Invariance, PTL DEF Spec, ImplementsPool, Pool!Spec

-----------------------------------------------------------------------------
\* Every source of a registry is a Connection.

\* What a caller does is seen at its own source.
LEMMA AtOfOthers ==
  ASSUME TypeOK, NEW s \in Sources, NEW c \in Callers,
         \A d \in Callers : d # c => pc'[d] = pc[d] /\ want'[d] = want[d]
  PROVE  [d \in Callers |-> At(d, s)]' = [[d \in Callers |-> At(d, s)] EXCEPT ![c] = At(c, s)']
<1>1. \A d \in Callers : d # c => At(d, s)' = At(d, s)
  BY DEF At
<1> QED
  BY <1>1

LEMMA ConnectionInit ==
  ASSUME Init, NEW s \in Sources
  PROVE  SourceOf(s)!Init
<1>1. \A c \in Callers : At(c, s) = "none"
  BY RegistryAssumption DEF Init, At
<1> QED
  BY <1>1 DEF Init, SourceOf!Init

\* Of a call that asks for the source all is seen but the stages of its connect;
\* of the others, that they hold the mutex.
LEMMA ConnectionOfCall ==
  ASSUME IInv, NEW s \in Sources, NEW c \in Callers,
         Acquire(c) \/ Dialing(c) \/ Handshaking(c) \/ Connecting(c) \/ Done(c)
  PROVE  SourceOf(s)!Next \/ UNCHANGED SourceOf(s)!connectionVars
<1> DEFINE at == [d \in Callers |-> At(d, s)]
<1> USE DEF Goto, InConnect, callVars
<1>a. TypeOK
  BY DEF IInv
<1>b. /\ pc[c] \in InConnect <=> mu = c
      /\ pc[c] \in InConnect => sources[want[c]] = None
      /\ want[c] # None => want[c] \in Sources
      /\ pc[c] # "idle" => want[c] # None
  BY DEF IInv, HolderIsInside, Construction, TypeOK
<1>1. CASE Hit(c)
  <2>1. /\ pc[c] = "locking" /\ pc' = [pc EXCEPT ![c] = "using"]
        /\ mu = Nobody /\ sources[want[c]] \in clients
        /\ UNCHANGED <<mu, sources, clients, want>>
    <3>1. sources[want[c]] \in Cached /\ mu # Closer
      BY <1>1, <1>a, RegistryAssumption DEF Hit, Cached, TypeOK
    <3>2. Cached \subseteq clients
      BY <3>1 DEF IInv, HolderIsInside, CachedIsConnected
    <3> QED
      BY <1>1, <3>1, <3>2 DEF Hit
  <2>2. at' = [at EXCEPT ![c] = At(c, s)']
    BY <1>a, <2>1, AtOfOthers DEF TypeOK
  <2>3. CASE want[c] = s
    <3>1. At(c, s) = "locking" /\ At(c, s)' = "operating"
      BY <1>a, <2>1, <2>3 DEF At, TypeOK
    <3> QED
      BY <2>1, <2>2, <2>3, <3>1 DEF SourceOf!Hit, SourceOf!Goto, SourceOf!Next
  <2>4. CASE want[c] # s
    <3>1. at' = at
      BY <2>1, <2>2, <2>4 DEF At
    <3> QED
      BY <2>1, <3>1 DEF SourceOf!connectionVars
  <2> QED
    BY <2>3, <2>4
<1>2. CASE Miss(c)
  <2>1. /\ pc[c] = "locking" /\ \E x \in InConnect : pc' = [pc EXCEPT ![c] = x]
        /\ mu = Nobody /\ mu' = c /\ sources[want[c]] \notin clients
        /\ UNCHANGED <<sources, clients, want>>
    BY <1>2, <1>a, NoneIsNoHandle DEF Miss, TypeOK
  <2>2. at' = [at EXCEPT ![c] = At(c, s)']
    BY <1>a, <2>1, AtOfOthers DEF TypeOK
  <2>3. CASE want[c] = s
    <3>1. At(c, s) = "locking" /\ At(c, s)' = "connecting"
      BY <1>a, <2>1, <2>3 DEF At, TypeOK
    <3> QED
      BY <2>1, <2>2, <2>3, <3>1 DEF SourceOf!Miss, SourceOf!Locks, SourceOf!Goto, SourceOf!Next
  <2>4. CASE want[c] # s
    <3>1. at' = at /\ At(c, s) = "none"
      BY <2>1, <2>2, <2>4 DEF At
    <3> QED
      BY <2>1, <3>1 DEF SourceOf!Elsewhere, SourceOf!Locks, SourceOf!Next
  <2> QED
    BY <2>3, <2>4
<1>3. CASE DialOk(c) \/ HandshakeOk(c) \/ ConnectOk(c) \/ ConnectFails(c) \/ PingFails(c)
  <2>1. /\ pc[c] \in InConnect /\ \E x \in InConnect : pc' = [pc EXCEPT ![c] = x]
        /\ clients' \in {clients, clients \cup {Mine(c)}, clients \ {Mine(c)}}
        /\ pc[c] # "pinging" => clients \subseteq clients'
        /\ UNCHANGED <<mu, sources, want>>
    BY <1>3, <1>a DEF DialOk, HandshakeOk, ConnectOk, ConnectFails, PingFails
  <2>2. sources[s] # Mine(c)
    BY <1>b, <2>1, NoneIsNoHandle DEF IInv, TypeOK, CachedUnderItsName, Mine, Handle
  <2>3. (sources[s] \in clients)' = (sources[s] \in clients)
    BY <2>1, <2>2
  <2>4. at' = at
    BY <1>a, <2>1 DEF At, TypeOK
  <2> QED
    BY <2>1, <2>3, <2>4 DEF SourceOf!connectionVars
<1>4. CASE DialFails(c) \/ HandshakeFails(c) \/ Undo(c)
  <2>1. /\ pc[c] \in InConnect /\ pc' = [pc EXCEPT ![c] = "idle"]
        /\ want' = [want EXCEPT ![c] = None] /\ mu' = Nobody
        /\ UNCHANGED <<sources, clients>>
    BY <1>4 DEF DialFails, HandshakeFails, Undo, Fail
  <2>2. mu = c /\ want[c] # None /\ want'[c] = None
    BY <1>a, <1>b, <2>1 DEF TypeOK
  <2>3. at' = [at EXCEPT ![c] = At(c, s)']
    BY <1>a, <2>1, AtOfOthers DEF TypeOK
  <2>4. At(c, s)' = "none"
    BY <2>2, RegistryAssumption DEF At
  <2>5. CASE want[c] = s
    <3>1. At(c, s) = "connecting"
      BY <2>1, <2>5 DEF At
    <3> QED
      BY <2>1, <2>2, <2>3, <2>4, <3>1
      DEF SourceOf!Fails, SourceOf!Unlocks, SourceOf!Goto, SourceOf!Next
  <2>6. CASE want[c] # s
    <3>1. At(c, s) = "none"
      BY <2>6 DEF At
    <3>2. at' = at
      BY <2>3, <2>4, <3>1
    <3> QED
      BY <2>1, <2>2, <3>1, <3>2 DEF SourceOf!Elsewhere, SourceOf!Unlocks, SourceOf!Next
  <2> QED
    BY <2>5, <2>6
<1>5. CASE PingOk(c)
  <2>1. /\ pc[c] = "pinging" /\ pc' = [pc EXCEPT ![c] = "using"]
        /\ sources' = [sources EXCEPT ![want[c]] = Mine(c)] /\ mu' = Nobody
        /\ UNCHANGED <<clients, want>>
    BY <1>5 DEF PingOk
  <2>2. mu = c /\ Mine(c) \in clients
    BY <1>b, <2>1 DEF IInv, Construction
  <2>3. at' = [at EXCEPT ![c] = At(c, s)']
    BY <1>a, <2>1, AtOfOthers DEF TypeOK
  <2>4. CASE want[c] = s
    <3>1. At(c, s) = "connecting" /\ At(c, s)' = "operating"
      BY <1>a, <2>1, <2>4 DEF At, TypeOK
    <3>2. (sources[s] \in clients)'
      BY <1>a, <2>1, <2>2, <2>4 DEF TypeOK
    <3> QED
      BY <2>1, <2>2, <2>3, <3>1, <3>2
      DEF SourceOf!Connected, SourceOf!Unlocks, SourceOf!Goto, SourceOf!Next
  <2>5. CASE want[c] # s
    <3>1. At(c, s) = "none" /\ At(c, s)' = "none"
      BY <2>1, <2>5 DEF At
    <3>2. at' = at /\ sources'[s] = sources[s]
      BY <1>a, <2>1, <2>3, <2>5, <3>1 DEF TypeOK
    <3> QED
      BY <2>1, <2>2, <3>1, <3>2 DEF SourceOf!Elsewhere, SourceOf!Unlocks, SourceOf!Next
  <2> QED
    BY <2>4, <2>5
<1>6. CASE Done(c)
  <2>1. /\ pc[c] = "using" /\ pc' = [pc EXCEPT ![c] = "idle"]
        /\ want' = [want EXCEPT ![c] = None]
        /\ UNCHANGED <<mu, sources, clients>>
    BY <1>6 DEF Done
  <2>2. At(c, s)' = "none"
    BY <1>a, <2>1, RegistryAssumption DEF At, TypeOK
  <2>3. at' = [at EXCEPT ![c] = At(c, s)']
    BY <1>a, <2>1, AtOfOthers DEF TypeOK
  <2>4. CASE want[c] = s
    <3>1. At(c, s) = "operating"
      BY <2>1, <2>4 DEF At
    <3> QED
      BY <2>1, <2>2, <2>3, <3>1 DEF SourceOf!Leave, SourceOf!Goto, SourceOf!Next
  <2>5. CASE want[c] # s
    <3>1. At(c, s) = "none"
      BY <2>5 DEF At
    <3>2. at' = at
      BY <2>2, <2>3, <3>1
    <3> QED
      BY <2>1, <3>2 DEF SourceOf!connectionVars
  <2> QED
    BY <2>4, <2>5
<1> QED
  BY <1>1, <1>2, <1>3, <1>4, <1>5, <1>6 DEF Acquire, Dialing, Handshaking, Connecting

\* Close is seen where it disconnects the source, and where it ends.
LEMMA ConnectionOfClose ==
  ASSUME IInv, NEW s \in Sources, CloseCall \/ Closing
  PROVE  SourceOf(s)!Next \/ UNCHANGED SourceOf(s)!connectionVars
<1> USE DEF SourceOf!connectionVars, otherThanClose, callVars
<1>a. \A c \in Callers : At(c, s)' = At(c, s)
  BY DEF At, Closing, CloseCall, CloseLock, Disconnect, TearDown, CloseReturn
<1>1. CASE CloseCall
  BY <1>1, <1>a DEF CloseCall
<1>2. CASE CloseLock
  BY <1>2, <1>a DEF CloseLock, SourceOf!CloseLocks, SourceOf!Locks, SourceOf!Next
<1>3. ASSUME NEW t \in Sources, Disconnect(t) \/ TearDown(t)
      PROVE  SourceOf(s)!Next \/ UNCHANGED SourceOf(s)!connectionVars
  <2>1. mu = Closer /\ mu' = mu
    BY <1>3 DEF Disconnect, TearDown, IInv, HolderIsInside
  <2>2. CASE t = s
    <3>1. ~ (sources[s] \in clients)'
      BY <1>3, <2>2, NoneIsNoHandle DEF Disconnect, TearDown, IInv, TypeOK
    <3> QED
      BY <1>a, <2>1, <3>1 DEF SourceOf!CloseGoesOn, SourceOf!Next
  <2>3. CASE t # s
    <3>1. sources[t] # None /\ sources'[s] = sources[s]
      BY <1>3, <2>3 DEF Disconnect, TearDown, Cached, IInv, TypeOK
    <3>2. sources[t] # sources[s]
      BY <2>3, <3>1 DEF IInv, CachedUnderItsName
    <3>3. (sources[s] \in clients)' = (sources[s] \in clients)
      BY <1>3, <3>1, <3>2 DEF Disconnect, TearDown
    <3> QED
      BY <1>a, <2>1, <3>3
  <2> QED
    BY <2>2, <2>3
<1>4. CASE CloseReturn
  <2>1. sources[s] = None /\ mu = Closer
    BY <1>4 DEF CloseReturn, Cached, IInv, HolderIsInside
  <2>2. ~ (sources[s] \in clients)'
    BY <1>4, <2>1, NoneIsNoHandle DEF CloseReturn, IInv, TypeOK
  <2> QED
    BY <1>4, <1>a, <2>1, <2>2 DEF CloseReturn, SourceOf!CloseGoesOn, SourceOf!Next
<1> QED
  BY <1>1, <1>2, <1>3, <1>4 DEF Closing

LEMMA ConnectionStep ==
  ASSUME IInv, [Next]_vars, NEW s \in Sources
  PROVE  [SourceOf(s)!Next]_(SourceOf(s)!connectionVars)
<1>1. ASSUME NEW c \in Callers, NEW t \in Sources, Get(c, t)
      PROVE  SourceOf(s)!Next \/ UNCHANGED SourceOf(s)!connectionVars
  <2>a. TypeOK
    BY DEF IInv
  <2>1. /\ pc[c] = "idle" /\ pc' = [pc EXCEPT ![c] = "locking"]
        /\ want[c] = None /\ want' = [want EXCEPT ![c] = t]
        /\ UNCHANGED <<mu, sources, clients>>
    BY <1>1, <2>a DEF Get, Goto, TypeOK
  <2>2. [d \in Callers |-> At(d, s)]' = [[d \in Callers |-> At(d, s)] EXCEPT ![c] = At(c, s)']
    BY <2>a, <2>1, AtOfOthers DEF TypeOK
  <2>3. At(c, s) = "none" /\ At(c, s)' = IF t = s THEN "locking" ELSE "none"
    BY <2>a, <2>1, RegistryAssumption DEF At, TypeOK, InConnect
  <2> QED
    BY <2>1, <2>2, <2>3 DEF SourceOf!Get, SourceOf!Goto, SourceOf!Next, SourceOf!connectionVars
<1>2. CASE UNCHANGED vars
  BY <1>2 DEF vars, At, SourceOf!connectionVars
<1> QED
  BY <1>1, <1>2, ConnectionOfCall, ConnectionOfClose DEF Next, Rest

\* What the goroutines that share a registry do to each other at one of its
\* sources is what Connection allows them.
THEOREM SourceIsConnection ==
  ASSUME NEW s \in Sources
  PROVE  Spec => SourceOf(s)!Spec
<1>1. Init => SourceOf(s)!Init
  BY ConnectionInit
<1>2. IInv /\ [Next]_vars => [SourceOf(s)!Next]_(SourceOf(s)!connectionVars)
  BY ConnectionStep
<1> QED
  BY <1>1, <1>2, Invariance, PTL DEF Spec, SourceOf!Spec
=============================================================================
