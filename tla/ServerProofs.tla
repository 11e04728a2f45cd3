---------------------------- MODULE ServerProofs ----------------------------
(***************************************************************************)
(* Proofs about Server.tla, for any number of requests and signals, and    *)
(* any config files.                                                       *)
(***************************************************************************)
EXTENDS Server, RootsProofs

\* A file that loads has a source, the default config has none.
LEMMA LoadedHasSources ==
  ASSUME ReadConfig # None
  PROVE  DOMAIN ReadConfig.sources # {}
  BY DEF ReadConfig, Loaded, Validate

LEMMA InvInit == Init => Inv
<1> SUFFICES ASSUME Init PROVE Inv
  OBVIOUS
<1>1. ServerTypeOK
  <2>1. MainTypeOK
    <3>1. 0 \in 0..MaxSignals
      BY ServerAssumption
    <3> QED
      BY <3>1 DEF Init, MainTypeOK
  <2>2. RequestTypeOK
    BY ServerAssumption DEF Init, RequestTypeOK
  <2> QED
    BY <2>1, <2>2 DEF ServerTypeOK
<1>2. HolderIsAtWork
  BY ServerAssumption DEF Init, HolderIsAtWork
<1>3. BaseIsThere /\ \A q \in Requests : TargetFits(q)
  BY DEF Init, BaseIsThere, TargetFits
<1>4. RootsOnlyOnlyIfMissing /\ ClosedOrLate /\ ExitReleasesBase
  BY DEF Init, RootsOnlyOnlyIfMissing, ClosedOrLate, ExitReleasesBase
<1> QED
  BY <1>1, <1>2, <1>3, <1>4 DEF Init, Inv

-----------------------------------------------------------------------------

\* Up to the transport nothing is open and nobody asks.
LEMMA StartStep ==
  ASSUME Inv, Start
  PROVE  Inv'
<1> USE ServerAssumption DEF Inv, ServerTypeOK, MainTypeOK, RequestTypeOK, HolderIsAtWork, TargetFits, RootsOnlyOnlyIfMissing,
        BaseIsThere, ClosedOrLate, ExitReleasesBase, flags, requestVars
<1>1. CASE LoadConfig
  BY <1>1, LoadedHasSources DEF LoadConfig, HasBase
<1>2. CASE RootsOnly
  BY <1>2 DEF RootsOnly, HasBase
<1>3. CASE LoadFails
  BY <1>3 DEF LoadFails, HasBase
<1>4. CASE Wire
  BY <1>4 DEF Wire, HasBase
<1> QED
  BY <1>1, <1>2, <1>3, <1>4 DEF Start

LEMMA TransportStep ==
  ASSUME Inv, Transport \/ ListenerUp \/ ListenerFails
  PROVE  Inv'
<1> USE DEF Inv, ServerTypeOK, MainTypeOK, RequestTypeOK, HolderIsAtWork, TargetFits, RootsOnlyOnlyIfMissing,
        BaseIsThere, ClosedOrLate, ExitReleasesBase, flags, requestVars, HasBase, Return
<1>1. CASE UnknownTransport
  BY <1>1 DEF UnknownTransport
<1>2. CASE StdioEnds
  BY <1>2 DEF StdioEnds
<1>3. CASE ListenerEnds
  BY <1>3, ZenonT(60) DEF ListenerEnds
<1>4. CASE Shutdown
  BY <1>4 DEF Shutdown
<1>5. CASE Drained
  BY <1>5 DEF Drained
<1>6. CASE ShutdownTimesOut
  BY <1>6 DEF ShutdownTimesOut
<1>7. CASE ListenerUp
  BY <1>7 DEF ListenerUp
<1>8. CASE ListenerFails
  BY <1>8 DEF ListenerFails
<1> QED
  BY <1>1, <1>2, <1>3, <1>4, <1>5, <1>6, <1>7, <1>8 DEF Transport

\* The deferred Close excludes connects, and a signal leaves things as they are.
LEMMA CloseStep ==
  ASSUME Inv, Deferred \/ CloseLocks \/ Signal
  PROVE  Inv'
<1> USE ServerAssumption DEF Inv, ServerTypeOK, MainTypeOK, RequestTypeOK, HolderIsAtWork, TargetFits, RootsOnlyOnlyIfMissing,
        BaseIsThere, ClosedOrLate, ExitReleasesBase, flags, requestVars, HasBase
<1>1. CASE Stop
  <2>1. ServerTypeOK'
    <3>1. MainTypeOK'
      BY <1>1 DEF Stop
    <3>2. RequestTypeOK'
      BY <1>1 DEF Stop
    <3> QED
      BY <3>1, <3>2
  <2>2. HolderIsAtWork' /\ BaseIsThere' /\ ClosedOrLate'
    BY <1>1 DEF Stop
  <2>3. RootsOnlyOnlyIfMissing'
    BY <1>1 DEF Stop
  <2>4. ExitReleasesBase'
    BY <1>1 DEF Stop
  <2> QED
    BY <1>1, <2>1, <2>2, <2>3, <2>4 DEF Stop
<1>2. CASE CloseEnds
  <2>1. ServerTypeOK'
    <3>1. MainTypeOK'
      BY <1>2 DEF CloseEnds
    <3>2. RequestTypeOK'
      BY <1>2 DEF CloseEnds
    <3> QED
      BY <3>1, <3>2
  <2>2. HolderIsAtWork'
    BY <1>2 DEF CloseEnds
  <2>3. BaseIsThere'
    BY <1>2 DEF CloseEnds
  <2>4. ClosedOrLate' /\ ExitReleasesBase'
    BY <1>2 DEF CloseEnds
  <2>5. RootsOnlyOnlyIfMissing'
    BY <1>2 DEF CloseEnds
  <2> QED
    BY <1>2, <2>1, <2>2, <2>3, <2>4, <2>5 DEF CloseEnds
<1>3. CASE Exit
  BY <1>3 DEF Exit
<1>4. CASE CloseLocks
  BY <1>4 DEF CloseLocks
<1>5. CASE Signal
  <2>1. ServerTypeOK'
    <3>1. MainTypeOK'
      <4>1. MaxSignals \in Nat
        BY ServerAssumption
      <4>2. signals' \in 0..MaxSignals
        BY <1>5, <4>1 DEF Signal
      <4>3. CASE caught
        BY <1>5, <4>2, <4>3 DEF Signal
      <4>4. CASE ~ caught
        BY <1>5, <4>2, <4>4 DEF Signal
      <4> QED
        BY <4>3, <4>4
    <3>2. RequestTypeOK'
      BY <1>5 DEF Signal
    <3> QED
      BY <3>1, <3>2
  <2>2. HolderIsAtWork'
    BY <1>5 DEF Signal
  <2>3. BaseIsThere'
    BY <1>5 DEF Signal
  <2>4. ClosedOrLate' /\ ExitReleasesBase'
    BY <1>5 DEF Signal
  <2>5. RootsOnlyOnlyIfMissing'
    BY <1>5 DEF Signal
  <2> QED
    BY <1>5, <2>1, <2>2, <2>3, <2>4, <2>5 DEF Signal
<1> QED
  BY <1>1, <1>2, <1>3, <1>4, <1>5 DEF Deferred

LEMMA RequestStep ==
  ASSUME Inv, NEW q \in Requests, Request(q)
  PROVE  Inv'
<1> USE ServerAssumption DEF Inv, ServerTypeOK, MainTypeOK, RequestTypeOK, HolderIsAtWork, TargetFits, RootsOnlyOnlyIfMissing,
        BaseIsThere, ClosedOrLate, ExitReleasesBase, Move, flags, mainVars, HasBase, Forget
<1>1. CASE \E i \in Inputs : Arrive(q, i)
  BY <1>1 DEF Arrive
<1>2. CASE Forbid(q)
  BY <1>2 DEF Forbid
<1>3. CASE OpenStream(q)
  BY <1>3 DEF OpenStream
<1>4. CASE RunInWorkspace(q)
  BY <1>4 DEF RunInWorkspace
<1>5. CASE RunInBase(q)
  BY <1>5 DEF RunInBase
<1>6. CASE NoConfig(q)
  BY <1>6 DEF NoConfig
<1>7. CASE Cached(q)
  BY <1>7 DEF Cached
<1>8. CASE Connect(q)
  <2>1. ServerTypeOK'
    <3>1. MainTypeOK'
      BY <1>8 DEF Connect
    <3>2. RequestTypeOK'
      BY <1>8 DEF Connect
    <3> QED
      BY <3>1, <3>2
  <2>2. HolderIsAtWork'
    BY <1>8 DEF Connect
  <2>3. BaseIsThere'
    BY <1>8 DEF Connect
  <2>4. ClosedOrLate' /\ ExitReleasesBase'
    BY <1>8 DEF Connect
  <2>5. RootsOnlyOnlyIfMissing'
    BY <1>8 DEF Connect
  <2> QED
    BY <1>8, <2>1, <2>2, <2>3, <2>4, <2>5 DEF Connect
<1>9. CASE Connected(q)
  BY <1>9 DEF Connected
<1>10. CASE ConnectFails(q)
  BY <1>10 DEF ConnectFails
<1>11. CASE Finish(q)
  BY <1>11 DEF Finish
<1> QED
  BY <1>1, <1>2, <1>3, <1>4, <1>5, <1>6, <1>7, <1>8, <1>9, <1>10, <1>11 DEF Request

LEMMA InvNext == Inv /\ [Next]_vars => Inv'
<1> SUFFICES ASSUME Inv, [Next]_vars PROVE Inv'
  OBVIOUS
<1>1. CASE UNCHANGED vars
  BY <1>1 DEF vars, flags, mainVars, requestVars, Inv, ServerTypeOK, MainTypeOK, RequestTypeOK, HolderIsAtWork, TargetFits,
      RootsOnlyOnlyIfMissing, BaseIsThere, ClosedOrLate, ExitReleasesBase, HasBase
<1> QED
  BY <1>1, StartStep, TransportStep, CloseStep, RequestStep DEF Next

-----------------------------------------------------------------------------

\* Who holds the mutex, where signals are caught, and what Close leaves.
THEOREM Invariance == Spec => []Inv
  BY InvInit, InvNext, PTL DEF Spec

\* The types of the process's state.
THEOREM ServerTypeCorrect == Spec => []ServerTypeOK
<1>1. Inv => ServerTypeOK
  BY DEF Inv
<1> QED
  BY <1>1, Invariance, PTL

\* Only a config file that is missing, and was not asked for, is done without.
THEOREM RootsOnlyMissing == Spec => []RootsOnlyOnlyIfMissing
<1>1. Inv => RootsOnlyOnlyIfMissing
  BY DEF Inv
<1> QED
  BY <1>1, Invariance, PTL

\* A process that was not killed leaves the global registry closed, late
\* requests apart.
THEOREM ExitReleases == Spec => []ExitReleasesBase
<1>1. Inv => ExitReleasesBase
  BY DEF Inv
<1> QED
  BY <1>1, Invariance, PTL

\* Signals kill before the server serves and while it closes, never in between.
THEOREM DrainUncut == Spec => DrainIsNotCut
<1> DEFINE A == status' = "killed" => stage \notin {"serve", "drain", "return"} \/ stage = "exit"
<1>1. Inv /\ [Next]_vars => [A]_vars
  <2> SUFFICES ASSUME Inv, Next, stage \in {"serve", "drain", "return"}
               PROVE  status' # "killed"
    OBVIOUS
  <2>1. caught /\ status # "killed"
    BY DEF Inv
  <2>2. CASE Start
    BY <2>2 DEF Start, LoadConfig, RootsOnly, LoadFails, Wire
  <2>3. CASE Transport
    BY <2>1, <2>3 DEF Transport, UnknownTransport, StdioEnds, ListenerEnds, Shutdown, Drained,
                ShutdownTimesOut, Return
  <2>4. CASE Deferred \/ CloseLocks
    BY <2>1, <2>4 DEF Deferred, Stop, CloseEnds, Exit, CloseLocks
  <2>5. CASE ListenerUp \/ ListenerFails \/ Signal
    BY <2>1, <2>5 DEF ListenerUp, ListenerFails, Signal
  <2>6. CASE \E q \in Requests : Request(q)
    <3>1. mainVars' = mainVars
      BY <2>6 DEF Request, Arrive, Forbid, OpenStream, RunInWorkspace, RunInBase, NoConfig,
                  Cached, Connect, Connected, ConnectFails, Finish, Move
    <3> QED
      BY <2>1, <3>1 DEF mainVars
  <2> QED
    BY <2>2, <2>3, <2>4, <2>5, <2>6 DEF Next
<1> QED
  BY <1>1, Invariance, PTL DEF Spec, DrainIsNotCut

-----------------------------------------------------------------------------
\* What a request runs against

LEMMA WorkspaceIsFirstNamed ==
  ASSUME NEW i \in Inputs
  PROVE  \/ IsFirstNamed(Workspace(i), i.headers, Configured) /\ Workspace(i) \in Configured
         \/ NoneNamed(i.headers, Configured) /\ Workspace(i) \in Configured \cup {NoPath}
<1> DEFINE named == FirstRootConfig(RootsFromHeaders(i.headers), Configured)
<1>1. i.headers \in Headers /\ i.roots \in Seq(Paths)
  BY ServerAssumption DEF Input
<1>2. \/ named = NoPath /\ NoneNamed(i.headers, Configured)
      \/ named \in Configured /\ IsFirstNamed(named, i.headers, Configured)
  BY <1>1, HeaderRootsInOrder
<1>3. FirstRootConfig(i.roots, Configured) \in Configured \cup {NoPath}
  BY <1>1, FirstConfigured
<1>4. NoPath \notin Configured
  BY ServerAssumption, RootsAssumption
<1>5. Workspace(i) = IF named # NoPath THEN named ELSE FirstRootConfig(i.roots, Configured)
  BY DEF Workspace
<1> HIDE DEF named
<1> QED
  BY <1>2, <1>3, <1>4, <1>5

\* Whatever its headers and its roots, a request runs against the first root
\* its headers name that has a config, if there is one.
THEOREM FirstNamedIsTarget == Spec => TargetIsFirstNamed
<1> DEFINE Follows(q) ==
      req[q] = "arrived" /\ target'[q] # NoPath =>
         LET h == input[q].headers
         IN  \/ IsFirstNamed(target'[q], h, Configured)
             \/ NoneNamed(h, Configured) /\ target'[q] \in {Base} \cup Configured
<1>1. Inv /\ [Next]_vars => [\A q \in Requests : Follows(q)]_vars
  <2> SUFFICES ASSUME Inv, Next, NEW q \in Requests, req[q] = "arrived", target'[q] # NoPath
               PROVE  LET h == input[q].headers
                      IN  \/ IsFirstNamed(target'[q], h, Configured)
                          \/ NoneNamed(h, Configured) /\ target'[q] \in {Base} \cup Configured
    OBVIOUS
  <2>1. input[q] \in Inputs /\ target[q] = NoPath /\ target \in [Requests -> Configured \cup {Base, NoPath}]
    BY ServerAssumption DEF Inv, TargetFits, ServerTypeOK, RequestTypeOK
  <2>2. target' # target
    BY <2>1
  <2>3. PICK p \in Requests : Request(p)
    BY <2>2 DEF Next, Start, LoadConfig, RootsOnly, LoadFails, Wire, Transport, UnknownTransport,
                StdioEnds, ListenerEnds, Shutdown, Drained, ShutdownTimesOut, Return, Deferred, Stop,
                CloseEnds, Exit, CloseLocks, ListenerUp, ListenerFails, Signal, vars, requestVars
  <2>4. RunInWorkspace(p) \/ RunInBase(p) \/ ConnectFails(p) \/ Finish(p)
    BY <2>2, <2>3 DEF Request, Arrive, Forbid, OpenStream, NoConfig, Cached, Connect, Connected
  <2>5. p = q
    BY <2>1, <2>4 DEF RunInWorkspace, RunInBase, ConnectFails, Finish
  <2>6. CASE RunInWorkspace(q)
    <3>1. target'[q] = Workspace(input[q]) /\ Workspace(input[q]) \in Configured
      BY <2>1, <2>6 DEF RunInWorkspace
    <3> QED
      BY <2>1, <3>1, WorkspaceIsFirstNamed
  <2>7. CASE RunInBase(q)
    <3>1. target'[q] = Base /\ Workspace(input[q]) \notin Configured
      BY <2>1, <2>7 DEF RunInBase
    <3> QED
      BY <2>1, <3>1, WorkspaceIsFirstNamed
  <2>8. CASE ConnectFails(q) \/ Finish(q)
    BY <2>1, <2>8 DEF ConnectFails, Finish
  <2> QED
    BY <2>4, <2>5, <2>6, <2>7, <2>8
<1> QED
  BY <1>1, Invariance, PTL DEF Spec, TargetIsFirstNamed

-----------------------------------------------------------------------------
\* The global registry is a Connection.

LEMMA ConnectionInit == Init => BaseRegistry!Init
  BY DEF Init, At, BaseRegistry!Init

LEMMA ConnectionOfRequest ==
  ASSUME Inv, NEW q \in Requests, Request(q)
  PROVE  BaseRegistry!Next \/ UNCHANGED BaseRegistry!connectionVars
<1> DEFINE at == [p \in Requests |-> At(p)]
<1> USE DEF Move, BaseRegistry!Goto, BaseRegistry!Locks, BaseRegistry!Unlocks
<1>a. /\ req \in [Requests -> {"idle", "arrived", "elsewhere", "stream",
                               "locking", "connecting", "operating"}]
      /\ req[q] = "connecting" <=> holder = q
  BY DEF Inv, ServerTypeOK, RequestTypeOK, HolderIsAtWork
<1>b. \A p \in Requests : p # q => req'[p] = req[p]
  BY <1>a DEF Request, Arrive, Forbid, OpenStream, RunInWorkspace, RunInBase, NoConfig,
              Cached, Connect, Connected, ConnectFails, Finish
<1>c. at' = [at EXCEPT ![q] = At(q)']
  <2>1. \A p \in Requests : p # q => At(p)' = At(p)
    BY <1>b DEF At
  <2> QED
    BY <2>1
<1>1. CASE RunInBase(q)
  <2>1. At(q) = "none" /\ At(q)' = "locking" /\ UNCHANGED <<holder, open>>
    BY <1>a, <1>1 DEF RunInBase, At
  <2> QED
    BY <1>c, <2>1 DEF BaseRegistry!Get, BaseRegistry!Next
<1>2. CASE Cached(q)
  <2>1. At(q) = "locking" /\ At(q)' = "operating"
    BY <1>a, <1>2 DEF Cached, At
  <2> QED
    BY <1>c, <1>2, <2>1 DEF Cached, BaseRegistry!Hit, BaseRegistry!Next
<1>3. CASE Connect(q)
  <2>1. At(q) = "locking" /\ At(q)' = "connecting"
    BY <1>a, <1>3 DEF Connect, At
  <2> QED
    BY <1>c, <1>3, <2>1 DEF Connect, BaseRegistry!Miss, BaseRegistry!Next
<1>4. CASE Connected(q)
  <2>1. At(q) = "connecting" /\ At(q)' = "operating" /\ holder = q
    BY <1>a, <1>4 DEF Connected, At
  <2> QED
    BY <1>c, <1>4, <2>1 DEF Connected, BaseRegistry!Connected, BaseRegistry!Next
<1>5. CASE ConnectFails(q)
  <2>1. At(q) = "connecting" /\ At(q)' = "none" /\ holder = q
    BY <1>a, <1>5 DEF ConnectFails, At
  <2> QED
    BY <1>c, <1>5, <2>1 DEF ConnectFails, BaseRegistry!Fails, BaseRegistry!Next
<1>6. CASE Finish(q)
  <2>1. /\ req[q] \in {"elsewhere", "stream", "operating"} /\ At(q)' = "none"
        /\ UNCHANGED <<holder, open>>
    BY <1>a, <1>6 DEF Finish, At
  <2>2. CASE req[q] = "operating"
    BY <1>c, <2>1, <2>2 DEF At, BaseRegistry!Leave, BaseRegistry!Next
  <2>3. CASE req[q] # "operating"
    <3>1. At(q) = "none"
      BY <2>1, <2>3 DEF At
    <3> QED
      BY <1>c, <2>1, <3>1 DEF BaseRegistry!connectionVars
  <2> QED
    BY <2>2, <2>3
<1>7. CASE \/ \E i \in Inputs : Arrive(q, i)
           \/ Forbid(q) \/ OpenStream(q) \/ RunInWorkspace(q) \/ NoConfig(q)
  <2>1. At(q) = "none" /\ At(q)' = "none" /\ UNCHANGED <<holder, open>>
    BY <1>a, <1>7 DEF Arrive, Forbid, OpenStream, RunInWorkspace, NoConfig, At
  <2> QED
    BY <1>c, <2>1 DEF BaseRegistry!connectionVars
<1> QED
  BY <1>1, <1>2, <1>3, <1>4, <1>5, <1>6, <1>7 DEF Request

LEMMA ConnectionStep == Inv /\ [Next]_vars => [BaseRegistry!Next]_(BaseRegistry!connectionVars)
<1> SUFFICES ASSUME Inv, [Next]_vars PROVE [BaseRegistry!Next]_(BaseRegistry!connectionVars)
  OBVIOUS
<1>1. CASE UNCHANGED req
  <2>1. \A q \in Requests : At(q)' = At(q)
    BY <1>1 DEF At
  <2>2. CASE CloseLocks
    BY <2>1, <2>2 DEF CloseLocks, BaseRegistry!CloseLocks, BaseRegistry!Locks, BaseRegistry!Next
  <2>3. CASE CloseEnds
    BY <2>1, <2>3 DEF CloseEnds, Inv, HolderIsAtWork, BaseRegistry!CloseGoesOn, BaseRegistry!Next
  <2>4. CASE UNCHANGED <<holder, open>>
    BY <2>1, <2>4 DEF BaseRegistry!connectionVars
  <2> QED
    BY <2>2, <2>3, <2>4, ConnectionOfRequest
    DEF Next, Start, Transport, Deferred, LoadConfig, RootsOnly, LoadFails, Wire,
        UnknownTransport, StdioEnds, ListenerEnds, Shutdown, Drained, ShutdownTimesOut, Return,
        Stop, Exit, ListenerUp, ListenerFails, Signal, vars, requestVars
<1>2. CASE req' # req
  <2>1. \E q \in Requests : Request(q)
    BY <1>2
    DEF Next, Start, Transport, Deferred, LoadConfig, RootsOnly, LoadFails, Wire,
        UnknownTransport, StdioEnds, ListenerEnds, Shutdown, Drained, ShutdownTimesOut, Return,
        Stop, CloseLocks, CloseEnds, Exit, ListenerUp, ListenerFails, Signal, vars, requestVars
  <2> QED
    BY <2>1, ConnectionOfRequest
<1> QED
  BY <1>1, <1>2

\* Requests and the Close at exit do to the global registry what Connection allows,
\* also when signals cut its Close short.
THEOREM BaseIsConnection == Spec => BaseRegistry!Spec
<1>1. Init => BaseRegistry!Init
  BY ConnectionInit
<1>2. Inv /\ [Next]_vars => [BaseRegistry!Next]_(BaseRegistry!connectionVars)
  BY ConnectionStep
<1> QED
  BY <1>1, <1>2, Invariance, PTL DEF Spec, BaseRegistry!Spec
=============================================================================
