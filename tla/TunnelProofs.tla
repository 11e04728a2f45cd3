---------------------------- MODULE TunnelProofs ----------------------------
(***************************************************************************)
(* Proofs about Tunnel.tla, for every config file, every number of dials   *)
(* and of attempts.                                                        *)
(***************************************************************************)
EXTENDS Tunnel, TLAPS

\* What Load accepts has a way to authenticate when it is used: expansion
\* comes before validation.
LEMMA SettingsHaveMethod == \A s \in Settings : HasMethod(s)
<1> SUFFICES ASSUME NEW b \in Blocks, Loaded(FileWith(b)) # None
             PROVE  HasMethod(Loaded(FileWith(b)).sources[Source].ssh)
  BY DEF Settings
<1> DEFINE file == FileWith(b)
           cfg == ExpandEnv(ApplyDefaults(file))
           src == WithDefaultPort(file.sources[Source])
<1>1. Loaded(file) = cfg /\ Validate(cfg)
  BY DEF Loaded
<1>2. /\ DOMAIN file.sources = {Source}
      /\ file.sources[Source].ssh = b
      /\ b \in SSHConfig
      /\ b # None
  BY TunnelAssumption, NoneIsNoBlock DEF FileWith
<1>3. src.ssh \in SSHConfig
  BY <1>2 DEF WithDefaultPort, FileWith, SSHConfig
<1>4. cfg.sources = [n \in {Source} |-> ExpandSource(src)]
  <2> DEFINE filled == ApplyDefaults(file)
  <2>1. DOMAIN file = {"addr", "path", "origins", "sources"}
    BY DEF FileWith
  <2>2. /\ DOMAIN filled = DOMAIN file
        /\ filled.sources = [n \in {Source} |-> src]
    BY <2>1, <1>2 DEF ApplyDefaults
  <2>3. cfg.sources = [n \in DOMAIN filled.sources |-> ExpandSource(filled.sources[n])]
    BY <2>1, <2>2 DEF ExpandEnv
  <2> QED
    BY <2>2, <2>3
<1>5. cfg.sources[Source].ssh = ExpandSSH(src.ssh)
  <2>1. DOMAIN src = {"uri", "connect_timeout", "operation_timeout", "ssh"}
    BY <1>2 DEF WithDefaultPort, FileWith
  <2> HIDE DEF cfg, src
  <2> QED
    BY <1>4, <2>1 DEF ExpandSource
<1>6. ExpandSSH(src.ssh) \in SSHConfig
  <2>1. \A t \in Text : Expand(t) \in Text
    BY DEF Expand, Text
  <2> QED
    BY <1>3, <2>1, NoneIsNoBlock DEF ExpandSSH, SSHConfig
<1>7. ValidSSH(cfg.sources[Source].ssh)
  BY <1>1, <1>4, <1>5, <1>6, NoneIsNoBlock DEF Validate, ValidSource
<1> QED
  BY <1>1, <1>7 DEF ValidSSH

LEMMA InvInit == Init => Inv
<1> SUFFICES ASSUME Init PROVE Inv
  OBVIOUS
<1>1. methods \in Seq({"agent", "identity", "password"})
  BY DEF Init
<1> QED
  BY <1>1, TunnelAssumption
  DEF Init, Inv, TypeOK, Result, AttemptHasMethod, OpenIsDelivered,
      WorkerIsAwaited

-----------------------------------------------------------------------------

LEMMA Appending ==
  ASSUME methods \in Seq({"agent", "identity", "password"}),
         NEW m \in {"agent", "identity", "password"}
  PROVE  /\ Append(methods, m) \in Seq({"agent", "identity", "password"})
         /\ Append(methods, m) # <<>>
  OBVIOUS

\* The steps of newSSHDialer, and Close.
LEMMA SetupStep ==
  ASSUME Inv, Setup
  PROVE  Inv'
<1> USE DEF Inv, TypeOK, Step, dialVars, AttemptHasMethod, Result
<1>1. CASE Try
  BY <1>1, TunnelAssumption DEF Try, OpenIsDelivered, OnItsWay, WorkerIsAwaited
<1>2. CASE AgentMethod
  BY <1>2, Appending DEF AgentMethod, OpenIsDelivered, OnItsWay, WorkerIsAwaited
<1>3. CASE IdentityMethod
  BY <1>3, Appending DEF IdentityMethod, OpenIsDelivered, OnItsWay, WorkerIsAwaited
<1>4. CASE PasswordMethod
  BY <1>4, Appending DEF PasswordMethod, OpenIsDelivered, OnItsWay, WorkerIsAwaited
<1>5. CASE HostKeys
  BY <1>5 DEF HostKeys, OpenIsDelivered, OnItsWay, WorkerIsAwaited
<1>6. CASE DialSucceeds
  BY <1>6 DEF DialSucceeds, OpenIsDelivered, OnItsWay, WorkerIsAwaited
<1>7. CASE Fails
  BY <1>7 DEF Fails, NoMethods, OpenIsDelivered, OnItsWay, WorkerIsAwaited
<1>8. CASE Close
  BY <1>8 DEF Close, OpenIsDelivered, OnItsWay, WorkerIsAwaited
<1> QED
  BY <1>1, <1>2, <1>3, <1>4, <1>5, <1>6, <1>7, <1>8 DEF Setup

\* The steps of a dial.
LEMMA DialStep ==
  ASSUME Inv, NEW d \in Dials,
         \/ DialContext(d) \/ CtxEnds(d) \/ Caller(d) \/ Hangup(d)
         \/ WorkerConnects(d) \/ WorkerFails(d) \/ Send(d)
  PROVE  Inv'
<1> USE DEF Inv, TypeOK, setupVars, AttemptHasMethod, Result,
            OpenIsDelivered, OnItsWay, WorkerIsAwaited
<1>1. CASE DialContext(d)
  <2>1. TypeOK'
    <3> HIDE DEF AttemptHasMethod, OpenIsDelivered, WorkerIsAwaited
    <3> QED BY <1>1 DEF DialContext
  <2>2. OpenIsDelivered'
    <3> SUFFICES ASSUME NEW e \in open'
                 PROVE  /\ stage' = "up"
                        /\ \/ caller'[e] = "conn"
                           \/ OnItsWay(e)' /\ (caller'[e] = "select" \/ e \in ctxDone')
      BY Zenon DEF OpenIsDelivered
    <3>1. CASE e = d
      BY <1>1, <3>1 DEF DialContext
    <3>2. CASE e # d
      BY <1>1, <3>2 DEF DialContext
    <3> QED
      BY <3>1, <3>2
  <2>3. WorkerIsAwaited'
    BY <1>1 DEF DialContext
  <2> QED
    BY <1>1, <2>1, <2>2, <2>3 DEF DialContext
<1>2. CASE CtxEnds(d)
  BY <1>2 DEF CtxEnds
<1>3. CASE Cancelled(d)
  BY <1>3 DEF Cancelled
<1>4. CASE Receive(d)
  <2>1. TypeOK'
    <3> HIDE DEF AttemptHasMethod, OpenIsDelivered, WorkerIsAwaited
    <3> QED BY <1>4 DEF Receive
  <2>2. OpenIsDelivered'
    <3> SUFFICES ASSUME NEW e \in open'
                 PROVE  /\ stage' = "up"
                        /\ \/ caller'[e] = "conn"
                           \/ OnItsWay(e)' /\ (caller'[e] = "select" \/ e \in ctxDone')
      BY Zenon DEF OpenIsDelivered
    <3>1. CASE e = d
      BY <1>4, <3>1 DEF Receive
    <3>2. CASE e # d
      BY <1>4, <3>2 DEF Receive
    <3> QED
      BY <3>1, <3>2
  <2>3. WorkerIsAwaited'
    BY <1>4 DEF Receive
  <2> QED
    BY <1>4, <2>1, <2>2, <2>3 DEF Receive
<1>5. CASE Hangup(d)
  BY <1>5 DEF Hangup
<1>6. CASE WorkerConnects(d)
  <2>1. TypeOK'
    <3> HIDE DEF AttemptHasMethod, OpenIsDelivered, WorkerIsAwaited
    <3> QED BY <1>6 DEF WorkerConnects
  <2>2. OpenIsDelivered'
    <3> SUFFICES ASSUME NEW e \in open'
                 PROVE  /\ stage' = "up"
                        /\ \/ caller'[e] = "conn"
                           \/ OnItsWay(e)' /\ (caller'[e] = "select" \/ e \in ctxDone')
      BY Zenon DEF OpenIsDelivered
    <3>1. CASE e = d
      BY <1>6, <3>1 DEF WorkerConnects
    <3>2. CASE e # d
      BY <1>6, <3>2 DEF WorkerConnects
    <3> QED
      BY <3>1, <3>2
  <2>3. WorkerIsAwaited'
    BY <1>6 DEF WorkerConnects
  <2> QED
    BY <1>6, <2>1, <2>2, <2>3 DEF WorkerConnects
<1>7. CASE WorkerFails(d)
  BY <1>7 DEF WorkerFails
<1>8. CASE Send(d)
  BY <1>8 DEF Send
<1> QED
  BY <1>1, <1>2, <1>3, <1>4, <1>5, <1>6, <1>7, <1>8 DEF Caller

LEMMA InvNext == Inv /\ [Next]_vars => Inv'
<1> SUFFICES ASSUME Inv, [Next]_vars PROVE Inv'
  OBVIOUS
<1>1. CASE UNCHANGED vars
  BY <1>1 DEF vars, setupVars, dialVars, Inv, TypeOK, AttemptHasMethod,
              OpenIsDelivered, OnItsWay, WorkerIsAwaited
<1> QED
  BY <1>1, SetupStep, DialStep DEF Next, Rest

\* Attempts to establish the tunnel keep what they need, and dials account for
\* what they open.
THEOREM Invariance == Spec => []Inv
  BY InvInit, InvNext, PTL DEF Spec

\* The types of the tunnel's state.
THEOREM TypeCorrect == Spec => []TypeOK
<1>1. Inv => TypeOK
  BY DEF Inv
<1> QED
  BY <1>1, Invariance, PTL

\* A loaded config never runs out of authentication methods.
THEOREM MethodsUsable == Spec => []UsableMethods
<1>1. Inv => UsableMethods
  <2> SUFFICES ASSUME Inv, NoMethods PROVE FALSE
    BY DEF UsableMethods
  <2>1. HasMethod(ssh)
    BY SettingsHaveMethod DEF Inv, TypeOK
  <2> QED
    BY <2>1 DEF Inv, AttemptHasMethod, NoMethods, HasMethod
<1> QED
  BY <1>1, Invariance, PTL

\* A connection through the tunnel is lost only to a context that ended first.
THEOREM OpenDelivered == Spec => []OpenIsDelivered
<1>1. Inv => OpenIsDelivered
  BY DEF Inv
<1> QED
  BY <1>1, Invariance, PTL

-----------------------------------------------------------------------------
\* What the driver sees of DialContext

\* The connections that no worker and no channel hides from the driver.
Known == {d \in open : caller[d] # "select"}

\* A step of one dial, as the driver sees it.
LEMMA ViewOfOthers ==
  ASSUME TypeOK, NEW d \in Dials,
         \A e \in Dials : e # d =>
            caller'[e] = caller[e] /\ (OnItsWay(e)' <=> OnItsWay(e)),
         \A e \in Dials : e # d => (e \in open' <=> e \in open),
         open' \subseteq Dials
  PROVE  /\ [e \in Dials |-> At(e)]' = [[e \in Dials |-> At(e)] EXCEPT ![d] = At(d)']
         /\ Known' = IF d \in Known' THEN Known \cup {d} ELSE Known \ {d}
<1>1. \A e \in Dials : e # d => At(e)' = At(e)
  BY DEF At
<1>2. \A e \in Dials : e # d => (e \in Known' <=> e \in Known)
  BY DEF Known
<1>3. Known \subseteq Dials /\ Known' \subseteq Dials
  BY DEF Known, TypeOK
<1> QED
  BY <1>1, <1>2, <1>3

\* Setting the tunnel up is not seen, closing it is.
LEMMA ViewSetup ==
  ASSUME Inv, Setup
  PROVE  View!Close \/ UNCHANGED View!viewVars
<1>1. CASE Close
  <2>1. /\ stage = "up" /\ stage' = "closed" /\ open' = {}
        /\ UNCHANGED <<caller, worker, ch, ctxDone>>
    BY <1>1 DEF Close, Step
  <2> QED
    BY <2>1 DEF View!Close, At, OnItsWay
<1>2. CASE ~ Close
  <2>1. Try \/ AgentMethod \/ IdentityMethod \/ PasswordMethod \/ HostKeys
        \/ DialSucceeds \/ Fails
    BY <1>2 DEF Setup
  <2>2. UNCHANGED dialVars
    BY <2>1 DEF Try, AgentMethod, IdentityMethod, PasswordMethod, HostKeys,
                DialSucceeds, Fails
  <2>3. (stage' = "closed") = (stage = "closed")
    BY <2>1 DEF Try, AgentMethod, IdentityMethod, PasswordMethod, HostKeys,
                DialSucceeds, Fails, NoMethods, Step
  <2>4. UNCHANGED <<caller, worker, ch, ctxDone, open>>
    BY <2>2 DEF dialVars
  <2> QED
    BY <2>3, <2>4 DEF View!viewVars, At, OnItsWay
<1> QED
  BY <1>1, <1>2

\* A worker is not seen until its result is taken, or is there to be taken from a
\* dial that was given up.
LEMMA ViewDial ==
  ASSUME Inv, Inv', NEW d \in Dials,
         \/ DialContext(d) \/ CtxEnds(d) \/ Caller(d) \/ Hangup(d)
         \/ WorkerConnects(d) \/ WorkerFails(d) \/ Send(d)
  PROVE  \/ View!Dial(d) \/ View!CtxEnds(d) \/ View!Answer(d) \/ View!Refuse(d)
         \/ View!GiveUp(d) \/ View!LeaveBehind(d) \/ View!Hangup(d)
         \/ UNCHANGED View!viewVars
<1> DEFINE at == [e \in Dials |-> At(e)]
<1> USE DEF setupVars, View!Goto, View!Obtain, Known
<1>a. TypeOK /\ TypeOK' /\ WorkerIsAwaited /\ WorkerIsAwaited' /\ open' \subseteq Dials
  BY DEF Inv, TypeOK
<1>1. CASE DialContext(d)
  <2>1. /\ caller[d] = "none" /\ caller'[d] = "select" /\ d \notin Known'
        /\ ~ OnItsWay(d) /\ d \notin open
        /\ \A e \in Dials : e # d => caller'[e] = caller[e] /\ (OnItsWay(e)' <=> OnItsWay(e))
        /\ UNCHANGED <<stage, ctxDone, open>>
    BY <1>1, <1>a DEF DialContext, TypeOK, WorkerIsAwaited, OnItsWay, Inv, OpenIsDelivered
  <2>2. At(d) = "none" /\ At(d)' = "waiting"
    BY <2>1 DEF At
  <2>3. at' = [at EXCEPT ![d] = "waiting"] /\ Known' = Known
    BY <1>a, <2>1, <2>2, ViewOfOthers
  <2> QED
    BY <2>1, <2>2, <2>3 DEF View!Dial
<1>2. CASE CtxEnds(d)
  <2>1. /\ caller[d] = "select" /\ ctxDone' = ctxDone \cup {d}
        /\ UNCHANGED <<stage, caller, worker, ch, open>>
    BY <1>2 DEF CtxEnds
  <2> QED
    BY <2>1 DEF View!CtxEnds, At, OnItsWay
\* The context ends the wait, and what is there or comes is left behind.
<1>3. CASE Cancelled(d)
  <2>1. /\ caller[d] = "select" /\ caller'[d] = "ctx" /\ d \in ctxDone
        /\ \A e \in Dials : e # d => caller'[e] = caller[e]
        /\ UNCHANGED <<stage, worker, ch, ctxDone, open>>
    BY <1>3, <1>a DEF Cancelled, TypeOK
  <2>2. \A e \in Dials : OnItsWay(e)' <=> OnItsWay(e)
    BY <2>1 DEF OnItsWay
  <2>3. At(d) = "waiting"
    BY <2>1 DEF At
  <2>4. CASE OnItsWay(d)
    <3>1. At(d)' = "left" /\ (d \in Known' <=> stage # "closed")
      BY <1>a, <2>1, <2>2, <2>4 DEF At, WorkerIsAwaited, Inv, OpenIsDelivered
    <3>2. at' = [at EXCEPT ![d] = "left"]
      BY <1>a, <2>1, <2>2, <3>1, ViewOfOthers
    <3>3. Known' = IF stage = "closed" THEN Known ELSE Known \cup {d}
      BY <1>a, <2>1, <2>2, <3>1, ViewOfOthers
    <3> QED
      BY <2>1, <2>3, <3>2, <3>3 DEF View!LeaveBehind
  <2>5. CASE ~ OnItsWay(d)
    <3>1. At(d)' = "abandoned" /\ d \notin Known'
      BY <2>1, <2>2, <2>5 DEF At, Inv, OpenIsDelivered
    <3>2. at' = [at EXCEPT ![d] = "abandoned"] /\ Known' = Known
      BY <1>a, <2>1, <2>2, <3>1, ViewOfOthers
    <3> QED
      BY <2>1, <2>3, <3>2 DEF View!GiveUp
  <2> QED
    BY <2>4, <2>5
<1>4. CASE Receive(d)
  <2>1. /\ caller[d] = "select" /\ ch[d] \in Result /\ caller'[d] = ch[d] /\ ch'[d] = "empty"
        /\ \A e \in Dials : e # d => caller'[e] = caller[e] /\ ch'[e] = ch[e]
        /\ UNCHANGED <<stage, worker, ctxDone, open>>
    BY <1>4, <1>a DEF Receive, TypeOK
  <2>2. \A e \in Dials : e # d => (OnItsWay(e)' <=> OnItsWay(e))
    BY <2>1 DEF OnItsWay
  <2>3. At(d) = "waiting"
    BY <2>1 DEF At
  <2>4. CASE ch[d] = "conn"
    <3>1. At(d)' = "given" /\ (d \in Known' <=> stage # "closed")
      BY <1>a, <2>1, <2>4 DEF At, WorkerIsAwaited, OnItsWay, Inv, OpenIsDelivered
    <3>2. at' = [at EXCEPT ![d] = "given"]
      BY <1>a, <2>1, <2>2, <3>1, ViewOfOthers
    <3>3. Known' = IF stage = "closed" THEN Known ELSE Known \cup {d}
      BY <1>a, <2>1, <2>2, <3>1, ViewOfOthers
    <3> QED
      BY <2>1, <2>3, <3>2, <3>3 DEF View!Answer
  <2>5. CASE ch[d] = "error"
    <3>1. worker[d] \notin Result \cup {"dialing"}
      BY <1>a, <2>1 DEF WorkerIsAwaited, Result
    <3>2. At(d)' = "refused" /\ d \notin Known'
      BY <1>a, <2>1, <2>5, <3>1 DEF At, OnItsWay, Inv, OpenIsDelivered, Result
    <3>3. at' = [at EXCEPT ![d] = "refused"] /\ Known' = Known
      BY <1>a, <2>1, <2>2, <3>2, ViewOfOthers
    <3> QED
      BY <2>1, <2>3, <3>3 DEF View!Refuse
  <2> QED
    BY <2>1, <2>4, <2>5 DEF Result
<1>5. CASE Hangup(d)
  <2>1. /\ caller[d] = "conn" /\ caller'[d] = "over" /\ open' = open \ {d}
        /\ \A e \in Dials : e # d => caller'[e] = caller[e]
        /\ UNCHANGED <<stage, worker, ch, ctxDone>>
    BY <1>5, <1>a DEF Hangup, TypeOK
  <2>2. At(d) = "given" /\ At(d)' = "over" /\ d \notin Known'
    BY <2>1 DEF At
  <2>3. at' = [at EXCEPT ![d] = "over"] /\ Known' = Known \ {d}
    BY <1>a, <2>1, <2>2, ViewOfOthers DEF OnItsWay
  <2> QED
    BY <2>1, <2>2, <2>3 DEF View!Hangup
\* A late connection of a dial that was given up is left behind at once.
<1>6. CASE WorkerConnects(d)
  <2>1. /\ worker[d] = "dialing" /\ worker'[d] = "conn" /\ stage = "up"
        /\ open' = open \cup {d} /\ ch[d] = "empty" /\ caller[d] \in {"select", "ctx"}
        /\ caller[d] = "ctx" => d \in ctxDone
        /\ \A e \in Dials : e # d => worker'[e] = worker[e]
        /\ UNCHANGED <<stage, caller, ch, ctxDone>>
    BY <1>6, <1>a DEF WorkerConnects, TypeOK, WorkerIsAwaited
  <2>2. \A e \in Dials : e # d => (OnItsWay(e)' <=> OnItsWay(e))
    BY <2>1 DEF OnItsWay
  <2>3. OnItsWay(d)' /\ ~ OnItsWay(d)
    BY <2>1 DEF OnItsWay
  <2>4. CASE caller[d] = "select"
    <3>1. At(d)' = At(d) /\ d \notin Known /\ d \notin Known'
      BY <2>1, <2>4 DEF At
    <3>2. at' = at /\ Known' = Known
      BY <1>a, <2>1, <2>2, <3>1, ViewOfOthers
    <3> QED
      BY <2>1, <3>2 DEF View!viewVars
  <2>5. CASE caller[d] = "ctx"
    <3>1. At(d) = "abandoned" /\ At(d)' = "left" /\ d \in Known'
      BY <2>1, <2>3, <2>5 DEF At
    <3>2. at' = [at EXCEPT ![d] = "left"] /\ Known' = Known \cup {d}
      BY <1>a, <2>1, <2>2, <3>1, ViewOfOthers
    <3> QED
      BY <2>1, <2>5, <3>1, <3>2 DEF View!LeaveBehind
  <2> QED
    BY <2>1, <2>4, <2>5
<1>7. CASE WorkerFails(d)
  <2>1. UNCHANGED <<stage, caller, ch, ctxDone, open>> /\ \A e \in Dials : OnItsWay(e)' <=> OnItsWay(e)
    BY <1>7, <1>a DEF WorkerFails, TypeOK, OnItsWay
  <2> QED
    BY <2>1 DEF View!viewVars, At
<1>8. CASE Send(d)
  <2>1. UNCHANGED <<stage, caller, ctxDone, open>> /\ \A e \in Dials : OnItsWay(e)' <=> OnItsWay(e)
    BY <1>8, <1>a DEF Send, TypeOK, OnItsWay, Result
  <2> QED
    BY <2>1 DEF View!viewVars, At
<1> QED
  BY <1>1, <1>2, <1>3, <1>4, <1>5, <1>6, <1>7, <1>8 DEF Caller

LEMMA ViewInit == Init => View!Init
  BY DEF Init, View!Init, At, OnItsWay

LEMMA ViewStep == Inv /\ [Next]_vars => [View!Next]_(View!viewVars)
<1> SUFFICES ASSUME Inv, Inv', [Next]_vars PROVE [View!Next]_(View!viewVars)
  BY InvNext
<1>1. CASE UNCHANGED vars
  BY <1>1 DEF vars, setupVars, dialVars, View!viewVars, At, OnItsWay
<1>2. CASE Next
  BY <1>1, <1>2, ViewSetup, ViewDial DEF Next, Rest, View!Next
<1> QED
  BY <1>1, <1>2

\* DialContext, with its worker and its channel, gives the driver what a DialView
\* promises, for every setting and any number of dials.
THEOREM Refinement == Spec => ImplementsDialView
<1>1. Init => View!Init
  BY ViewInit
<1>2. Inv /\ [Next]_vars => [View!Next]_(View!viewVars)
  BY ViewStep
<1> QED
  BY <1>1, <1>2, Invariance, PTL DEF Spec, ImplementsDialView, View!Spec
=============================================================================
