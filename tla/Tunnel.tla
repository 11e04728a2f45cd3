------------------------------- MODULE Tunnel -------------------------------
(***************************************************************************)
(* internal/source/ssh.go: the SSH tunnel of a source.  newSSHDialer is    *)
(* tried, at most MaxTries times, until one attempt succeeds; the driver   *)
(* then dials through the tunnel with DialContext, once per member of      *)
(* Dials, until the registry closes it.                                    *)
(*                                                                         *)
(* ssh.Client.Dial knows no context, so DialContext runs it in a goroutine *)
(* of its own, the worker, which hands its result over a channel with      *)
(* one place; the caller waits for that channel or for its context.        *)
(*                                                                         *)
(* The settings are those of a config file that Load accepted.             *)
(***************************************************************************)
EXTENDS Config, Sequences

CONSTANTS
    Blocks,      \* ssh blocks, as written in config files
    Dials,       \* calls of DialContext
    MaxTries     \* bound: attempts to establish the tunnel

Source == "source"

FileWith(block) ==
    [addr |-> "", path |-> "", origins |-> {},
     sources |-> [n \in {Source} |->
        [uri |-> "plain", connect_timeout |-> "", operation_timeout |-> "", ssh |-> block]]]

\* The ssh blocks a registry can be built with.
Settings == {Loaded(FileWith(b)).sources[Source].ssh : b \in {b \in Blocks : Loaded(FileWith(b)) # None}}

ASSUME TunnelAssumption == Blocks \subseteq SSHConfig /\ MaxTries \in Nat

VARIABLES
    ssh,         \* the settings of this tunnel
    stage,       \* where newSSHDialer is, and what became of the tunnel
    methods,     \* sshAuthMethods: the methods so far, in their order
    tries,       \* attempts so far
    caller,      \* DialContext: where its select is, or what it returned
    worker,      \* its goroutine, with the result it has yet to send
    ch,          \* the channel between them
    ctxDone,     \* the dials whose context has ended
    open         \* the dials whose connection through the tunnel is open

setupVars == <<ssh, stage, methods, tries>>
dialVars == <<caller, worker, ch, ctxDone, open>>
vars == <<setupVars, dialVars>>

Result == {"conn", "error"}

TypeOK ==
    /\ ssh \in Settings
    /\ stage \in {"idle", "agent", "identity", "password", "hostkeys", "dial", "up", "closed"}
    /\ methods \in Seq({"agent", "identity", "password"})
    /\ tries \in 0..MaxTries
    /\ caller \in [Dials -> Result \cup {"none", "select", "ctx", "over"}]
    /\ worker \in [Dials -> Result \cup {"none", "dialing", "done"}]
    /\ ch \in [Dials -> Result \cup {"empty"}]
    /\ ctxDone \subseteq Dials
    /\ open \subseteq Dials

Init ==
    /\ ssh \in Settings
    /\ stage = "idle"
    /\ methods = <<>>
    /\ tries = 0
    /\ caller = [d \in Dials |-> "none"]
    /\ worker = [d \in Dials |-> "none"]
    /\ ch = [d \in Dials |-> "empty"]
    /\ ctxDone = {}
    /\ open = {}

-----------------------------------------------------------------------------
\* newSSHDialer

Step(from, to) == stage = from /\ stage' = to

\* A Get of the source finds it unconnected, for the first time or again.
Try ==
    /\ Step("idle", "agent")
    /\ tries < MaxTries
    /\ tries' = tries + 1
    /\ methods' = <<>>
    /\ UNCHANGED <<ssh, dialVars>>

\* sshAuthMethods: the agent first, then the identity file, the password last.
AgentMethod ==
    /\ Step("agent", "identity")
    /\ methods' = IF ssh.use_agent THEN Append(methods, "agent") ELSE methods
    /\ UNCHANGED <<ssh, tries, dialVars>>

IdentityMethod ==
    /\ Step("identity", "password")
    /\ methods' = IF ssh.identity_file # "" THEN Append(methods, "identity") ELSE methods
    /\ UNCHANGED <<ssh, tries, dialVars>>

PasswordMethod ==
    /\ Step("password", "hostkeys")
    /\ methods' = IF ssh.password # "" THEN Append(methods, "password") ELSE methods
    /\ UNCHANGED <<ssh, tries, dialVars>>

NoMethods == stage = "hostkeys" /\ methods = <<>>

\* Host keys are not checked, or known_hosts (the default one, if none is
\* configured) can be read.
HostKeys ==
    /\ Step("hostkeys", "dial")
    /\ ~ NoMethods
    /\ UNCHANGED <<ssh, methods, tries, dialVars>>

DialSucceeds ==
    /\ Step("dial", "up")
    /\ UNCHANGED <<ssh, methods, tries, dialVars>>

\* No agent, no readable key, no methods, no known_hosts, or no SSH server:
\* the attempt returns its error.
Fails ==
    /\ \/ stage = "agent" /\ ssh.use_agent
       \/ stage = "identity" /\ ssh.identity_file # ""
       \/ NoMethods
       \/ stage = "hostkeys" /\ ~ ssh.insecure
       \/ stage = "dial"
    /\ stage' = "idle"
    /\ UNCHANGED <<ssh, methods, tries, dialVars>>

\* The registry closes the tunnel, and with it everything dialled through it.
Close ==
    /\ Step("up", "closed")
    /\ open' = {}
    /\ UNCHANGED <<ssh, methods, tries, caller, worker, ch, ctxDone>>

-----------------------------------------------------------------------------
\* DialContext

\* The driver dials; it may not have noticed that the tunnel was closed.
DialContext(d) ==
    /\ stage \in {"up", "closed"}
    /\ caller[d] = "none"
    /\ caller' = [caller EXCEPT ![d] = "select"]
    /\ worker' = [worker EXCEPT ![d] = "dialing"]
    /\ UNCHANGED <<setupVars, ch, ctxDone, open>>

\* client.Dial, in the worker.
WorkerConnects(d) ==
    /\ worker[d] = "dialing"
    /\ stage = "up"
    /\ worker' = [worker EXCEPT ![d] = "conn"]
    /\ open' = open \cup {d}
    /\ UNCHANGED <<setupVars, caller, ch, ctxDone>>

WorkerFails(d) ==
    /\ worker[d] = "dialing"
    /\ worker' = [worker EXCEPT ![d] = "error"]
    /\ UNCHANGED <<setupVars, caller, ch, ctxDone, open>>

\* Mutated Send: the channel has no place, so someone must be waiting.
SendUnbuffered(d) ==
    /\ worker[d] \in Result
    /\ ch[d] = "empty"
    /\ caller[d] = "select"
    /\ ch' = [ch EXCEPT ![d] = worker[d]]
    /\ worker' = [worker EXCEPT ![d] = "done"]
    /\ UNCHANGED <<setupVars, caller, ctxDone, open>>

\* The channel has one place: the worker never waits for its caller.
Send(d) ==
    /\ worker[d] \in Result
    /\ ch[d] = "empty"
    /\ ch' = [ch EXCEPT ![d] = worker[d]]
    /\ worker' = [worker EXCEPT ![d] = "done"]
    /\ UNCHANGED <<setupVars, caller, ctxDone, open>>

CtxEnds(d) ==
    /\ caller[d] = "select"
    /\ ctxDone' = ctxDone \cup {d}
    /\ UNCHANGED <<setupVars, caller, worker, ch, open>>

\* Mutated Cancelled: client.Dial runs in DialContext itself.
CancelledAfterDial(d) ==
    /\ caller[d] = "select"
    /\ d \in ctxDone
    /\ worker[d] # "dialing"
    /\ caller' = [caller EXCEPT ![d] = "ctx"]
    /\ UNCHANGED <<setupVars, worker, ch, ctxDone, open>>

\* Mutated Cancelled: the wait has a deadline of its own, too.
CancelledAnyTime(d) ==
    /\ caller[d] = "select"
    /\ caller' = [caller EXCEPT ![d] = "ctx"]
    /\ UNCHANGED <<setupVars, worker, ch, ctxDone, open>>

\* The select takes the context, also if the result is there.
Cancelled(d) ==
    /\ caller[d] = "select"
    /\ d \in ctxDone
    /\ caller' = [caller EXCEPT ![d] = "ctx"]
    /\ UNCHANGED <<setupVars, worker, ch, ctxDone, open>>

\* Mutated Receive: a channel that the worker closes, instead of sending an
\* error, or that is not ready, is read as well.
ReceiveNothing(d) ==
    /\ caller[d] = "select"
    /\ caller' = [caller EXCEPT ![d] = ch[d]]
    /\ ch' = [ch EXCEPT ![d] = "empty"]
    /\ UNCHANGED <<setupVars, worker, ctxDone, open>>

\* The select takes the result.
Receive(d) ==
    /\ caller[d] = "select"
    /\ ch[d] # "empty"
    /\ caller' = [caller EXCEPT ![d] = ch[d]]
    /\ ch' = [ch EXCEPT ![d] = "empty"]
    /\ UNCHANGED <<setupVars, worker, ctxDone, open>>

\* The driver closes a connection it was given.
Hangup(d) ==
    /\ caller[d] = "conn"
    /\ caller' = [caller EXCEPT ![d] = "over"]
    /\ open' = open \ {d}
    /\ UNCHANGED <<setupVars, worker, ch, ctxDone>>

-----------------------------------------------------------------------------

Setup ==
    \/ Try \/ AgentMethod \/ IdentityMethod \/ PasswordMethod \/ HostKeys
    \/ DialSucceeds \/ Fails \/ Close

Caller(d) == Cancelled(d) \/ Receive(d)

\* Every attempt has failed, or the tunnel is closed and nobody waits for it.
Rest ==
    /\ (stage = "idle" /\ tries = MaxTries) \/ stage = "closed"
    /\ \A d \in Dials : caller[d] # "select" /\ worker[d] # "dialing"
    /\ UNCHANGED vars

Next ==
    \/ Setup
    \/ \E d \in Dials :
        \/ DialContext(d) \/ CtxEnds(d) \/ Caller(d) \/ Hangup(d)
        \/ WorkerConnects(d) \/ WorkerFails(d) \/ Send(d)
    \/ Rest

Spec == Init /\ [][Next]_vars

\* Goroutines run.  An SSH server may leave a dial unanswered for ever; one
\* through a closed tunnel fails at once.
Fairness ==
    \A d \in Dials :
        /\ WF_vars(Caller(d))
        /\ WF_vars(Send(d))
        /\ WF_vars(stage = "closed" /\ WorkerFails(d))

FairSpec == Spec /\ Fairness
-----------------------------------------------------------------------------
\* Properties

\* A config that Load accepted never ends in "ssh: no usable authentication
\* methods": a password or identity file that is there only as an unset
\* environment variable is refused when the config is loaded.
UsableMethods == ~ NoMethods

\* A connection that a worker got is delivered, or is on its way to a caller
\* that still waits.  It is lost, open until the tunnel closes, only if the
\* context ended first; and nothing outlives the tunnel.
OnItsWay(d) == worker[d] = "conn" \/ ch[d] = "conn"

OpenIsDelivered ==
    \A d \in open :
        /\ stage = "up"
        /\ \/ caller[d] = "conn"
           \/ OnItsWay(d) /\ (caller[d] = "select" \/ d \in ctxDone)

\* What the driver sees of DialContext is a DialView: a dial given up leaves at most
\* one connection behind, and what is answered is open until it is hung up.
At(d) ==
    CASE caller[d] = "select" -> "waiting"
      [] caller[d] = "conn"   -> "given"
      [] caller[d] = "error"  -> "refused"
      [] caller[d] = "ctx"    -> IF OnItsWay(d) THEN "left" ELSE "abandoned"
      [] caller[d] \in {"none", "over"} -> caller[d]

View == INSTANCE DialView WITH
            at     <- [d \in Dials |-> At(d)],
            ended  <- ctxDone,
            open   <- {d \in open : caller[d] # "select"},
            closed <- stage = "closed"

ImplementsDialView == View!Spec

\* A context that ends is honoured, also if the SSH server never answers.
CtxIsHonoured == \A d \in Dials : d \in ctxDone ~> caller[d] # "select"

\* No worker outlives the tunnel, whoever still waits for it.
WorkersEnd ==
    \A d \in Dials : stage = "closed" /\ worker[d] # "none" ~> worker[d] = "done"

\* The inductive invariant of the safety properties.

AttemptHasMethod ==
    /\ stage \in {"identity", "password", "hostkeys"} /\ ssh.use_agent => methods # <<>>
    /\ stage \in {"password", "hostkeys"} /\ ssh.identity_file # "" => methods # <<>>
    /\ stage = "hostkeys" /\ ssh.password # "" => methods # <<>>

\* A worker that has not sent its result, or whose result is not taken, is waited
\* for, or was given up with the context; what a dial obtained is open while the
\* tunnel is.
WorkerIsAwaited ==
    \A d \in Dials :
        /\ caller[d] = "none" => worker[d] = "none" /\ ch[d] = "empty"
        /\ caller[d] # "none" => stage \in {"up", "closed"}
        /\ caller[d] = "ctx" => d \in ctxDone
        /\ worker[d] \in Result \cup {"dialing"} => ch[d] = "empty" /\ caller[d] \in {"select", "ctx"}
        /\ ch[d] # "empty" => caller[d] \in {"select", "ctx"}
        /\ stage = "up" /\ (caller[d] = "conn" \/ OnItsWay(d)) => d \in open

Inv ==
    /\ TypeOK
    /\ WorkerIsAwaited
    /\ AttemptHasMethod
    /\ stage \notin {"idle", "up", "closed"} => tries > 0
    /\ OpenIsDelivered
=============================================================================
