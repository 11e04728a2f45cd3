----------------------------- MODULE Connection -----------------------------
(***************************************************************************)
(* One source of a registry, as the goroutines that share it may rely on:  *)
(* a Get is answered with the connection that is open, or opens it and     *)
(* holds the registry's mutex until it knows how that ended; nothing but   *)
(* Close, under the same mutex, ends a connection.  Registry.tla is shown  *)
(* to keep this contract for each of its sources.  Workspace.tla and       *)
(* Server.tla, which have no more of a registry than the contract speaks   *)
(* of, are shown to ask no more of it.                                     *)
(***************************************************************************)
CONSTANTS
    Callers,     \* the goroutines that call Get
    Closer,      \* the goroutine that calls Close
    Nobody

VARIABLES
    mutex,       \* the registry's mutex: its holder, or Nobody
    open,        \* the source is connected
    at           \* where a caller is with this source

connectionVars == <<mutex, open, at>>

Init ==
    /\ mutex = Nobody
    /\ open = FALSE
    /\ at = [c \in Callers |-> "none"]

Goto(c, from, to) == at[c] = from /\ at' = [at EXCEPT ![c] = to]

Locks(c)   == mutex = Nobody /\ mutex' = c
Unlocks(c) == mutex = c /\ mutex' = Nobody

Get(c)       == Goto(c, "none", "locking") /\ UNCHANGED <<mutex, open>>
Hit(c)       == Goto(c, "locking", "operating") /\ mutex = Nobody /\ open /\ UNCHANGED <<mutex, open>>
Miss(c)      == Goto(c, "locking", "connecting") /\ Locks(c) /\ ~ open /\ UNCHANGED open
Connected(c) == Goto(c, "connecting", "operating") /\ Unlocks(c) /\ open' = TRUE
Fails(c)     == Goto(c, "connecting", "none") /\ Unlocks(c) /\ UNCHANGED open
Leave(c)     == Goto(c, "operating", "none") /\ UNCHANGED <<mutex, open>>

\* Another source of the registry is being connected.
Elsewhere(c) == at[c] = "none" /\ (Locks(c) \/ Unlocks(c)) /\ UNCHANGED <<open, at>>

\* Close: the source is disconnected when the mutex is released, or before.
CloseLocks == Locks(Closer) /\ UNCHANGED <<open, at>>

CloseGoesOn ==
    /\ mutex = Closer /\ mutex' \in {Closer, Nobody}
    /\ open' = FALSE
    /\ UNCHANGED at

Next ==
    \/ \E c \in Callers :
        \/ Get(c) \/ Hit(c) \/ Miss(c) \/ Connected(c) \/ Fails(c) \/ Leave(c)
        \/ Elsewhere(c)
    \/ CloseLocks \/ CloseGoesOn

Spec == Init /\ [][Next]_connectionVars
=============================================================================
