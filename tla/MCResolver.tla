----------------------------- MODULE MCResolver -----------------------------
(***************************************************************************)
(* Instances of Resolver for TLC: sessions with and without the roots      *)
(* capability, a tenant injected by a header, and root lists with and      *)
(* without a config.                                                       *)
(***************************************************************************)
EXTENDS Resolver, TLC

CONSTANTS c1, c2, editor, proxy, viewer, tenant, base

TwoCallers  == {c1, c2}
OneSession  == {editor}
TwoSessions == {editor, proxy}
AllSessions == {editor, proxy, viewer}
OneTenant   == {tenant}
NoTenant    == {}

\* The first root list of every client has no config, the later ones do.
LaterRooted == HeaderRoots \cup {r \in RootList : r.gen > 0}

\* Every workspace has one.
AllRooted == HeaderRoots \cup RootList

CallerSymmetry == Permutations(Callers)
=============================================================================
