---------------------------- MODULE MCWorkspace -----------------------------
(***************************************************************************)
(* Instances of Workspace for TLC: two handlers of one workspace.          *)
(***************************************************************************)
EXTENDS Workspace, TLC

CONSTANTS c1, c2, p1

TwoCallers == {c1, c2}
OnePath    == {p1}

CallerSymmetry == Permutations(Callers)
=============================================================================
