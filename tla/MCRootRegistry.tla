--------------------------- MODULE MCRootRegistry ---------------------------
(***************************************************************************)
(* Instances of RootRegistry for TLC.                                      *)
(***************************************************************************)
EXTENDS RootRegistry, TLC

CONSTANTS c1, c2, c3, p1

TwoCallers   == {c1, c2}
ThreeCallers == {c1, c2, c3}
OnePath      == {p1}

CallerSymmetry == Permutations(Callers)
=============================================================================
