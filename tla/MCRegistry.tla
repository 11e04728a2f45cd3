----------------------------- MODULE MCRegistry -----------------------------
(***************************************************************************)
(* Instances of Registry for TLC: two or three callers, one source behind  *)
(* a tunnel and one reached directly.                                      *)
(***************************************************************************)
EXTENDS Registry

CONSTANTS c1, c2, c3, direct, remote

TwoCallers   == {c1, c2}
ThreeCallers == {c1, c2, c3}
TwoSources   == {direct, remote}
OneTunnel    == {remote}
=============================================================================
