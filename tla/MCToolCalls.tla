---------------------------- MODULE MCToolCalls -----------------------------
(***************************************************************************)
(* Instances of ToolCalls for TLC.  A request varies only in the arguments *)
(* its tool has.                                                           *)
(***************************************************************************)
EXTENDS ToolCalls

CONSTANT c1

OneCaller == {c1}

Plain(tool) ==
    [tool |-> tool, limit |-> 0, skip |-> 0, pipeline |-> <<>>, many |-> 0]

Finds == {[Plain("find") EXCEPT !.limit = l, !.skip = k] :
              l \in -1..MaxDocs + 1, k \in -1..1}
Aggregates == {[Plain("aggregate") EXCEPT !.pipeline = p] : p \in Pipeline}
Manys == {[Plain(t) EXCEPT !.many = n] :
              t \in {"insertMany", "update", "delete"}, n \in 0..2}
Others == {Plain(t) : t \in {"listSources"} \cup
              ((ReadTools \cup WriteTools) \ {"find", "aggregate", "insertMany", "update", "delete"})}

AllRequests == Finds \cup Aggregates \cup Manys \cup Others
=============================================================================
