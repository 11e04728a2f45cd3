------------------------------- MODULE Roots --------------------------------
(***************************************************************************)
(* internal/source/roots.go: the workspace roots a request's headers name, *)
(* and the first of them that holds a config.                              *)
(*                                                                         *)
(* The value of a header is the sequence of the parts between its commas,  *)
(* over all its lines.  Of a part these functions tell apart whether it is *)
(* blank, a bare absolute path, a file URI, one with a drive letter or     *)
(* anything else, and which local path it stands for.                      *)
(***************************************************************************)
EXTENDS Naturals, Sequences, FiniteSetsExt

CONSTANTS
    Paths,       \* local paths
    NoPath       \* the empty path

ASSUME RootsAssumption == NoPath \notin Paths

RootHeaders == <<"X-Mcp-Roots", "X-Mcp-Root", "Mcp-Roots", "Mcp-Root">>

Part == [kind : {"blank", "absolute", "file", "drive", "other"}, path : Paths]

\* A header is absent if it has no parts.
Headers == [DOMAIN RootHeaders -> Seq(Part)]

-----------------------------------------------------------------------------

FileURIToPath(part) ==
    IF part.kind \in {"absolute", "file", "drive"} THEN part.path ELSE NoPath

IsRoot(part) == FileURIToPath(part) # NoPath

\* What the loop over the parts has listed after each of them.
Listed(parts) ==
    LET list[i \in 0..Len(parts)] ==
            IF i = 0 THEN <<>>
            ELSE IF IsRoot(parts[i]) THEN Append(list[i - 1], FileURIToPath(parts[i]))
            ELSE list[i - 1]
    IN  list

Parts(h) == h[1] \o h[2] \o h[3] \o h[4]

RootsFromHeaders(h) == Listed(Parts(h))[Len(Parts(h))]

Having(roots, configured) == {i \in DOMAIN roots : roots[i] \in configured}

\* Mutated FirstRootConfig: every root is looked at, the last one wins.
LastRootConfig(roots, configured) ==
    LET having == Having(roots, configured)
    IN  IF having = {} THEN NoPath ELSE roots[Max(having)]

\* The first root in which there is a config file.
FirstRootConfig(roots, configured) ==
    LET having == Having(roots, configured)
    IN  IF having = {} THEN NoPath ELSE roots[Min(having)]

-----------------------------------------------------------------------------
\* What they promise, without the order in which they go about it: part i of
\* header n names a configured root, and no part before it does.

Naming(h, n, i, configured) == IsRoot(h[n][i]) /\ h[n][i].path \in configured

IsFirstNamed(path, h, configured) ==
    \E n \in DOMAIN h : \E i \in DOMAIN h[n] :
        /\ h[n][i].path = path /\ Naming(h, n, i, configured)
        /\ \A m \in 1..n : \A j \in DOMAIN h[m] :
               (m < n \/ j < i) => ~ Naming(h, m, j, configured)

NoneNamed(h, configured) ==
    \A n \in DOMAIN h : \A i \in DOMAIN h[n] : ~ Naming(h, n, i, configured)
=============================================================================
