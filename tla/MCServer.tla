------------------------------ MODULE MCServer ------------------------------
(***************************************************************************)
(* An instance of Server for TLC: files that load, with different trusted  *)
(* origins and timeouts, and one whose URI is not in the environment;      *)
(* requests whose headers name roots with and without a config.            *)
(***************************************************************************)
EXTENDS Server

CONSTANTS bare, home, work   \* roots

File(uri, origins, timeout) ==
    [addr |-> "", path |-> "", origins |-> origins,
     sources |-> [n \in {"db"} |->
        [uri |-> uri, connect_timeout |-> timeout, operation_timeout |-> "", ssh |-> None]]]

MCFiles ==
    {File("plain", {"valid", "invalid"}, ""), File("plain${unset}", {"*"}, "0s"),
     File("${unset}", {}, "5s")}

Value(kind, path) == <<[kind |-> kind, path |-> path]>>

From(origin, first, last, roots) ==
    [origin |-> origin, headers |-> <<<<>>, first, last, <<>>>>, roots |-> roots]

MCInputs ==
    {From("own", <<>>, <<>>, <<>>),
     From("other", <<>>, <<>>, <<home>>),
     From("own", <<>>, Value("blank", home), <<bare, work>>),
     From("valid", Value("file", bare) \o Value("other", home), Value("drive", work), <<home>>),
     From("own", Value("absolute", work), Value("file", home), <<>>)}

TwoRoots == {home, work}
ThreePaths == {bare, home, work}
=============================================================================
