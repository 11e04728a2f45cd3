------------------------------- MODULE Config -------------------------------
(***************************************************************************)
(* internal/config/config.go: what Load makes of a config file.  Defaults, *)
(* environment expansion and validation are functions of the decoded       *)
(* document; the file system and the JSON decoder only decide whether      *)
(* there is one.                                                           *)
(*                                                                         *)
(* A text is what these functions tell apart: empty, plain, a variable     *)
(* that is set, one that is not, or one that is not with plain text around *)
(* it.  A duration is its text, and parses to seconds.                     *)
(***************************************************************************)
EXTENDS Integers

CONSTANTS
    None,        \* no ssh block
    Names        \* source names a config file may use; "" may be one of them

Text == {"", "plain", "${set}", "${unset}", "plain${unset}"}
Duration == {"", "soon", "0s", "5s", "-1s"}
Parses == {"0s", "5s", "-1s"}

SSHConfig ==
    [host : Text, port : Nat, user : Text, use_agent : BOOLEAN,
     identity_file : Text, passphrase : Text, password : Text,
     known_hosts_file : Text, insecure : BOOLEAN]

SourceConfig ==
    [uri : Text, connect_timeout : Duration, operation_timeout : Duration,
     ssh : SSHConfig \cup {None}]

\* What an entry of http.allowed_origins may be.
Origin == {"*", "valid", "invalid"}

\* A decoded document: of its http section the address, the path and the origins.
IsDocument(doc) ==
    /\ DOMAIN doc = {"addr", "path", "origins", "sources"}
    /\ doc.addr \in Text /\ doc.path \in Text /\ doc.origins \subseteq Origin
    /\ DOMAIN doc.sources \subseteq Names
    /\ \A n \in DOMAIN doc.sources : doc.sources[n] \in SourceConfig

ASSUME NoneIsNoBlock == None \notin SSHConfig

-----------------------------------------------------------------------------
\* The steps of Load

WithDefaultPort(src) ==
    IF src.ssh # None /\ src.ssh.port = 0 THEN [src EXCEPT !.ssh.port = 22] ELSE src

ApplyDefaults(cfg) ==
    [cfg EXCEPT !.addr = IF @ = "" THEN "plain" ELSE @,
                !.path = IF @ = "" THEN "plain" ELSE @,
                !.sources = [n \in DOMAIN cfg.sources |-> WithDefaultPort(cfg.sources[n])]]

\* os.Expand over os.Getenv: an unset variable is the empty string.
Expand(t) ==
    CASE t = "${unset}" -> ""
      [] t \in {"${set}", "plain${unset}"} -> "plain"
      [] OTHER -> t

ExpandSSH(s) ==
    IF s = None THEN None
    ELSE [s EXCEPT !.password = Expand(@), !.passphrase = Expand(@),
                   !.identity_file = Expand(@), !.known_hosts_file = Expand(@)]

\* The secret-bearing fields, and no others.
ExpandSource(src) == [src EXCEPT !.uri = Expand(@), !.ssh = ExpandSSH(@)]

ExpandEnv(cfg) ==
    [cfg EXCEPT !.sources = [n \in DOMAIN cfg.sources |-> ExpandSource(cfg.sources[n])]]

HasMethod(s) == s.identity_file # "" \/ s.password # "" \/ s.use_agent

ValidSSH(s) == s.host # "" /\ s.user # "" /\ HasMethod(s)

ValidSource(name, src) ==
    /\ name # ""
    /\ src.uri # ""
    /\ src.connect_timeout \in Parses \cup {""}
    /\ src.operation_timeout \in Parses \cup {""}
    /\ src.ssh # None => ValidSSH(src.ssh)

Validate(cfg) ==
    /\ DOMAIN cfg.sources # {}
    /\ \A n \in DOMAIN cfg.sources : ValidSource(n, cfg.sources[n])

\* Mutated Loaded: the document is validated as it is in the file.
LoadedExpandsLast(doc) ==
    IF Validate(ApplyDefaults(doc)) THEN ExpandEnv(ApplyDefaults(doc)) ELSE None

\* What Load returns for a file that was read and decoded; None for an error.
Loaded(doc) ==
    LET cfg == ExpandEnv(ApplyDefaults(doc)) IN IF Validate(cfg) THEN cfg ELSE None

\* The config of a server that has no file: no sources, and the defaults.
Default ==
    ApplyDefaults([addr |-> "", path |-> "", origins |-> {}, sources |-> [n \in {} |-> None]])

-----------------------------------------------------------------------------
\* What connect bounds its ping by; 0 and less leave it no time.

Seconds(d) == CASE d = "5s" -> 5 [] d = "-1s" -> -1 [] OTHER -> 0

ConnectTimeoutOrDefault(src) ==
    IF src.connect_timeout \in Parses THEN Seconds(src.connect_timeout) ELSE 10
=============================================================================
