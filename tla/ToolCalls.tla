----------------------------- MODULE ToolCalls ------------------------------
(***************************************************************************)
(* The tool handlers of internal/tools, from the registry a call resolves  *)
(* to the page of results it answers with: the read-only policy, the       *)
(* checks of the arguments, the bounds on results, and what the database   *)
(* makes of the operation.                                                 *)
(*                                                                         *)
(* The layers below are taken by what they promise: resolution answers a   *)
(* call with a version of the config that was current at some moment of    *)
(* the call (ConfigView.tla), Get with a connection to the source or an    *)
(* error (LazyPool.tla).  There is one source; its database is a number of *)
(* documents and a number of catalog entries (databases, collections,      *)
(* indexes), changed by the calls and by its other users.                  *)
(***************************************************************************)
EXTENDS Naturals, Integers, Sequences

CONSTANTS
    Callers,     \* goroutines running tool handlers
    MaxDocs,     \* the cap on results; 1000 in the code
    MaxStored,   \* bound: documents or entries the database holds
    MaxVersions, \* bound: versions of the config
    MaxStages,   \* bound: stages of a pipeline
    Requests     \* the requests clients make

Version == 0..MaxVersions

ReadTools == {"find", "aggregate", "count", "distinct", "indexes", "listNames"}
WriteTools ==
    {"insertOne", "insertMany", "update", "delete",
     "createIndex", "dropIndex", "createCollection", "dropCollection"}

\* A stage persists ($out or $merge), has no key at all, or only reads.
Stage == {"match", "out", "empty"}
Pipeline == UNION {[1..n -> Stage] : n \in 0..MaxStages}

\* What of a request matters here.  "many" counts the documents of insertMany,
\* is 2 for an update that may upsert, and not 0 for deleteMany.
Request ==
    [tool : ReadTools \cup WriteTools \cup {"listSources"},
     limit : -1..MaxDocs + 1, skip : -1..1, pipeline : Pipeline, many : 0..2]

ASSUME ToolCallsAssumption ==
    /\ MaxDocs \in Nat \ {0} /\ MaxStored \in Nat /\ MaxVersions \in Nat
    /\ MaxStages \in Nat
    /\ Requests \subseteq Request /\ Requests # {}

VARIABLES
    readonly,    \* the readonly flag of the source in each version of the config
    current,     \* the version the config has
    docs,        \* documents in the collection
    entries,     \* catalog entries
    pc,          \* where a caller is in its handler
    req,         \* the request it handles
    since,       \* the version the config had when the call started
    ver,         \* the version the resolved registry was built from
    reply        \* the answer, and what became of the operation

vars == <<readonly, current, docs, entries, pc, req, since, ver, reply>>
store == <<docs, entries>>
config == <<readonly, current>>

Reply ==
    [err : BOOLEAN, count : Nat, more : BOOLEAN,
     available : Nat,       \* history: results there were to return
     wrote : BOOLEAN,       \* history: the database was changed by the call
     rejected : BOOLEAN]    \* history: the server refused the pipeline

Nothing ==
    [err |-> FALSE, count |-> 0, more |-> FALSE, available |-> 0,
     wrote |-> FALSE, rejected |-> FALSE]
Error == [Nothing EXCEPT !.err = TRUE]

TypeOK ==
    /\ readonly \in [Version -> BOOLEAN]
    /\ current \in Version
    /\ docs \in 0..MaxStored
    /\ entries \in 0..MaxStored
    /\ pc \in [Callers -> {"idle", "resolve", "get", "parse", "run", "done"}]
    /\ req \in [Callers -> Requests]
    /\ since \in [Callers -> Version]
    /\ ver \in [Callers -> Version]
    /\ reply \in [Callers -> Reply]
    /\ \A c \in Callers :
          /\ since[c] <= current
          /\ pc[c] # "done" => reply[c] = Nothing

Init ==
    /\ readonly \in [Version -> BOOLEAN]
    /\ current = 0
    /\ docs \in 0..MaxStored
    /\ entries \in 0..MaxStored
    /\ pc = [c \in Callers |-> "idle"]
    /\ req \in [Callers -> {CHOOSE r \in Requests : TRUE}]
    /\ since = [c \in Callers |-> 0]
    /\ ver = [c \in Callers |-> 0]
    /\ reply = [c \in Callers |-> Nothing]

-----------------------------------------------------------------------------
\* The environment

\* The config file is edited and may change the policy.
Edit ==
    /\ current < MaxVersions
    /\ current' = current + 1
    /\ UNCHANGED <<readonly, store, pc, req, since, ver, reply>>

\* Other users of the database.
OthersWrite ==
    /\ docs' \in 0..MaxStored /\ entries' \in 0..MaxStored
    /\ UNCHANGED <<config, pc, req, since, ver, reply>>

-----------------------------------------------------------------------------
\* The steps all handlers share

Goto(c, from, to) == pc[c] = from /\ pc' = [pc EXCEPT ![c] = to]
Tool(c) == req[c].tool

Call(c, r) ==
    /\ Goto(c, "idle", "resolve")
    /\ req' = [req EXCEPT ![c] = r]
    /\ since' = [since EXCEPT ![c] = current]
    /\ UNCHANGED <<config, store, ver, reply>>

\* A handler ends with this answer.
Finish(c, from, answer) ==
    /\ Goto(c, from, "done")
    /\ reply' = [reply EXCEPT ![c] = answer]
    /\ UNCHANGED <<config, req, since, ver>>

Refuse(c, from) == Finish(c, from, Error) /\ UNCHANGED store

\* Resolver.Registry.
Resolve(c) ==
    /\ Goto(c, "resolve", "get")
    /\ \E v \in since[c]..current : ver' = [ver EXCEPT ![c] = v]
    /\ UNCHANGED <<config, store, req, since, reply>>

\* No config resolves, or it cannot be loaded.
ResolveFails(c) == Refuse(c, "resolve")

\* listSources answers from the registry alone.
ListSources(c) ==
    /\ Tool(c) = "listSources"
    /\ Finish(c, "get", [Nothing EXCEPT !.count = 1, !.available = 1])
    /\ UNCHANGED store

\* Registry.Get, for the tools that read.
Get(c) ==
    /\ Tool(c) \in ReadTools
    /\ Goto(c, "get", "parse")
    /\ UNCHANGED <<config, store, req, since, ver, reply>>

\* Mutated RequireWritable: the policy is not looked at.
RequireConnected(c) ==
    /\ Tool(c) \in WriteTools
    /\ Goto(c, "get", "parse")
    /\ UNCHANGED <<config, store, req, since, ver, reply>>

\* Registry.RequireWritable, for the tools that write: the source is connected
\* and the config it was connected by lets it be written.
RequireWritable(c) ==
    /\ Tool(c) \in WriteTools
    /\ ~ readonly[ver[c]]
    /\ Goto(c, "get", "parse")
    /\ UNCHANGED <<config, store, req, since, ver, reply>>

\* Unknown source, no connection, or ErrReadOnly.
GetFails(c) == Tool(c) # "listSources" /\ Refuse(c, "get")

\* Mutated PipelineWrites: only the first stage is looked at.
FirstStageWrites(p) == p # <<>> /\ p[1] = "out"

\* pipelineWrites.
PipelineWrites(p) == \E i \in DOMAIN p : p[i] = "out"

\* The database and the collection have names, the JSON arguments parse, and a
\* pipeline that writes is for a source that may be written.
Parse(c) ==
    /\ Goto(c, "parse", "run")
    /\ Tool(c) = "aggregate" /\ PipelineWrites(req[c].pipeline) => ~ readonly[ver[c]]
    /\ UNCHANGED <<config, store, req, since, ver, reply>>

ParseFails(c) == Refuse(c, "parse")

\* The operation fails or times out before it changed anything.
OperationFails(c) == Refuse(c, "run")

\* Mutated Done: the next call of the goroutine starts with this answer.
DoneKeepsReply(c) ==
    /\ Goto(c, "done", "idle")
    /\ since' = [since EXCEPT ![c] = 0]
    /\ ver' = [ver EXCEPT ![c] = 0]
    /\ UNCHANGED <<config, store, req, reply>>

Done(c) ==
    /\ Goto(c, "done", "idle")
    /\ reply' = [reply EXCEPT ![c] = Nothing]
    /\ since' = [since EXCEPT ![c] = 0]
    /\ ver' = [ver EXCEPT ![c] = 0]
    /\ UNCHANGED <<config, store, req>>

-----------------------------------------------------------------------------
\* Reading

Smaller(m, n) == IF m < n THEN m ELSE n

\* capDocs: a page of at most limit of the n fetched results.
CapDocs(n, limit) ==
    [Nothing EXCEPT !.count = Smaller(n, limit), !.more = n > limit]

\* The limit of find: absent, negative and larger ones mean the cap.
Limit(r) == IF r.limit <= 0 \/ r.limit > MaxDocs THEN MaxDocs ELSE r.limit

Skipped(r, n) == IF r.skip > 0 THEN n - Smaller(r.skip, n) ELSE n

Read(c, tool, answer) ==
    /\ Tool(c) = tool
    /\ Finish(c, "run", answer)
    /\ UNCHANGED store

\* Mutated Find: no extra document is fetched.
FindOnePage(c) ==
    \E matching \in 0..docs :
        LET r == req[c]
            n == Skipped(r, matching)
        IN  Read(c, "find", [CapDocs(Smaller(n, Limit(r)), Limit(r)) EXCEPT !.available = n])

\* find fetches one document more than it may return.
Find(c) ==
    \E matching \in 0..docs :
        LET r == req[c]
            n == Skipped(r, matching)
        IN  Read(c, "find", [CapDocs(Smaller(n, Limit(r) + 1), Limit(r)) EXCEPT !.available = n])

\* What the server is sent: a pipeline that only reads gets a final $limit.
Sent(p) == IF PipelineWrites(p) THEN p ELSE Append(p, "limit")

\* The server takes stages with a key, and $out or $merge as the last one only.
Accepted(p) ==
    \A i \in DOMAIN p : p[i] # "empty" /\ (p[i] = "out" => i = Len(p))

AggregateRejected(c) ==
    /\ ~ Accepted(Sent(req[c].pipeline))
    /\ Read(c, "aggregate", [Error EXCEPT !.rejected = TRUE])

AggregateReads(c) ==
    LET p == req[c].pipeline
    IN  /\ Accepted(Sent(p)) /\ ~ PipelineWrites(p)
        /\ \E n \in 0..docs :
              Read(c, "aggregate", [CapDocs(Smaller(n, MaxDocs + 1), MaxDocs) EXCEPT !.available = n])

\* An insertion creates the collection it finds missing.
Creatable == {entries, entries + 1}

\* $out and $merge return no documents; the answer may be lost on its way.
AggregateWrites(c) ==
    LET p == req[c].pipeline
    IN  /\ Tool(c) = "aggregate"
        /\ Accepted(Sent(p)) /\ PipelineWrites(p)
        /\ \E lost \in BOOLEAN :
              Finish(c, "run", [Nothing EXCEPT !.wrote = TRUE, !.err = lost])
            /\ docs' \in 0..MaxStored /\ entries' \in Creatable \cap 0..MaxStored

\* count answers with one number.
Count(c) == Read(c, "count", [Nothing EXCEPT !.count = 1, !.available = 1])

\* distinct fetches all values and returns a page of them.
Distinct(c) ==
    \E n \in 0..docs : Read(c, "distinct", [CapDocs(n, MaxDocs) EXCEPT !.available = n])

Indexes(c) == Read(c, "indexes", [CapDocs(entries, MaxDocs) EXCEPT !.available = entries])

\* listDatabases and listCollections return every name.
ListNames(c) ==
    Read(c, "listNames", [Nothing EXCEPT !.count = entries, !.available = entries])

-----------------------------------------------------------------------------
\* Writing

\* The operation takes effect; the answer may be lost on its way.
Write(c, tool, newDocs, newEntries) ==
    /\ Tool(c) = tool
    /\ docs' \in newDocs \cap 0..MaxStored
    /\ entries' \in newEntries \cap 0..MaxStored
    /\ \E lost \in BOOLEAN :
          Finish(c, "run", [Nothing EXCEPT !.wrote = TRUE, !.err = lost])

InsertOne(c) == Write(c, "insertOne", {docs + 1}, Creatable)

\* The driver refuses an empty list.
InsertMany(c) ==
    /\ req[c].many > 0
    /\ Write(c, "insertMany", {docs + req[c].many}, Creatable)

\* One of the documents is refused: those before it are in, the call fails.
InsertManyStops(c) ==
    /\ Tool(c) = "insertMany"
    /\ \E n \in 1..req[c].many - 1 : docs' = docs + n
    /\ docs' <= MaxStored
    /\ entries' \in Creatable \cap 0..MaxStored
    /\ Finish(c, "run", [Error EXCEPT !.wrote = TRUE])

\* updateOne, updateMany: documents change, and none matching is inserted by an
\* upsert.
Update(c) ==
    \/ Write(c, "update", {docs}, {entries})
    \/ req[c].many = 2 /\ Write(c, "update", {docs + 1}, Creatable)

\* deleteOne, deleteMany.
Delete(c) ==
    Write(c, "delete",
          IF req[c].many > 0 THEN 0..docs ELSE {docs, docs - 1}, {entries})

CreateIndex(c) == Write(c, "createIndex", {docs}, Creatable)
DropIndex(c) == Write(c, "dropIndex", {docs}, {entries - 1})
CreateCollection(c) == Write(c, "createCollection", {docs}, {entries + 1})
DropCollection(c) == Write(c, "dropCollection", {0, docs}, 0..entries)

-----------------------------------------------------------------------------

Aggregate(c) == AggregateRejected(c) \/ AggregateReads(c) \/ AggregateWrites(c)
Reads(c) ==
    \/ Find(c) \/ Aggregate(c) \/ Count(c)
    \/ Distinct(c) \/ Indexes(c) \/ ListNames(c)
Writes(c) ==
    \/ InsertOne(c) \/ InsertMany(c) \/ InsertManyStops(c)
    \/ Update(c) \/ Delete(c)
    \/ CreateIndex(c) \/ DropIndex(c)
    \/ CreateCollection(c) \/ DropCollection(c)

Next ==
    \/ Edit \/ OthersWrite
    \/ \E c \in Callers, r \in Requests : Call(c, r)
    \/ \E c \in Callers :
          \/ Resolve(c) \/ ResolveFails(c)
          \/ ListSources(c) \/ Get(c) \/ RequireWritable(c) \/ GetFails(c)
          \/ Parse(c) \/ ParseFails(c)
          \/ Reads(c) \/ Writes(c) \/ OperationFails(c)
          \/ Done(c)

Spec == Init /\ [][Next]_vars
-----------------------------------------------------------------------------
\* Properties

Ended(c) == pc[c] = "done"

\* A call changes the database only if the config allowed it at some moment of
\* the call, whichever tool it uses, however often the config is edited
\* meanwhile and also when the call ends in an error: an aggregation is no way
\* around a read-only source.
WritesWereAllowed ==
    \A c \in Callers : Ended(c) /\ reply[c].wrote =>
        \E v \in since[c]..current : ~ readonly[v]

\* The inductive invariant behind WritesWereAllowed: past its policy check, a
\* call that will write holds a version that lets it.
MayWrite(c) ==
    \/ Tool(c) \in WriteTools
    \/ Tool(c) = "aggregate" /\ PipelineWrites(req[c].pipeline)

PolicyInv ==
    /\ TypeOK
    /\ \A c \in Callers :
          /\ pc[c] \in {"get", "parse", "run"} => since[c] <= ver[c] /\ ver[c] <= current
          /\ pc[c] = "parse" /\ Tool(c) \in WriteTools => ~ readonly[ver[c]]
          /\ pc[c] = "run" /\ MayWrite(c) => ~ readonly[ver[c]]
    /\ WritesWereAllowed

Paged == {"find", "aggregate", "distinct", "indexes"}

PageLimit(c) == IF Tool(c) = "find" THEN Limit(req[c]) ELSE MaxDocs

\* A page holds what there is up to its limit, and hasMore is set exactly when
\* something was left out, also at the limit itself.
PagesAreExact ==
    \A c \in Callers :
        Ended(c) /\ ~ reply[c].err /\ Tool(c) \in Paged /\ ~ reply[c].wrote =>
            /\ reply[c].count = Smaller(reply[c].available, PageLimit(c))
            /\ reply[c].more <=> reply[c].available > reply[c].count

\* The bound put on pipelines that read never spoils one that is right: the
\* server rejects what a handler sends only if the client's pipeline is wrong.
ValidPipelinesRun ==
    \A c \in Callers :
        Ended(c) /\ reply[c].rejected => ~ Accepted(req[c].pipeline)

\* Of resolution the handlers ask what ConfigView promises, for one config file: 0.
Working(c) == pc[c] \notin {"idle", "done"}

View == INSTANCE ConfigView WITH
    Paths   <- {0},
    None    <- -1,
    current <- [p \in {0} |-> current],
    asked   <- [c \in Callers |-> IF Working(c) THEN 0 ELSE -1],
    since   <- [c \in Callers |-> IF Working(c) THEN since[c] ELSE 0],
    got     <- [c \in Callers |-> IF pc[c] \in {"get", "parse", "run"} THEN ver[c] ELSE -1]

ImplementsView == View!Spec
=============================================================================
