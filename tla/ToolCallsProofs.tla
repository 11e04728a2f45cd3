-------------------------- MODULE ToolCallsProofs ---------------------------
(***************************************************************************)
(* Proofs about ToolCalls.tla, for every cap on results, every set of      *)
(* requests and every bound.                                               *)
(***************************************************************************)
EXTENDS ToolCalls, TLAPS

LEMMA NothingType == Nothing \in Reply
  BY DEF Nothing, Reply

LEMMA TypeInit == Init => TypeOK
<1> SUFFICES ASSUME Init PROVE TypeOK
  OBVIOUS
<1>1. (CHOOSE r \in Requests : TRUE) \in Requests
  BY ToolCallsAssumption
<1>2. req \in [Callers -> Requests]
  BY <1>1 DEF Init
<1>3. readonly \in [Version -> BOOLEAN] /\ current \in Version
  BY ToolCallsAssumption DEF Init, Version
<1> QED
  BY <1>2, <1>3, ToolCallsAssumption, NothingType DEF Init, TypeOK, Version

\* How the answers of the handlers are built.
LEMMA AnswerType ==
  ASSUME NEW n \in Nat, NEW m \in Nat, NEW b \in BOOLEAN, NEW l \in Nat
  PROVE  /\ Error \in Reply
         /\ [Nothing EXCEPT !.count = n, !.available = m] \in Reply
         /\ [Nothing EXCEPT !.wrote = TRUE, !.err = b] \in Reply
         /\ [Error EXCEPT !.wrote = TRUE] \in Reply
         /\ [Error EXCEPT !.rejected = TRUE] \in Reply
         /\ [CapDocs(n, l) EXCEPT !.available = m] \in Reply
<1>1. Smaller(n, l) \in Nat
  BY DEF Smaller
<1>2. (n > l) \in BOOLEAN
  OBVIOUS
<1> QED
  BY <1>1, <1>2, Zenon DEF Nothing, Error, CapDocs, Reply

\* A handler that ends with an answer keeps the types.
LEMMA FinishType ==
  ASSUME TypeOK, NEW c \in Callers, NEW from, NEW answer \in Reply,
         Finish(c, from, answer),
         docs' \in 0..MaxStored, entries' \in 0..MaxStored
  PROVE  TypeOK'
  BY DEF TypeOK, Finish, Goto, config

-----------------------------------------------------------------------------
\* How handlers end

\* An answer that fits its request, and the effect on the database with it.
EndsWell(c, from, answer) ==
    /\ Finish(c, from, answer)
    /\ answer \in Reply
    /\ docs' \in 0..MaxStored /\ entries' \in 0..MaxStored
    /\ answer.wrote => from = "run" /\ MayWrite(c)
    /\ answer.rejected => ~ Accepted(req[c].pipeline)
    /\ ~ answer.err /\ Tool(c) \in Paged /\ ~ answer.wrote =>
          /\ answer.count = Smaller(answer.available, PageLimit(c))
          /\ answer.more <=> answer.available > answer.count

Ending(c) == \E from, answer : EndsWell(c, from, answer)

LEMMA Refused ==
  ASSUME TypeOK, NEW c \in Callers, NEW from, Refuse(c, from)
  PROVE  Ending(c)
<1>1. Error \in Reply /\ ~ Error.wrote /\ ~ Error.rejected /\ Error.err
  BY AnswerType, Zenon DEF Error, Nothing
<1> QED
  BY <1>1 DEF Refuse, TypeOK, store, EndsWell, Ending

\* A page of at most limit of n results, cut from limit + 1 fetched ones or
\* from all of them, is exact.
Page(fetched, limit, n) == [CapDocs(fetched, limit) EXCEPT !.available = n]

LEMMA ExactPage ==
  ASSUME NEW n \in Nat, NEW limit \in Nat,
         NEW fetched \in {n, Smaller(n, limit + 1)}
  PROVE  /\ Page(fetched, limit, n) \in Reply
         /\ ~ Page(fetched, limit, n).wrote /\ ~ Page(fetched, limit, n).rejected
         /\ Page(fetched, limit, n).available = n
         /\ Page(fetched, limit, n).count = Smaller(n, limit)
         /\ Page(fetched, limit, n).more <=> n > Smaller(n, limit)
<1>1. fetched \in Nat
  BY DEF Smaller
<1>2. Page(fetched, limit, n) \in Reply
  BY <1>1, AnswerType DEF Page
<1>3. /\ Page(fetched, limit, n).available = n
      /\ Page(fetched, limit, n).count = Smaller(fetched, limit)
      /\ Page(fetched, limit, n).more = (fetched > limit)
      /\ Page(fetched, limit, n).wrote = FALSE
      /\ Page(fetched, limit, n).rejected = FALSE
  BY Zenon DEF Page, CapDocs, Nothing
<1>4. Smaller(fetched, limit) = Smaller(n, limit) /\ (fetched > limit <=> n > Smaller(n, limit))
  BY DEF Smaller
<1> QED
  BY <1>2, <1>3, <1>4

LEMMA PageEnds ==
  ASSUME TypeOK, NEW c \in Callers, NEW tool \in Paged, NEW n \in Nat,
         NEW limit \in Nat, limit = PageLimit(c),
         NEW fetched \in {n, Smaller(n, limit + 1)},
         Read(c, tool, Page(fetched, limit, n))
  PROVE  Ending(c)
<1>1. Finish(c, "run", Page(fetched, limit, n)) /\ docs' = docs /\ entries' = entries
  BY DEF Read, store
<1>2. PICK answer : answer = Page(fetched, limit, n)
  OBVIOUS
<1>3. /\ answer \in Reply /\ ~ answer.wrote /\ ~ answer.rejected
      /\ answer.available = n /\ answer.count = Smaller(n, limit)
      /\ answer.more <=> n > Smaller(n, limit)
  <2>1. /\ Page(fetched, limit, n) \in Reply
        /\ ~ Page(fetched, limit, n).wrote /\ ~ Page(fetched, limit, n).rejected
        /\ Page(fetched, limit, n).available = n
        /\ Page(fetched, limit, n).count = Smaller(n, limit)
        /\ Page(fetched, limit, n).more <=> n > Smaller(n, limit)
    BY ExactPage, Zenon
  <2> QED
    BY <1>2, <2>1, Zenon
<1> QED
  BY <1>1, <1>2, <1>3 DEF EndsWell, Ending, TypeOK

LEMMA ReadsEnd ==
  ASSUME TypeOK, NEW c \in Callers, Reads(c)
  PROVE  Ending(c)
<1> USE DEF TypeOK
<1>1. MaxDocs \in Nat /\ docs \in Nat /\ entries \in Nat
  BY ToolCallsAssumption
<1>2. req[c] \in Request /\ req[c].limit \in Int /\ req[c].skip \in Int
  BY ToolCallsAssumption DEF Request
<1>3. CASE Find(c)
  <2>1. PICK matching \in 0..docs :
          LET n == Skipped(req[c], matching)
          IN  Read(c, "find", [CapDocs(Smaller(n, Limit(req[c]) + 1), Limit(req[c]))
                                 EXCEPT !.available = n])
    BY <1>3 DEF Find
  <2>2. Skipped(req[c], matching) \in Nat
    BY <1>1, <1>2 DEF Skipped, Smaller
  <2>3. Limit(req[c]) \in Nat
    BY <1>1, <1>2 DEF Limit
  <2>4. Limit(req[c]) = PageLimit(c)
    BY <2>1 DEF Read, PageLimit
  <2> QED
    BY <2>1, <2>2, <2>3, <2>4, PageEnds DEF Paged, Page
<1>4. CASE AggregateRejected(c)
  <2>1. Finish(c, "run", [Error EXCEPT !.rejected = TRUE]) /\ UNCHANGED store
    BY <1>4 DEF AggregateRejected, Read
  <2>2. [Error EXCEPT !.rejected = TRUE] \in Reply
    BY AnswerType
  <2>3. /\ ~ [Error EXCEPT !.rejected = TRUE].wrote
        /\ [Error EXCEPT !.rejected = TRUE].err
    BY Zenon DEF Error, Nothing
  <2>4. ~ Accepted(req[c].pipeline)
    <3> DEFINE p == req[c].pipeline
    <3>1. PICK n \in 0..MaxStages : p \in [1..n -> Stage]
      BY <1>2 DEF Request, Pipeline
    <3>2. n \in Nat /\ p \in Seq(Stage) /\ Len(p) = n
      BY <3>1, ToolCallsAssumption
    <3>3. CASE PipelineWrites(p)
      BY <1>4, <3>3 DEF AggregateRejected, Sent
    <3>4. CASE ~ PipelineWrites(p)
      <4>1. ~ Accepted(Append(p, "limit"))
        BY <1>4, <3>4 DEF AggregateRejected, Sent
      <4>2. PICK i \in 1..n + 1 :
              \/ Append(p, "limit")[i] = "empty"
              \/ Append(p, "limit")[i] = "out"
        BY <3>1, <3>2, <4>1 DEF Accepted
      <4>3. i \in 1..n /\ Append(p, "limit")[i] = p[i]
        BY <3>2, <4>2
      <4> QED
        BY <3>1, <3>4, <4>2, <4>3 DEF PipelineWrites, Accepted
    <3> QED
      BY <3>3, <3>4
  <2> QED
    BY <2>1, <2>2, <2>3, <2>4 DEF store, EndsWell, Ending
<1>5. CASE AggregateReads(c)
  <2>1. PICK n \in 0..docs :
          Read(c, "aggregate", [CapDocs(Smaller(n, MaxDocs + 1), MaxDocs) EXCEPT !.available = n])
    BY <1>5 DEF AggregateReads
  <2>2. n \in Nat /\ PageLimit(c) = MaxDocs
    BY <1>1, <2>1 DEF Read, PageLimit
  <2> QED
    BY <1>1, <2>1, <2>2, PageEnds DEF Paged, Page
<1>6. CASE AggregateWrites(c)
  <2>1. PICK lost \in BOOLEAN : Finish(c, "run", [Nothing EXCEPT !.wrote = TRUE, !.err = lost])
    BY <1>6 DEF AggregateWrites
  <2>2. [Nothing EXCEPT !.wrote = TRUE, !.err = lost] \in Reply
    BY AnswerType
  <2>3. /\ [Nothing EXCEPT !.wrote = TRUE, !.err = lost].wrote
        /\ ~ [Nothing EXCEPT !.wrote = TRUE, !.err = lost].rejected
    BY Zenon DEF Nothing
  <2>4. MayWrite(c) /\ docs' \in 0..MaxStored /\ entries' \in 0..MaxStored
    BY <1>6 DEF AggregateWrites, MayWrite
  <2> QED
    BY <2>1, <2>2, <2>3, <2>4 DEF EndsWell, Ending
<1>7. CASE Distinct(c)
  <2>1. PICK n \in 0..docs : Read(c, "distinct", [CapDocs(n, MaxDocs) EXCEPT !.available = n])
    BY <1>7 DEF Distinct
  <2>2. n \in Nat /\ PageLimit(c) = MaxDocs
    BY <1>1, <2>1 DEF Read, PageLimit
  <2> QED
    BY <1>1, <2>1, <2>2, PageEnds DEF Paged, Page
<1>8. CASE Indexes(c)
  <2>1. PageLimit(c) = MaxDocs
    BY <1>8 DEF Indexes, Read, PageLimit
  <2> QED
    BY <1>1, <1>8, <2>1, PageEnds DEF Indexes, Paged, Page
<1>9. ASSUME NEW n \in Nat, NEW tool, tool \notin Paged,
             Read(c, tool, [Nothing EXCEPT !.count = n, !.available = n])
      PROVE  Ending(c)
  <2>1. [Nothing EXCEPT !.count = n, !.available = n] \in Reply
    BY AnswerType
  <2>2. /\ ~ [Nothing EXCEPT !.count = n, !.available = n].wrote
        /\ ~ [Nothing EXCEPT !.count = n, !.available = n].rejected
    BY Zenon DEF Nothing
  <2> QED
    BY <1>9, <2>1, <2>2 DEF Read, store, EndsWell, Ending
<1>10. CASE Count(c)
  <2>1. Read(c, "count", [Nothing EXCEPT !.count = 1, !.available = 1])
    BY <1>10 DEF Count
  <2>2. 1 \in Nat /\ "count" \notin Paged
    BY DEF Paged
  <2> QED
    BY <1>9, <2>1, <2>2
<1>11. CASE ListNames(c)
  <2>1. Read(c, "listNames", [Nothing EXCEPT !.count = entries, !.available = entries])
    BY <1>11 DEF ListNames
  <2>2. "listNames" \notin Paged
    BY DEF Paged
  <2> QED
    BY <1>1, <1>9, <2>1, <2>2
<1> QED
  BY <1>3, <1>4, <1>5, <1>6, <1>7, <1>8, <1>10, <1>11 DEF Reads, Aggregate

LEMMA WritesEnd ==
  ASSUME TypeOK, NEW c \in Callers, Writes(c)
  PROVE  Ending(c)
<1>1. ASSUME NEW tool \in WriteTools, NEW D, NEW E, Write(c, tool, D, E)
      PROVE  Ending(c)
  <2>1. PICK lost \in BOOLEAN : Finish(c, "run", [Nothing EXCEPT !.wrote = TRUE, !.err = lost])
    BY <1>1 DEF Write
  <2>2. [Nothing EXCEPT !.wrote = TRUE, !.err = lost] \in Reply
    BY AnswerType
  <2>3. /\ [Nothing EXCEPT !.wrote = TRUE, !.err = lost].wrote
        /\ ~ [Nothing EXCEPT !.wrote = TRUE, !.err = lost].rejected
    BY Zenon DEF Nothing
  <2>4. MayWrite(c) /\ docs' \in 0..MaxStored /\ entries' \in 0..MaxStored
    BY <1>1 DEF Write, MayWrite
  <2> QED
    BY <2>1, <2>2, <2>3, <2>4 DEF EndsWell, Ending
<1>2. CASE InsertManyStops(c)
  <2>1. Finish(c, "run", [Error EXCEPT !.wrote = TRUE])
    BY <1>2 DEF InsertManyStops
  <2>2. [Error EXCEPT !.wrote = TRUE] \in Reply
    BY AnswerType
  <2>3. /\ [Error EXCEPT !.wrote = TRUE].wrote
        /\ ~ [Error EXCEPT !.wrote = TRUE].rejected
    BY Zenon DEF Error, Nothing
  <2>4. MayWrite(c) /\ entries' \in 0..MaxStored
    BY <1>2 DEF InsertManyStops, MayWrite, WriteTools, TypeOK
  <2>5. docs' \in 0..MaxStored
    <3>1. req[c].many \in 0..2 /\ docs \in 0..MaxStored
      BY ToolCallsAssumption DEF TypeOK, Request
    <3> QED
      BY <1>2, <3>1, ToolCallsAssumption DEF InsertManyStops
  <2> QED
    BY <2>1, <2>2, <2>3, <2>4, <2>5 DEF EndsWell, Ending
<1> QED
  BY <1>1, <1>2
  DEF Writes, WriteTools, InsertOne, InsertMany, Update, Delete,
      CreateIndex, DropIndex, CreateCollection, DropCollection

LEMMA ListSourcesEnds ==
  ASSUME TypeOK, NEW c \in Callers, ListSources(c)
  PROVE  Ending(c)
<1>1. [Nothing EXCEPT !.count = 1, !.available = 1] \in Reply
  BY AnswerType
<1>2. /\ ~ [Nothing EXCEPT !.count = 1, !.available = 1].wrote
      /\ ~ [Nothing EXCEPT !.count = 1, !.available = 1].rejected
  BY Zenon DEF Nothing
<1>3. Tool(c) \notin Paged
  BY DEF ListSources, Paged
<1> QED
  BY <1>1, <1>2, <1>3 DEF ListSources, store, EndsWell, Ending, TypeOK

\* A step of a handler is on its way or ends it.
OnItsWay(c) ==
    \/ Resolve(c) \/ Get(c) \/ RequireWritable(c) \/ Parse(c) \/ Done(c)

LEMMA StepCases ==
  ASSUME TypeOK, Next
  PROVE  \/ Edit \/ OthersWrite
         \/ \E c \in Callers, r \in Requests : Call(c, r)
         \/ \E c \in Callers : OnItsWay(c)
         \/ \E c \in Callers : Ending(c)
<1>1. ASSUME NEW c \in Callers,
             \/ ResolveFails(c) \/ GetFails(c) \/ ParseFails(c) \/ OperationFails(c)
      PROVE  Ending(c)
  BY <1>1, Refused DEF ResolveFails, GetFails, ParseFails, OperationFails
<1> QED
  BY <1>1, ReadsEnd, WritesEnd, ListSourcesEnds DEF Next, OnItsWay

-----------------------------------------------------------------------------
\* The inductive invariant

IInv == PolicyInv /\ PagesAreExact /\ ValidPipelinesRun

LEMMA InvInit == Init => IInv
<1>1. Init => \A c \in Callers : pc[c] = "idle"
  BY DEF Init
<1> QED
  BY <1>1, TypeInit
  DEF IInv, PolicyInv, WritesWereAllowed, PagesAreExact, ValidPipelinesRun, Ended

LEMMA TypeStep == TypeOK /\ [Next]_vars => TypeOK'
<1> SUFFICES ASSUME TypeOK, [Next]_vars PROVE TypeOK'
  OBVIOUS
<1>1. CASE UNCHANGED vars
  BY <1>1 DEF vars, TypeOK
<1>2. CASE Edit
  BY <1>2, ToolCallsAssumption DEF Edit, TypeOK, Version, store
<1>3. CASE OthersWrite
  BY <1>3 DEF OthersWrite, TypeOK, config
<1>4. ASSUME NEW c \in Callers, NEW r \in Requests, Call(c, r)
      PROVE  TypeOK'
  BY <1>4 DEF Call, Goto, TypeOK, Version, config, store
<1>5. ASSUME NEW c \in Callers, OnItsWay(c)
      PROVE  TypeOK'
  <2>1. CASE Resolve(c)
    BY <2>1, ToolCallsAssumption DEF Resolve, Goto, TypeOK, Version, config, store
  <2>2. CASE Get(c) \/ RequireWritable(c) \/ Parse(c)
    BY <2>2 DEF Get, RequireWritable, Parse, Goto, TypeOK, config, store
  <2>3. CASE Done(c)
    BY <2>3, NothingType, ToolCallsAssumption DEF Done, Goto, TypeOK, Version, config, store
  <2> QED
    BY <1>5, <2>1, <2>2, <2>3 DEF OnItsWay
<1>6. ASSUME NEW c \in Callers, Ending(c)
      PROVE  TypeOK'
  BY <1>6, FinishType DEF Ending, EndsWell
<1> QED
  BY <1>1, <1>2, <1>3, <1>4, <1>5, <1>6, StepCases

\* A handler on its way ends no call and answers nothing; the config only moves
\* forward.
LEMMA PolicyStep == IInv /\ [Next]_vars => IInv'
<1> SUFFICES ASSUME IInv, [Next]_vars PROVE IInv'
  OBVIOUS
<1> USE DEF IInv, PolicyInv
<1>0. TypeOK /\ TypeOK'
  BY TypeStep
<1>1. CASE UNCHANGED vars
  BY <1>0, <1>1
  DEF vars, WritesWereAllowed, PagesAreExact, ValidPipelinesRun, Ended, MayWrite, Tool, PageLimit
<1>2. CASE Edit
  BY <1>0, <1>2
  DEF Edit, TypeOK, Version, WritesWereAllowed, PagesAreExact, ValidPipelinesRun,
      Ended, MayWrite, Tool, PageLimit
<1>3. CASE OthersWrite
  BY <1>0, <1>3
  DEF OthersWrite, config, WritesWereAllowed, PagesAreExact, ValidPipelinesRun,
      Ended, MayWrite, Tool, PageLimit
<1>4. ASSUME NEW c \in Callers, NEW r \in Requests, Call(c, r)
      PROVE  IInv'
  BY <1>0, <1>4
  DEF Call, Goto, config, TypeOK, WritesWereAllowed, PagesAreExact, ValidPipelinesRun,
      Ended, MayWrite, Tool, PageLimit
<1>5. ASSUME NEW c \in Callers, OnItsWay(c)
      PROVE  IInv'
  <2>1. CASE Resolve(c)
    BY <1>0, <2>1
    DEF Resolve, Goto, config, TypeOK, Version, WritesWereAllowed, PagesAreExact,
        ValidPipelinesRun, Ended, MayWrite, Tool, PageLimit
  <2>2. CASE Get(c)
    BY <1>0, <2>2
    DEF Get, ReadTools, WriteTools, Goto, config, TypeOK, WritesWereAllowed, PagesAreExact,
        ValidPipelinesRun, Ended, MayWrite, Tool, PageLimit
  <2>3. CASE RequireWritable(c)
    BY <1>0, <2>3
    DEF RequireWritable, Goto, config, TypeOK, WritesWereAllowed, PagesAreExact,
        ValidPipelinesRun, Ended, MayWrite, Tool, PageLimit
  <2>4. CASE Parse(c)
    BY <1>0, <2>4
    DEF Parse, Goto, config, TypeOK, WritesWereAllowed, PagesAreExact,
        ValidPipelinesRun, Ended, MayWrite, Tool, PageLimit
  <2>5. CASE Done(c)
    BY <1>0, <2>5
    DEF Done, Goto, config, TypeOK, WritesWereAllowed, PagesAreExact,
        ValidPipelinesRun, Ended, MayWrite, Tool, PageLimit
  <2> QED
    BY <1>5, <2>1, <2>2, <2>3, <2>4, <2>5 DEF OnItsWay
<1>6. ASSUME NEW c \in Callers, Ending(c)
      PROVE  IInv'
  <2>1. PICK from, answer : EndsWell(c, from, answer)
    BY <1>6 DEF Ending
  <2>2. /\ pc' = [pc EXCEPT ![c] = "done"] /\ pc[c] = from
        /\ reply' = [reply EXCEPT ![c] = answer]
        /\ UNCHANGED <<readonly, current, req, since, ver>>
    BY <2>1 DEF EndsWell, Finish, Goto, config
  <2>3. answer.wrote => \E v \in since[c]..current : ~ readonly[v]
    BY <1>0, <2>1, <2>2 DEF EndsWell, TypeOK, Version, MayWrite
  <2>4. WritesWereAllowed'
    BY <1>0, <2>2, <2>3 DEF TypeOK, WritesWereAllowed, Ended
  <2>5. PagesAreExact'
    BY <1>0, <2>1, <2>2 DEF EndsWell, TypeOK, PagesAreExact, Ended, Tool, PageLimit
  <2>6. ValidPipelinesRun'
    BY <1>0, <2>1, <2>2 DEF EndsWell, TypeOK, ValidPipelinesRun, Ended
  <2> QED
    BY <1>0, <2>2, <2>4, <2>5, <2>6 DEF TypeOK, MayWrite, Tool
<1> QED
  BY <1>0, <1>1, <1>2, <1>3, <1>4, <1>5, <1>6, StepCases

-----------------------------------------------------------------------------

\* Handlers keep the types of their state.
THEOREM TypeCorrect == Spec => []TypeOK
<1> QED
  BY TypeInit, TypeStep, PTL DEF Spec

\* The three facts hold together at every step.
THEOREM Invariance == Spec => []IInv
<1> QED
  BY InvInit, PolicyStep, PTL DEF Spec

\* No call writes unless the config allowed it during the call: not through an
\* aggregation, and not by an edit between the check and the operation.
THEOREM PolicyHolds == Spec => []WritesWereAllowed
<1>1. IInv => WritesWereAllowed
  BY DEF IInv, PolicyInv
<1> QED
  BY <1>1, Invariance, PTL

\* Whatever the cap, a page is full and its hasMore right at every size.
THEOREM ExactPages == Spec => []PagesAreExact
<1>1. IInv => PagesAreExact
  BY DEF IInv
<1> QED
  BY <1>1, Invariance, PTL

\* The appended $limit costs no right pipeline its answer, at any length.
THEOREM ValidPipelines == Spec => []ValidPipelinesRun
<1>1. IInv => ValidPipelinesRun
  BY DEF IInv
<1> QED
  BY <1>1, Invariance, PTL

-----------------------------------------------------------------------------
\* What handlers ask of resolution.

LEMMA ViewInit == Init => View!Init
  BY DEF Init, Working, View!Init

LEMMA ViewStep == IInv /\ [Next]_vars => [View!Next]_(View!viewVars)
<1> SUFFICES ASSUME IInv, [Next]_vars PROVE [View!Next]_(View!viewVars)
  OBVIOUS
<1>0. TypeOK /\ current \in Int
  BY ToolCallsAssumption DEF IInv, PolicyInv, TypeOK, Version
<1> USE <1>0 DEF TypeOK, Goto, config, Working, View!viewVars
<1>1. CASE Edit
  BY <1>1 DEF Edit, View!Edit, View!Next
<1>2. CASE OthersWrite \/ UNCHANGED vars
  BY <1>2 DEF OthersWrite, vars
<1>3. ASSUME NEW c \in Callers, NEW r \in Requests, Call(c, r)
      PROVE  View!Next
  BY <1>3 DEF Call, View!Ask, View!Next
<1> DEFINE got == [c \in Callers |-> IF pc[c] \in {"get", "parse", "run"} THEN ver[c] ELSE -1]
           asked == [c \in Callers |-> IF Working(c) THEN 0 ELSE -1]
           from == [c \in Callers |-> IF Working(c) THEN since[c] ELSE 0]
<1>4. ASSUME NEW c \in Callers, Resolve(c)
      PROVE  View!Next
  <2>1. PICK v \in since[c]..current : ver' = [ver EXCEPT ![c] = v]
    BY <1>4 DEF Resolve
  <2>2. /\ pc[c] = "resolve" /\ pc' = [pc EXCEPT ![c] = "get"]
        /\ UNCHANGED <<current, since>>
    BY <1>4 DEF Resolve
  <2>3. got[c] = -1 /\ got' = [got EXCEPT ![c] = v]
    BY <2>1, <2>2
  <2>4. asked' = asked /\ from' = from /\ asked[c] = 0 /\ from[c] = since[c]
    BY <2>2
  <2>5. [p \in {0} |-> current][0] = current
    OBVIOUS
  <2>6. v \in from[c]..[p \in {0} |-> current][asked[c]]
    BY <2>1, <2>4, <2>5
  <2>7. [p \in {0} |-> current]' = [p \in {0} |-> current]
    BY <2>2
  <2>8. View!Answer(c)
    <3> HIDE DEF TypeOK, Goto, config, Working, got, asked, from
    <3>1. got[c] = -1 /\ asked[c] # -1 /\ asked' = asked /\ from' = from
      BY <2>3, <2>4
    <3> QED
      BY <2>3, <2>6, <2>7, <3>1 DEF View!Answer, got, asked, from
  <2> QED
    BY <2>8 DEF View!Next
<1>5. ASSUME NEW c \in Callers, Get(c) \/ RequireWritable(c) \/ Parse(c) \/ Done(c)
      PROVE  UNCHANGED View!viewVars
  BY <1>5 DEF Get, RequireWritable, Parse, Done
\* A handler that ends leaves, wherever it was.
<1>6. ASSUME NEW c \in Callers, Ending(c)
      PROVE  View!Next \/ UNCHANGED View!viewVars
  <2>1. pc' = [pc EXCEPT ![c] = "done"] /\ UNCHANGED <<current, since, ver>>
    BY <1>6 DEF Ending, EndsWell, Finish
  <2>2. /\ asked' = [asked EXCEPT ![c] = -1]
        /\ from' = [from EXCEPT ![c] = 0]
        /\ got' = [got EXCEPT ![c] = -1]
    BY <2>1
  <2>3. CASE Working(c)
    <3>1. asked[c] # -1
      BY <2>3
    <3> QED
      BY <2>1, <2>2, <3>1 DEF View!Leave, View!Next
  <2>4. CASE ~ Working(c)
    <3>1. asked' = asked /\ from' = from /\ got' = got
      BY <2>1, <2>4
    <3> QED
      BY <2>1, <3>1
  <2> QED
    BY <2>3, <2>4
<1> QED
  BY <1>1, <1>2, <1>3, <1>4, <1>5, <1>6, StepCases DEF OnItsWay

\* The handlers, for every number of callers and of versions, ask no more of
\* resolution than ConfigView promises.
THEOREM ResolutionIsConfigView == Spec => ImplementsView
<1>1. Init => View!Init
  BY ViewInit
<1>2. IInv /\ [Next]_vars => [View!Next]_(View!viewVars)
  BY ViewStep
<1> QED
  BY <1>1, <1>2, Invariance, PTL DEF Spec, ImplementsView, View!Spec
=============================================================================
