--------------------------- MODULE ResolverProofs ---------------------------
(***************************************************************************)
(* Proofs about Resolver.tla, for every set of callers, sessions and       *)
(* header roots and every bound.                                           *)
(***************************************************************************)
EXTENDS Resolver, TLAPS

LEMMA TypeInit == Init => TypeOK
  BY ResolverAssumption DEF Init, TypeOK, Generation

\* Every step keeps the variables in their types.
LEMMA TypeStep == TypeOK /\ [Next]_vars => TypeOK'
<1> SUFFICES ASSUME TypeOK, [Next]_vars PROVE TypeOK'
  OBVIOUS
<1>0. None \notin Sessions /\ None \notin State /\ MaxCalls \in Nat /\ MaxChanges \in Nat
  BY ResolverAssumption
<1> USE DEF TypeOK, Generation, State, Goto, clientVars, noticeVars, callVars
<1>1. ASSUME NEW s \in Sessions, Begin(s)
      PROVE  TypeOK'
  BY <1>0, <1>1 DEF Begin
<1>2. ASSUME NEW s \in Sessions, End(s)
      PROVE  TypeOK'
  BY <1>0, <1>2 DEF End
<1>3. ASSUME NEW s \in Sessions, ChangeRoots(s)
      PROVE  TypeOK'
  BY <1>0, <1>3 DEF ChangeRoots
<1>4. ASSUME NEW s \in Sessions, Notice(s)
      PROVE  TypeOK'
  <2>1. /\ notice' = [notice EXCEPT ![s] = sessions[s]]
        /\ noted[s] < gen[s] /\ noted[s] + 1 \in Generation
        /\ UNCHANGED <<clientVars, sessions, cache, seen, pc, callVars, state, got>>
    BY <1>0, <1>4 DEF Notice
  <2>2. CASE sessions[s] = None
    <3>1. /\ noted' = [noted EXCEPT ![s] = @ + 1]
          /\ floor' = [floor EXCEPT ![s] = noted[s] + 1]
      BY <1>4, <2>2 DEF Notice, Handled
    <3>2. noted' \in [Sessions -> Generation] /\ floor' \in [Sessions -> Generation]
      BY <2>1, <3>1
    <3>3. \A t \in Sessions : notice'[t] # None => noted'[t] < gen'[t]
      BY <2>1, <2>2, <3>1
    <3> QED
      BY <1>0, <2>1, <3>2, <3>3
  <2>3. CASE sessions[s] # None
    BY <1>0, <1>4, <2>1, <2>3, SMTT(20) DEF Notice
  <2> QED
    BY <2>2, <2>3
<1>5. ASSUME NEW s \in Sessions, Invalidate(s)
      PROVE  TypeOK'
  BY <1>0, <1>5 DEF Invalidate, Handled
<1>6. CASE SweepSnapshot
  BY <1>0, <1>6 DEF SweepSnapshot
<1>7. CASE SweepDelete
  BY <1>0, <1>7 DEF SweepDelete
<1>8. ASSUME NEW c \in Callers, NEW s \in Sessions,
             NEW h \in HeaderRoots \cup {None}, HeaderCall(c, s, h)
      PROVE  TypeOK'
  BY <1>0, <1>8 DEF HeaderCall, Arrive
<1>9. ASSUME NEW c \in Callers, NEW s \in Sessions,
             NEW h \in HeaderRoots \cup {None}, PlainCall(c, s, h)
      PROVE  TypeOK'
  BY <1>0, <1>9 DEF PlainCall, Arrive
<1>10. ASSUME NEW c \in Callers, NEW s \in Sessions,
             NEW h \in HeaderRoots \cup {None}, RootsCall(c, s, h)
      PROVE  TypeOK'
  BY SMTT(30), <1>0, <1>10 DEF RootsCall, Arrive
<1>11. ASSUME NEW c \in Callers, Find(c)
      PROVE  TypeOK'
  BY <1>0, <1>11 DEF Find
<1>12. ASSUME NEW c \in Callers, CheckHit(c)
      PROVE  TypeOK'
  <2>1. Resolved(cache[state[c]]) \in RootList \cup {Base}
    BY <1>12 DEF CheckHit, Resolved
  <2> QED
    BY <1>0, <1>12, <2>1 DEF CheckHit, Answer
<1>13. ASSUME NEW c \in Callers, CheckMiss(c)
      PROVE  TypeOK'
  BY <1>0, <1>13 DEF CheckMiss
<1>14. ASSUME NEW c \in Callers, Reply(c)
      PROVE  TypeOK'
  <2>1. [from |-> session[c], gen |-> gen[session[c]]] \in RootList
    BY <1>0, <1>14 DEF Reply, RootList
  <2> QED
    BY <1>0, <1>14, <2>1 DEF Reply
<1>15. ASSUME NEW c \in Callers, QueryFails(c)
      PROVE  TypeOK'
  BY <1>0, <1>15 DEF QueryFails, Answer
<1>16. ASSUME NEW c \in Callers, Store(c)
      PROVE  TypeOK'
  BY <1>0, <1>16 DEF Store, Answer, Resolved
<1>17. ASSUME NEW c \in Callers, Done(c)
      PROVE  TypeOK'
  BY <1>0, <1>17 DEF Done
\* The bound is reached, or nothing happens.
<1>18. CASE UNCHANGED vars
  BY <1>0, <1>18 DEF vars
<1> QED
  BY <1>1, <1>2, <1>3, <1>4, <1>5, <1>6, <1>7, <1>8, <1>9, <1>10,
     <1>11, <1>12, <1>13, <1>14, <1>15, <1>16, <1>17, <1>18
     DEF Next, Step, Rest

\* The type invariant of the resolver holds in every behaviour.
THEOREM TypeCorrect == Spec => []TypeOK
<1>1. Init => TypeOK
  BY TypeInit
<1>2. TypeOK /\ [Next]_vars => TypeOK'
  BY TypeStep
<1> QED
  BY <1>1, <1>2, PTL DEF Spec

-----------------------------------------------------------------------------

LEMMA InvInit == Init => IInv
<1> SUFFICES ASSUME Init PROVE IInv
  OBVIOUS
<1>1. TypeOK
  BY TypeInit
<1>2. StatesAreNew /\ OneSessionPerState
  BY <1>1, ResolverAssumption
  DEF Init, TypeOK, StatesAreNew, Unused, OneSessionPerState, IsOf
<1> QED
  BY <1>1, <1>2 DEF Init, IInv, RootsBelongToTheCall, Freshness, NotBeforeStart,
     NoneOlder, Generation

\* A step that uses no new state and starts no call keeps the states new.
LEMMA UnusedStay ==
  ASSUME TypeOK, TypeOK', StatesAreNew, UNCHANGED <<calls, ticket>>,
         \A o \in State : Unused(o) => Unused(o)',
         \A c \in Callers : pc'[c] = "find" => pc[c] = "find"
  PROVE  StatesAreNew'
<1>1. \A c \in Callers : pc[c] = "find" => ticket[c] \in State
  BY ResolverAssumption DEF TypeOK, State
<1>2. \A o \in State : o > calls => Unused(o)'
  BY DEF StatesAreNew
<1>3. \A c \in Callers : pc'[c] = "find" => Unused(ticket[c])'
  BY <1>1 DEF StatesAreNew
<1> QED
  BY <1>2, <1>3 DEF StatesAreNew

LEMMA StatesAreNewStep == TypeOK /\ StatesAreNew /\ [Next]_vars => StatesAreNew'
<1> SUFFICES ASSUME TypeOK, StatesAreNew, [Next]_vars PROVE StatesAreNew'
  OBVIOUS
<1>a. /\ None \notin Sessions /\ None \notin State
      /\ MaxCalls \in Nat /\ MaxChanges \in Nat
  BY ResolverAssumption
<1>b. TypeOK'
  BY TypeStep
<1> USE DEF TypeOK, Generation, State, RootList, Goto,
            clientVars, noticeVars, callVars,
            StatesAreNew, Unused
<1>1. ASSUME NEW s \in Sessions, Begin(s)
      PROVE  StatesAreNew'
  BY <1>a, <1>1 DEF Begin
<1>2. ASSUME NEW s \in Sessions, End(s)
      PROVE  StatesAreNew'
  BY <1>a, <1>2 DEF End
<1>3. ASSUME NEW s \in Sessions, ChangeRoots(s)
      PROVE  StatesAreNew'
  BY <1>a, <1>3 DEF ChangeRoots
<1>4. ASSUME NEW s \in Sessions, Notice(s)
      PROVE  StatesAreNew'
  <2>1. /\ notice' = [notice EXCEPT ![s] = sessions[s]]
        /\ UNCHANGED <<sessions, cache, pc, ticket, calls, state>>
    BY <1>4 DEF Notice
  <2>2. \A o \in State : Unused(o) => Unused(o)'
    BY <1>a, <2>1
  <2> HIDE DEF TypeOK, StatesAreNew, Unused
  <2> QED
    BY <1>b, <2>1, <2>2, UnusedStay
<1>5. ASSUME NEW s \in Sessions, Invalidate(s)
      PROVE  StatesAreNew'
  <2>1. /\ cache' = [cache EXCEPT ![notice[s]] = None]
        /\ notice' = [notice EXCEPT ![s] = None]
        /\ UNCHANGED <<sessions, pc, ticket, calls, state>>
    BY <1>5 DEF Invalidate
  <2>2. \A o \in State : Unused(o) => Unused(o)'
    BY <1>a, <2>1
  <2>3. \A d \in Callers : pc'[d] = "find" => pc[d] = "find"
    BY <2>1
  <2> HIDE DEF TypeOK, StatesAreNew, Unused
  <2> QED
    BY <1>b, <2>1, <2>2, <2>3, UnusedStay
<1>6. CASE SweepSnapshot
  BY <1>a, <1>6 DEF SweepSnapshot
<1>7. CASE SweepDelete
  BY <1>a, <1>7 DEF SweepDelete
<1>8. ASSUME NEW c \in Callers, NEW s \in Sessions,
             NEW h \in HeaderRoots \cup {None}, HeaderCall(c, s, h)
      PROVE  StatesAreNew'
  BY <1>a, <1>8, SMTT(20) DEF HeaderCall, Arrive
<1>9. ASSUME NEW c \in Callers, NEW s \in Sessions,
             NEW h \in HeaderRoots \cup {None}, PlainCall(c, s, h)
      PROVE  StatesAreNew'
  BY <1>a, <1>9, SMTT(20) DEF PlainCall, Arrive
<1>10. ASSUME NEW c \in Callers, NEW s \in Sessions,
             NEW h \in HeaderRoots \cup {None}, RootsCall(c, s, h)
      PROVE  StatesAreNew'
  BY <1>a, <1>10, SMTT(20) DEF RootsCall, Arrive
<1>11. ASSUME NEW c \in Callers, Find(c)
      PROVE  StatesAreNew'
  <2> DEFINE s == session[c]
             found == IF sessions[s] = None THEN ticket[c] ELSE sessions[s]
  <2>1. /\ pc[c] = "find" /\ pc' = [pc EXCEPT ![c] = "check"]
        /\ state' = [state EXCEPT ![c] = found]
        /\ sessions' = [sessions EXCEPT ![s] = found]
        /\ UNCHANGED <<notice, cache, ticket, calls>>
    BY <1>11 DEF Find
  <2>2. s \in Sessions /\ found \in State /\ found # None
    BY <1>a, <2>1
  <2>3. \A o \in State : Unused(o) /\ o # found => Unused(o)'
    BY <1>a, <2>1, <2>2
  \* A state nobody uses is found only by the call it is named for.
  <2>4. ~ Unused(found) \/ found = ticket[c]
    BY <2>1, <2>2
  <2>5. ticket[c] \in State /\ ticket[c] <= calls
    BY <2>1
  <2>6. \A d \in Callers : pc'[d] = "find" =>
          d # c /\ pc[d] = "find" /\ ticket[d] \in State /\ ticket[d] # ticket[c]
    BY <2>1
  <2>7. \A o \in State : o > calls => Unused(o)'
    <3> SUFFICES ASSUME NEW o \in State, o > calls PROVE Unused(o)'
      OBVIOUS
    <3>1. Unused(o) /\ o # ticket[c]
      BY <2>5
    <3> HIDE DEF Unused, found
    <3> QED
      BY <2>3, <2>4, <3>1
  <2>8. \A d \in Callers : pc'[d] = "find" => Unused(ticket[d])'
    <3> SUFFICES ASSUME NEW d \in Callers, pc'[d] = "find" PROVE Unused(ticket[d])'
      OBVIOUS
    <3>1. Unused(ticket[d]) /\ ticket[d] # ticket[c]
      BY <2>6
    <3> HIDE DEF Unused, found
    <3> QED
      BY <2>1, <2>3, <2>4, <2>6, <3>1
  <2> HIDE DEF Unused, found
  <2> QED
    BY <2>1, <2>7, <2>8
<1>12. ASSUME NEW c \in Callers, CheckHit(c)
      PROVE  StatesAreNew'
  <2>1. /\ state' = [state EXCEPT ![c] = None]
        /\ pc' = [pc EXCEPT ![c] = "using"]
        /\ UNCHANGED cache
        /\ UNCHANGED <<sessions, notice, ticket, calls>>
    BY <1>12 DEF CheckHit, Answer
  <2>2. \A o \in State : Unused(o) => Unused(o)'
    BY <1>a, <2>1
  <2>3. \A d \in Callers : pc'[d] = "find" => pc[d] = "find"
    BY <2>1
  <2> HIDE DEF TypeOK, StatesAreNew, Unused
  <2> QED
    BY <1>b, <2>1, <2>2, <2>3, UnusedStay
<1>13. ASSUME NEW c \in Callers, CheckMiss(c)
      PROVE  StatesAreNew'
  BY <1>a, <1>13 DEF CheckMiss
<1>14. ASSUME NEW c \in Callers, Reply(c)
      PROVE  StatesAreNew'
  <2>1. pc' = [pc EXCEPT ![c] = "store"] /\ UNCHANGED <<sessions, notice, cache, ticket, calls, state>>
    BY <1>14 DEF Reply
  <2>2. \A o \in State : Unused(o) => Unused(o)'
    BY <2>1
  <2>3. \A d \in Callers : pc'[d] = "find" => pc[d] = "find"
    BY <2>1
  <2> HIDE DEF TypeOK, StatesAreNew, Unused
  <2> QED
    BY <1>b, <2>1, <2>2, <2>3, UnusedStay
<1>15. ASSUME NEW c \in Callers, QueryFails(c)
      PROVE  StatesAreNew'
  BY <1>a, <1>15, SMTT(20) DEF QueryFails, Answer
<1>16. ASSUME NEW c \in Callers, Store(c)
      PROVE  StatesAreNew'
  <2>1. /\ state' = [state EXCEPT ![c] = None]
        /\ pc' = [pc EXCEPT ![c] = "using"]
        /\ \A o \in State : o # state[c] => cache'[o] = cache[o]
        /\ UNCHANGED <<sessions, notice, ticket, calls>>
    BY <1>16 DEF Store, Answer
  <2>2. \A o \in State : Unused(o) => Unused(o)'
    BY <1>a, <2>1
  <2>3. \A d \in Callers : pc'[d] = "find" => pc[d] = "find"
    BY <2>1
  <2> HIDE DEF TypeOK, StatesAreNew, Unused
  <2> QED
    BY <1>b, <2>1, <2>2, <2>3, UnusedStay
<1>17. ASSUME NEW c \in Callers, Done(c)
      PROVE  StatesAreNew'
  BY <1>a, <1>17 DEF Done
\* The bound is reached, or nothing happens.
<1>18. CASE UNCHANGED vars
  BY <1>a, <1>18 DEF vars
<1> QED
  BY <1>1, <1>2, <1>3, <1>4, <1>5, <1>6, <1>7, <1>8, <1>9, <1>10,
     <1>11, <1>12, <1>13, <1>14, <1>15, <1>16, <1>17, <1>18
     DEF Next, Step, Rest

\* A step after which no state is of one more session, no entry is new and no
\* call has a new answer keeps the sessions apart.
LEMMA SessionsStayApart ==
  ASSUME OneSessionPerState,
         \A o \in State, t \in Sessions : IsOf(o, t)' => IsOf(o, t),
         \A o \in State : cache'[o] \in {cache[o], None},
         \A c \in Callers : pc'[c] = "store" =>
            pc[c] = "store" /\ got'[c] = got[c] /\ session'[c] = session[c]
  PROVE  OneSessionPerState'
  BY DEF OneSessionPerState

LEMMA OneSessionPerStateStep == TypeOK /\ StatesAreNew /\ OneSessionPerState /\ [Next]_vars => OneSessionPerState'
<1> SUFFICES ASSUME TypeOK, StatesAreNew, OneSessionPerState, [Next]_vars PROVE OneSessionPerState'
  OBVIOUS
<1>a. /\ None \notin Sessions /\ None \notin State
      /\ MaxCalls \in Nat /\ MaxChanges \in Nat
  BY ResolverAssumption
<1>b. TypeOK'
  BY TypeStep
<1> USE DEF TypeOK, Generation, State, RootList, Goto,
            clientVars, noticeVars, callVars,
            StatesAreNew, Unused, OneSessionPerState, IsOf
<1>1. ASSUME NEW s \in Sessions, Begin(s)
      PROVE  OneSessionPerState'
  BY <1>a, <1>1 DEF Begin
<1>2. ASSUME NEW s \in Sessions, End(s)
      PROVE  OneSessionPerState'
  BY <1>a, <1>2 DEF End
<1>3. ASSUME NEW s \in Sessions, ChangeRoots(s)
      PROVE  OneSessionPerState'
  <2>1. UNCHANGED <<notice, sessions, cache, pc, session, state, got>>
    BY <1>3 DEF ChangeRoots
  <2> QED
    BY <2>1
<1>4. ASSUME NEW s \in Sessions, Notice(s)
      PROVE  OneSessionPerState'
  <2>1. /\ notice' = [notice EXCEPT ![s] = sessions[s]]
        /\ UNCHANGED <<sessions, cache, pc, session, state, got>>
    BY <1>4 DEF Notice
  <2>2. \A o \in State, t \in Sessions : IsOf(o, t)' => IsOf(o, t)
    BY <1>a, <2>1
  <2> HIDE DEF IsOf
  <2> QED
    BY <2>1, <2>2, SessionsStayApart
<1>5. ASSUME NEW s \in Sessions, Invalidate(s)
      PROVE  OneSessionPerState'
  <2>1. /\ notice' = [notice EXCEPT ![s] = None]
        /\ \A o \in State : cache'[o] \in {cache[o], None}
        /\ UNCHANGED <<sessions, pc, session, state, got>>
    BY <1>5 DEF Invalidate
  <2>2. \A o \in State, t \in Sessions : IsOf(o, t)' => IsOf(o, t)
    BY <1>a, <2>1
  <2> HIDE DEF IsOf
  <2> QED
    BY <2>1, <2>2, SessionsStayApart
<1>6. CASE SweepSnapshot
  BY <1>a, <1>6 DEF SweepSnapshot
<1>7. CASE SweepDelete
  <2>1. /\ \A t \in Sessions : sessions'[t] \in {sessions[t], None}
        /\ UNCHANGED <<notice, cache, pc, session, state, got>>
    BY <1>7 DEF SweepDelete
  <2>2. \A o \in State, t \in Sessions : IsOf(o, t)' => IsOf(o, t)
    BY <1>a, <2>1
  <2> HIDE DEF IsOf
  <2> QED
    BY <2>1, <2>2, SessionsStayApart
<1>8. ASSUME NEW c \in Callers, NEW s \in Sessions,
             NEW h \in HeaderRoots \cup {None}, HeaderCall(c, s, h)
      PROVE  OneSessionPerState'
  <2>1. state[c] = None /\ UNCHANGED <<sessions, notice, state, cache>>
    BY <1>8 DEF HeaderCall, Arrive
  <2>2. \A e \in Callers : e # c => session'[e] = session[e]
    BY <1>8 DEF HeaderCall, Arrive
  <2>3. \A o \in State, t \in Sessions : IsOf(o, t)' => IsOf(o, t)
    BY <1>a, <2>1, <2>2
  <2>4. \A d \in Callers : pc'[d] = "store" =>
          pc[d] = "store" /\ got'[d] = got[d] /\ session'[d] = session[d]
    BY <1>8 DEF HeaderCall, Arrive
  <2> HIDE DEF IsOf
  <2> QED
    BY <2>1, <2>3, <2>4, SessionsStayApart
<1>9. ASSUME NEW c \in Callers, NEW s \in Sessions,
             NEW h \in HeaderRoots \cup {None}, PlainCall(c, s, h)
      PROVE  OneSessionPerState'
  <2>1. state[c] = None /\ UNCHANGED <<sessions, notice, state, cache>>
    BY <1>9 DEF PlainCall, Arrive
  <2>2. \A e \in Callers : e # c => session'[e] = session[e]
    BY <1>9 DEF PlainCall, Arrive
  <2>3. \A o \in State, t \in Sessions : IsOf(o, t)' => IsOf(o, t)
    BY <1>a, <2>1, <2>2
  <2>4. \A d \in Callers : pc'[d] = "store" =>
          pc[d] = "store" /\ got'[d] = got[d] /\ session'[d] = session[d]
    BY <1>9 DEF PlainCall, Arrive
  <2> HIDE DEF IsOf
  <2> QED
    BY <2>1, <2>3, <2>4, SessionsStayApart
<1>10. ASSUME NEW c \in Callers, NEW s \in Sessions,
             NEW h \in HeaderRoots \cup {None}, RootsCall(c, s, h)
      PROVE  OneSessionPerState'
  <2>1. state[c] = None /\ UNCHANGED <<sessions, notice, state, cache>>
    BY <1>10 DEF RootsCall, Arrive
  <2>2. \A e \in Callers : e # c => session'[e] = session[e]
    BY <1>10 DEF RootsCall, Arrive
  <2>3. \A o \in State, t \in Sessions : IsOf(o, t)' => IsOf(o, t)
    BY <1>a, <2>1, <2>2
  <2>4. \A d \in Callers : pc'[d] = "store" =>
          pc[d] = "store" /\ got'[d] = got[d] /\ session'[d] = session[d]
    BY <1>10 DEF RootsCall, Arrive
  <2> HIDE DEF IsOf
  <2> QED
    BY <2>1, <2>3, <2>4, SessionsStayApart
\* The state found is the session's, or a new one that is nobody's.
<1>11. ASSUME NEW c \in Callers, Find(c)
      PROVE  OneSessionPerState'
  <2> DEFINE s == session[c]
             found == IF sessions[s] = None THEN ticket[c] ELSE sessions[s]
  <2>1. /\ pc[c] = "find" /\ pc' = [pc EXCEPT ![c] = "check"]
        /\ state' = [state EXCEPT ![c] = found]
        /\ sessions' = [sessions EXCEPT ![s] = found]
        /\ UNCHANGED <<notice, session, cache, got>>
    BY <1>11 DEF Find
  <2>2. s \in Sessions
    BY <1>a, <2>1
  <2>3. \A o \in State, t \in Sessions :
          IsOf(o, t)' => IsOf(o, t) \/ (o = found /\ t = s)
    BY <2>1, <2>2
  <2>4. \A t \in Sessions : IsOf(found, t) => t = s
    BY <1>a, <2>1, <2>2
  <2>5. cache[found] # None => cache[found].from = s
    BY <1>a, <2>1, <2>2
  <2>6. \A d \in Callers : pc'[d] = "store" => pc[d] = "store"
    BY <2>1
  <2>7. \A o \in State, t, u \in Sessions : IsOf(o, t)' /\ IsOf(o, u)' => t = u
    <3> HIDE DEF IsOf, found, TypeOK, StatesAreNew, Unused
    <3> QED
      BY <2>3, <2>4
  <2>8. \A o \in State, t \in Sessions :
          IsOf(o, t)' /\ cache'[o] # None => cache'[o].from = t
    <3> HIDE DEF IsOf, found, TypeOK, StatesAreNew, Unused
    <3> QED
      BY <2>1, <2>3, <2>5
  <2>9. \A d \in Callers : pc'[d] = "store" => got'[d].from = session'[d]
    BY <2>1, <2>6
  <2> HIDE DEF IsOf, found, TypeOK, StatesAreNew, Unused
  <2> QED
    BY <2>7, <2>8, <2>9
<1>12. ASSUME NEW c \in Callers, CheckHit(c)
      PROVE  OneSessionPerState'
  <2>1. /\ state' = [state EXCEPT ![c] = None]
        /\ UNCHANGED <<sessions, notice, cache, session>>
    BY <1>12 DEF CheckHit, Answer
  <2>2. \A o \in State, t \in Sessions : IsOf(o, t)' => IsOf(o, t)
    BY <1>a, <2>1
  <2>3. \A d \in Callers : pc'[d] = "store" => pc[d] = "store" /\ got'[d] = got[d]
    BY <1>12 DEF CheckHit, Answer
  <2> HIDE DEF IsOf
  <2> QED
    BY <2>1, <2>2, <2>3, SessionsStayApart
<1>13. ASSUME NEW c \in Callers, CheckMiss(c)
      PROVE  OneSessionPerState'
  <2>1. UNCHANGED <<sessions, notice, state, cache, session, got>>
    BY <1>13 DEF CheckMiss
  <2>2. \A o \in State, t \in Sessions : IsOf(o, t)' => IsOf(o, t)
    BY <2>1
  <2>3. \A d \in Callers : pc'[d] = "store" => pc[d] = "store"
    BY <1>13 DEF CheckMiss
  <2> HIDE DEF IsOf
  <2> QED
    BY <2>1, <2>2, <2>3, SessionsStayApart
\* The client answers for the session it is asked in.
<1>14. ASSUME NEW c \in Callers, Reply(c)
      PROVE  OneSessionPerState'
  <2>1. /\ got' = [got EXCEPT ![c] = [from |-> session[c], gen |-> gen[session[c]]]]
        /\ pc' = [pc EXCEPT ![c] = "store"]
        /\ UNCHANGED <<sessions, notice, state, cache, session>>
    BY <1>14 DEF Reply
  <2>2. \A o \in State, t \in Sessions : IsOf(o, t)' <=> IsOf(o, t)
    BY <2>1
  <2>3. \A d \in Callers : pc'[d] = "store" => got'[d].from = session'[d]
    BY <2>1
  <2> HIDE DEF IsOf
  <2> QED
    BY <2>1, <2>2, <2>3
<1>15. ASSUME NEW c \in Callers, QueryFails(c)
      PROVE  OneSessionPerState'
  <2>1. /\ state' = [state EXCEPT ![c] = None]
        /\ UNCHANGED <<sessions, notice, cache, session>>
    BY <1>15 DEF QueryFails, Answer
  <2>2. \A o \in State, t \in Sessions : IsOf(o, t)' => IsOf(o, t)
    BY <1>a, <2>1
  <2>3. \A d \in Callers : pc'[d] = "store" => pc[d] = "store" /\ got'[d] = got[d]
    BY <1>15 DEF QueryFails, Answer
  <2> HIDE DEF IsOf
  <2> QED
    BY <2>1, <2>2, <2>3, SessionsStayApart
<1>16. ASSUME NEW c \in Callers, Store(c)
      PROVE  OneSessionPerState'
  <2>1. /\ pc[c] = "store" /\ state' = [state EXCEPT ![c] = None]
        /\ UNCHANGED <<sessions, notice, session>>
    BY <1>16 DEF Store, Answer
  <2>2. \A o \in State, t \in Sessions : IsOf(o, t)' => IsOf(o, t)
    BY <1>a, <2>1
  <2>3. \A o \in State : \/ cache'[o] = cache[o]
                         \/ o = state[c] /\ cache'[o] = got[c]
    BY <1>16 DEF Store, Answer
  <2>4. \A d \in Callers : pc'[d] = "store" => pc[d] = "store" /\ got'[d] = got[d]
    BY <1>16 DEF Store, Answer
  <2>5. /\ session[c] \in Sessions /\ state[c] \in State
        /\ IsOf(state[c], session[c]) /\ got[c].from = session[c]
    BY <1>a, <2>1
  <2>6. \A o \in State, t \in Sessions :
          IsOf(o, t) /\ cache'[o] # None => cache'[o].from = t
    <3> HIDE DEF IsOf, TypeOK, StatesAreNew, Unused
    <3>1. \A t \in Sessions : IsOf(state[c], t) => t = session[c]
      BY <2>5
    <3>2. \A o \in State, t \in Sessions :
            IsOf(o, t) /\ cache[o] # None => cache[o].from = t
      OBVIOUS
    <3> SUFFICES ASSUME NEW o \in State, NEW t \in Sessions, IsOf(o, t),
                        cache'[o] # None
                 PROVE  cache'[o].from = t
      OBVIOUS
    <3>3. CASE cache'[o] = cache[o]
      BY <3>2, <3>3
    <3>4. CASE o = state[c] /\ cache'[o] = got[c]
      BY <2>5, <3>1, <3>4
    <3> QED
      BY <2>3, <3>3, <3>4
  <2>7. \A o \in State, t, u \in Sessions : IsOf(o, t) /\ IsOf(o, u) => t = u
    <3> HIDE DEF IsOf, TypeOK, StatesAreNew, Unused
    <3> QED
      OBVIOUS
  <2>8. \A d \in Callers : pc'[d] = "store" => got'[d].from = session'[d]
    BY <2>1, <2>4
  <2> HIDE DEF IsOf, TypeOK, StatesAreNew, Unused
  <2> QED
    BY <2>2, <2>6, <2>7, <2>8
<1>17. ASSUME NEW c \in Callers, Done(c)
      PROVE  OneSessionPerState'
  <2>1. /\ state[c] = None
        /\ session' = [session EXCEPT ![c] = None]
        /\ UNCHANGED <<sessions, notice, cache, state>>
    BY <1>17 DEF Done
  <2>2. \A o \in State, t \in Sessions : IsOf(o, t)' => IsOf(o, t)
    BY <1>a, <2>1
  <2>3. \A d \in Callers : pc'[d] = "store" =>
          pc[d] = "store" /\ got'[d] = got[d] /\ session'[d] = session[d]
    BY <1>17 DEF Done
  <2> HIDE DEF IsOf
  <2> QED
    BY <2>1, <2>2, <2>3, SessionsStayApart
\* The bound is reached, or nothing happens.
<1>18. CASE UNCHANGED vars
  BY <1>a, <1>18 DEF vars
<1> QED
  BY <1>1, <1>2, <1>3, <1>4, <1>5, <1>6, <1>7, <1>8, <1>9, <1>10,
     <1>11, <1>12, <1>13, <1>14, <1>15, <1>16, <1>17, <1>18
     DEF Next, Step, Rest

LEMMA RootsBelongToTheCallStep == TypeOK /\ OneSessionPerState /\ RootsBelongToTheCall /\ [Next]_vars => RootsBelongToTheCall'
<1> SUFFICES ASSUME TypeOK, OneSessionPerState, RootsBelongToTheCall, [Next]_vars PROVE RootsBelongToTheCall'
  OBVIOUS
<1>a. /\ None \notin Sessions /\ None \notin State
      /\ MaxCalls \in Nat /\ MaxChanges \in Nat
  BY ResolverAssumption
<1>b. TypeOK'
  BY TypeStep
<1> USE DEF TypeOK, Generation, State, RootList, Goto,
            clientVars, noticeVars, callVars,
            OneSessionPerState, IsOf, RootsBelongToTheCall
<1>1. ASSUME NEW s \in Sessions, Begin(s)
      PROVE  RootsBelongToTheCall'
  BY <1>a, <1>b, ResolverAssumption, <1>1 DEF Begin
<1>2. ASSUME NEW s \in Sessions, End(s)
      PROVE  RootsBelongToTheCall'
  BY <1>a, <1>b, ResolverAssumption, <1>2 DEF End
<1>3. ASSUME NEW s \in Sessions, ChangeRoots(s)
      PROVE  RootsBelongToTheCall'
  BY <1>a, <1>b, ResolverAssumption, <1>3 DEF ChangeRoots
<1>4. ASSUME NEW s \in Sessions, Notice(s)
      PROVE  RootsBelongToTheCall'
  BY <1>a, <1>b, ResolverAssumption, <1>4 DEF Notice, Handled
<1>5. ASSUME NEW s \in Sessions, Invalidate(s)
      PROVE  RootsBelongToTheCall'
  BY <1>a, <1>b, ResolverAssumption, <1>5 DEF Invalidate, Handled, Overtakes
<1>6. CASE SweepSnapshot
  BY <1>a, <1>b, ResolverAssumption, <1>6 DEF SweepSnapshot
<1>7. CASE SweepDelete
  BY <1>a, <1>b, ResolverAssumption, <1>7 DEF SweepDelete
<1>8. ASSUME NEW c \in Callers, NEW s \in Sessions,
             NEW h \in HeaderRoots \cup {None}, HeaderCall(c, s, h)
      PROVE  RootsBelongToTheCall'
  BY <1>a, <1>b, ResolverAssumption, <1>8 DEF HeaderCall, Arrive
<1>9. ASSUME NEW c \in Callers, NEW s \in Sessions,
             NEW h \in HeaderRoots \cup {None}, PlainCall(c, s, h)
      PROVE  RootsBelongToTheCall'
  BY <1>a, <1>b, ResolverAssumption, <1>9 DEF PlainCall, Arrive
<1>10. ASSUME NEW c \in Callers, NEW s \in Sessions,
             NEW h \in HeaderRoots \cup {None}, RootsCall(c, s, h)
      PROVE  RootsBelongToTheCall'
  BY <1>a, <1>b, ResolverAssumption, <1>10 DEF RootsCall, Arrive
<1>11. ASSUME NEW c \in Callers, Find(c)
      PROVE  RootsBelongToTheCall'
  BY <1>a, <1>b, ResolverAssumption, <1>11 DEF Find
<1>12. ASSUME NEW c \in Callers, CheckHit(c)
      PROVE  RootsBelongToTheCall'
  BY <1>a, <1>b, ResolverAssumption, <1>12 DEF CheckHit, Answer, Resolved
<1>13. ASSUME NEW c \in Callers, CheckMiss(c)
      PROVE  RootsBelongToTheCall'
  BY <1>a, <1>b, ResolverAssumption, <1>13 DEF CheckMiss
<1>14. ASSUME NEW c \in Callers, Reply(c)
      PROVE  RootsBelongToTheCall'
  BY <1>a, <1>b, ResolverAssumption, <1>14 DEF Reply
<1>15. ASSUME NEW c \in Callers, QueryFails(c)
      PROVE  RootsBelongToTheCall'
  BY <1>a, <1>b, ResolverAssumption, <1>15 DEF QueryFails, Answer
<1>16. ASSUME NEW c \in Callers, Store(c)
      PROVE  RootsBelongToTheCall'
  BY <1>a, <1>b, ResolverAssumption, <1>16 DEF Store, Answer, Resolved
<1>17. ASSUME NEW c \in Callers, Done(c)
      PROVE  RootsBelongToTheCall'
  BY <1>a, <1>b, ResolverAssumption, <1>17 DEF Done
\* The bound is reached, or nothing happens.
<1>18. CASE UNCHANGED vars
  BY <1>a, <1>b, ResolverAssumption, <1>18 DEF vars
<1> QED
  BY <1>1, <1>2, <1>3, <1>4, <1>5, <1>6, <1>7, <1>8, <1>9, <1>10,
     <1>11, <1>12, <1>13, <1>14, <1>15, <1>16, <1>17, <1>18
     DEF Next, Step, Rest

LEMMA FreshnessStep == TypeOK /\ StatesAreNew /\ OneSessionPerState /\ Freshness /\ [Next]_vars => Freshness'
<1> SUFFICES ASSUME TypeOK, StatesAreNew, OneSessionPerState, Freshness, [Next]_vars PROVE Freshness'
  OBVIOUS
<1>a. /\ None \notin Sessions /\ None \notin State
      /\ MaxCalls \in Nat /\ MaxChanges \in Nat
  BY ResolverAssumption
<1>b. TypeOK'
  BY TypeStep
<1> USE DEF TypeOK, Generation, State, RootList, Goto,
            clientVars, noticeVars, callVars,
            StatesAreNew, Unused, OneSessionPerState, IsOf, NewEnough, Freshness
<1>1. ASSUME NEW s \in Sessions, Begin(s)
      PROVE  Freshness'
  BY <1>a, <1>1 DEF Begin
<1>2. ASSUME NEW s \in Sessions, End(s)
      PROVE  Freshness'
  BY <1>a, <1>2 DEF End
<1>3. ASSUME NEW s \in Sessions, ChangeRoots(s)
      PROVE  Freshness'
  BY <1>a, <1>3, SMTT(20) DEF ChangeRoots
\* A state found now is no older one; without a state nothing is cached.
<1>4. ASSUME NEW s \in Sessions, Notice(s)
      PROVE  Freshness'
  <2>1. /\ notice[s] = None /\ notice' = [notice EXCEPT ![s] = sessions[s]]
        /\ noted[s] < gen[s]
        /\ UNCHANGED <<gen, sessions, cache, pc, state, got>>
    BY <1>4 DEF Notice
  <2>2. CASE sessions[s] = None
    <3>1. /\ noted' = [noted EXCEPT ![s] = noted[s] + 1]
          /\ floor' = [floor EXCEPT ![s] = noted[s] + 1]
      BY <1>4, <2>2 DEF Notice, Handled
    <3> HIDE DEF OneSessionPerState, IsOf, StatesAreNew, Unused
    <3> QED
      BY <1>a, <2>1, <2>2, <3>1, SMTT(20)
  <2>3. CASE sessions[s] # None
    <3>1. UNCHANGED <<noted, floor>>
      BY <1>4, <2>3 DEF Notice
    <3> HIDE DEF OneSessionPerState, IsOf, StatesAreNew, Unused
    <3> QED
      BY <1>a, <2>1, <2>3, <3>1
  <2> QED
    BY <2>2, <2>3
\* The state found is empty now; if it is still the session's and a call is about
\* to fill it, the floor stays; a newer state is newer than what was noted.
<1>5. ASSUME NEW s \in Sessions, Invalidate(s)
      PROVE  Freshness'
  <2>1. /\ notice[s] # None /\ notice' = [notice EXCEPT ![s] = None]
        /\ cache' = [cache EXCEPT ![notice[s]] = None]
        /\ noted' = [noted EXCEPT ![s] = noted[s] + 1]
        /\ floor' = [floor EXCEPT ![s] = IF Overtakes(s) THEN floor[s] ELSE noted[s] + 1]
        /\ UNCHANGED <<gen, sessions, pc, state, got>>
    BY <1>5 DEF Invalidate, Handled
  <2>2. /\ noted[s] \in Nat /\ floor[s] \in Nat /\ gen[s] \in Nat
        /\ floor[s] <= noted[s] /\ noted[s] + 1 <= gen[s]
    BY <1>a, <2>1
  <2>3. /\ floor'[s] <= noted'[s] /\ noted'[s] <= gen[s]
        /\ floor'[s] \in {floor[s], noted[s] + 1}
    BY <2>1, <2>2
  <2>4. ASSUME sessions[s] # None, cache'[sessions[s]] # None
        PROVE  cache'[sessions[s]].gen >= floor'[s]
    <3>1. notice[s] # sessions[s] /\ cache'[sessions[s]] = cache[sessions[s]]
      BY <2>1, <2>4
    <3>2. cache[sessions[s]].gen > noted[s] /\ cache[sessions[s]].gen \in Nat
      BY <1>a, <2>1, <2>4, <3>1
    <3> QED
      BY <2>2, <2>3, <3>1, <3>2
  <2>5. ASSUME NEW c \in Callers, sessions[s] # None, state[c] = sessions[s],
               pc[c] = "store"
        PROVE  got[c].gen >= floor'[s]
    <3>1. got[c].gen \in Nat /\ got[c].gen >= floor[s]
      BY <1>a, <2>5
    <3>2. CASE notice[s] = sessions[s]
      BY <2>1, <2>5, <3>1, <3>2 DEF Overtakes
    <3>3. CASE notice[s] # sessions[s]
      <4>1. got[c].gen > noted[s]
        BY <2>1, <2>5, <3>3
      <4> QED
        BY <2>2, <2>3, <3>1, <4>1
    <3> QED
      BY <3>2, <3>3
  <2>6. \A t \in Sessions : t # s =>
          noted'[t] = noted[t] /\ floor'[t] = floor[t] /\ notice'[t] = notice[t]
    BY <2>1
  <2>7. \A o \in State : cache'[o] \in {cache[o], None}
    BY <2>1
  <2> HIDE DEF OneSessionPerState, IsOf, StatesAreNew, Unused
  <2>8. ASSUME NEW t \in Sessions
        PROVE  floor'[t] <= noted'[t] /\ noted'[t] <= gen'[t]
    <3>1. CASE t = s
      BY <2>1, <2>3, <3>1
    <3>2. CASE t # s
      BY <2>1, <2>6, <3>2
    <3> QED
      BY <3>1, <3>2
  <2>9. ASSUME NEW t \in Sessions, sessions[t] # None, cache'[sessions[t]] # None
        PROVE  NewEnough(t, cache[sessions[t]])'
    <3>1. sessions[t] \in State /\ cache'[sessions[t]] = cache[sessions[t]]
      BY <1>a, <2>7, <2>9
    <3>2. NewEnough(t, cache[sessions[t]])
      BY <2>9, <3>1
    <3>3. sessions'[t] = sessions[t] /\ gen' = gen
      BY <2>1
    <3>4. CASE t = s
      <4>1. cache[sessions[s]].gen >= floor'[s] /\ notice'[s] = None
        BY <2>1, <2>4, <2>9, <3>1, <3>4
      <4>2. /\ cache[sessions[s]].gen \in Nat /\ cache[sessions[s]].gen <= gen[s]
            /\ floor'[s] \in Nat /\ gen[s] \in Nat
        BY <1>a, <2>2, <2>3, <3>2, <3>4
      <4> QED
        BY <3>1, <3>3, <3>4, <4>1, <4>2
    <3>5. CASE t # s
      BY <2>6, <3>1, <3>2, <3>3, <3>5
    <3> QED
      BY <3>4, <3>5
  <2>10. ASSUME NEW t \in Sessions, NEW c \in Callers, sessions[t] # None,
                state[c] = sessions[t], pc[c] = "store"
         PROVE  NewEnough(t, got[c])'
    <3>1. NewEnough(t, got[c])
      BY <2>10
    <3>2. sessions'[t] = sessions[t] /\ gen' = gen /\ got' = got
      BY <2>1
    <3>3. CASE t = s
      <4>1. got[c].gen >= floor'[s] /\ notice'[s] = None
        BY <2>1, <2>5, <2>10, <3>3
      <4>2. /\ got[c].gen \in Nat /\ got[c].gen <= gen[s]
            /\ floor'[s] \in Nat /\ gen[s] \in Nat
        BY <1>a, <2>2, <2>3, <3>1, <3>3
      <4> QED
        BY <3>2, <3>3, <4>1, <4>2
    <3>4. CASE t # s
      BY <2>6, <3>1, <3>2, <3>4
    <3> QED
      BY <3>3, <3>4
  <2> HIDE DEF TypeOK, NewEnough
  <2> QED
    BY <2>1, <2>8, <2>9, <2>10
<1>6. CASE SweepSnapshot
  BY <1>a, <1>6 DEF SweepSnapshot
<1>7. CASE SweepDelete
  BY <1>a, <1>7 DEF SweepDelete
<1>8. ASSUME NEW c \in Callers, NEW s \in Sessions,
             NEW h \in HeaderRoots \cup {None}, HeaderCall(c, s, h)
      PROVE  Freshness'
  BY <1>a, <1>8 DEF HeaderCall, Arrive
<1>9. ASSUME NEW c \in Callers, NEW s \in Sessions,
             NEW h \in HeaderRoots \cup {None}, PlainCall(c, s, h)
      PROVE  Freshness'
  BY <1>a, <1>9 DEF PlainCall, Arrive
<1>10. ASSUME NEW c \in Callers, NEW s \in Sessions,
             NEW h \in HeaderRoots \cup {None}, RootsCall(c, s, h)
      PROVE  Freshness'
  BY <1>a, <1>10 DEF RootsCall, Arrive
\* A new state is empty, and no call works on it yet.
<1>11. ASSUME NEW c \in Callers, Find(c)
      PROVE  Freshness'
  <2> DEFINE s == session[c]
             found == IF sessions[s] = None THEN ticket[c] ELSE sessions[s]
  <2>1. /\ pc[c] = "find" /\ pc' = [pc EXCEPT ![c] = "check"]
        /\ state' = [state EXCEPT ![c] = found]
        /\ sessions' = [sessions EXCEPT ![s] = found]
        /\ UNCHANGED <<gen, noticeVars, cache, got>>
    BY <1>11 DEF Find
  <2>2. s \in Sessions /\ found \in State
    BY <1>a, <2>1
  <2>3. \A t \in Sessions : t # s => sessions'[t] = sessions[t]
    BY <2>1
  <2>4. \A d \in Callers : pc'[d] = "store" => pc[d] = "store" /\ state'[d] = state[d]
    BY <2>1
  <2>5. CASE sessions[s] = None
    <3>1. /\ cache[found] = None
          /\ \A d \in Callers : state[d] # found
      BY <2>1, <2>5
    <3> HIDE DEF OneSessionPerState, IsOf, StatesAreNew, Unused, found
    <3> QED
      BY <2>1, <2>2, <2>3, <2>4, <3>1
  <2>6. CASE sessions[s] # None
    <3>1. sessions' = sessions
      BY <2>1, <2>6
    <3> HIDE DEF OneSessionPerState, IsOf, StatesAreNew, Unused, found
    <3> QED
      BY <2>1, <2>4, <3>1
  <2> QED
    BY <2>5, <2>6
<1>12. ASSUME NEW c \in Callers, CheckHit(c)
      PROVE  Freshness'
  BY <1>a, <1>12 DEF CheckHit, Answer, Resolved
<1>13. ASSUME NEW c \in Callers, CheckMiss(c)
      PROVE  Freshness'
  BY <1>a, <1>13 DEF CheckMiss
<1>14. ASSUME NEW c \in Callers, Reply(c)
      PROVE  Freshness'
  <2>1. /\ got' = [got EXCEPT ![c] = [from |-> session[c], gen |-> gen[session[c]]]]
        /\ pc' = [pc EXCEPT ![c] = "store"]
        /\ UNCHANGED <<clientVars, noticeVars, sessions, cache, callVars, state>>
        /\ session[c] \in Sessions /\ state[c] \in State
    BY <1>a, <1>14 DEF Reply
  <2>2. \A s \in Sessions : sessions[s] = state[c] => s = session[c]
    BY <1>a, <2>1
  <2>3. \A d \in Callers : d # c => got'[d] = got[d] /\ pc'[d] = pc[d]
    BY <2>1
  <2> HIDE DEF OneSessionPerState, IsOf, StatesAreNew, Unused
  <2>4. ASSUME NEW t \in Sessions, NEW d \in Callers, sessions[t] # None,
               state[d] = sessions[t], pc'[d] = "store"
        PROVE  NewEnough(t, got[d])'
    <3>1. UNCHANGED <<sessions, noted, notice, floor, gen>>
      BY <2>1
    <3>2. CASE d = c
      <4>1. t = session[c] /\ got'[c].gen = gen[t]
        BY <2>1, <2>2, <2>4, <3>2
      <4>2. floor[t] <= noted[t] /\ noted[t] <= gen[t] /\ floor[t] \in Nat /\ gen[t] \in Nat
        BY <1>a
      <4>3. notice[t] # None => gen[t] > noted[t]
        BY <1>a
      <4> QED
        BY <3>1, <3>2, <4>1, <4>2, <4>3
    <3>3. CASE d # c
      <4>1. NewEnough(t, got[d])
        BY <2>3, <2>4, <3>3
      <4> QED
        BY <2>3, <3>1, <3>3, <4>1
    <3> QED
      BY <3>2, <3>3
  <2>5. UNCHANGED <<sessions, noted, notice, floor, gen, cache, state>>
    BY <2>1
  <2> HIDE DEF TypeOK
  <2> QED
    BY <2>4, <2>5
<1>15. ASSUME NEW c \in Callers, QueryFails(c)
      PROVE  Freshness'
  BY <1>a, <1>15 DEF QueryFails, Answer
<1>16. ASSUME NEW c \in Callers, Store(c)
      PROVE  Freshness'
  BY <1>a, <1>16, SMTT(20) DEF Store, Answer, Resolved
<1>17. ASSUME NEW c \in Callers, Done(c)
      PROVE  Freshness'
  BY <1>a, <1>17 DEF Done
\* The bound is reached, or nothing happens.
<1>18. CASE UNCHANGED vars
  BY <1>a, <1>18 DEF vars
<1> QED
  BY <1>1, <1>2, <1>3, <1>4, <1>5, <1>6, <1>7, <1>8, <1>9, <1>10,
     <1>11, <1>12, <1>13, <1>14, <1>15, <1>16, <1>17, <1>18
     DEF Next, Step, Rest

\* A step that moves no call, raises generations and floors at most, and empties
\* entries at most.
LEMMA StartsStay ==
  ASSUME TypeOK, TypeOK', NotBeforeStart,
         UNCHANGED <<pc, session, since, state, got>>,
         \A s \in Sessions : floor[s] <= floor'[s] /\ gen[s] <= gen'[s],
         \A o \in State : cache'[o] \in {cache[o], None}
  PROVE  NotBeforeStart'
<1> USE ResolverAssumption DEF TypeOK, Generation
<1> SUFFICES ASSUME NEW c \in Callers PROVE NoneOlder(c)'
  BY DEF NotBeforeStart
<1>1. NoneOlder(c)
  BY DEF NotBeforeStart
<1>2. pc[c] # "idle" => since[c] <= floor'[session[c]]
  BY <1>1 DEF NoneOlder
<1>3. pc[c] = "store" => got[c].gen <= gen'[session[c]]
  BY <1>1 DEF NoneOlder, RootList
<1>4. ASSUME state[c] # None, cache'[state[c]] # None
      PROVE  cache'[state[c]].gen \in since[c]..gen'[session[c]]
  <2>1. /\ cache'[state[c]] = cache[state[c]] /\ session[c] \in Sessions
        /\ cache[state[c]].gen \in since[c]..gen[session[c]]
    BY <1>1, <1>4 DEF NoneOlder
  <2> QED
    BY <2>1
<1> QED
  BY <1>1, <1>2, <1>3, <1>4 DEF NoneOlder

\* A step of one call that does not bring it roots to store.
LEMMA StartsOfOthersStay ==
  ASSUME TypeOK, NotBeforeStart, UNCHANGED <<gen, floor, cache>>,
         NEW c \in Callers, NoneOlder(c)', pc'[c] # "store",
         \A d \in Callers : d # c =>
            /\ pc'[d] = pc[d] /\ session'[d] = session[d] /\ since'[d] = since[d]
            /\ state'[d] = state[d] /\ got'[d] = got[d]
  PROVE  NotBeforeStart'
<1> SUFFICES ASSUME NEW d \in Callers, d # c PROVE NoneOlder(d)'
  BY DEF NotBeforeStart
<1>1. NoneOlder(d)
  BY DEF NotBeforeStart
<1> QED
  BY <1>1 DEF NoneOlder

LEMMA NotBeforeStartStep == IInv /\ [Next]_vars => NotBeforeStart'
<1> SUFFICES ASSUME TypeOK, StatesAreNew, OneSessionPerState, Freshness, NotBeforeStart,
                    [Next]_vars
             PROVE  NotBeforeStart'
  BY DEF IInv
<1>a. /\ None \notin Sessions /\ None \notin State
      /\ MaxCalls \in Nat /\ MaxChanges \in Nat
  BY ResolverAssumption
<1>b. TypeOK'
  BY TypeStep
<1>c. \A s \in Sessions :
        /\ floor[s] \in Nat /\ noted[s] \in Nat /\ gen[s] \in Nat
        /\ floor[s] <= noted[s] /\ noted[s] <= gen[s]
  BY <1>a DEF TypeOK, Generation, Freshness
<1> USE DEF Goto, clientVars, noticeVars, callVars
<1>1. ASSUME NEW s \in Sessions, Begin(s)
      PROVE  NotBeforeStart'
  BY <1>b, <1>c, <1>1, StartsStay DEF Begin
<1>2. ASSUME NEW s \in Sessions, End(s)
      PROVE  NotBeforeStart'
  BY <1>b, <1>c, <1>2, StartsStay DEF End
<1>3. ASSUME NEW s \in Sessions, ChangeRoots(s)
      PROVE  NotBeforeStart'
  <2>1. \A t \in Sessions : floor[t] <= floor'[t] /\ gen[t] <= gen'[t]
    BY <1>c, <1>3 DEF ChangeRoots, TypeOK
  <2> QED
    BY <1>b, <1>3, <2>1, StartsStay DEF ChangeRoots
<1>4. ASSUME NEW s \in Sessions, Notice(s)
      PROVE  NotBeforeStart'
  <2>1. \A t \in Sessions : floor[t] <= floor'[t]
    BY <1>c, <1>4 DEF Notice, Handled, TypeOK
  <2> QED
    BY <1>b, <1>c, <1>4, <2>1, StartsStay DEF Notice
<1>5. ASSUME NEW s \in Sessions, Invalidate(s)
      PROVE  NotBeforeStart'
  <2>1. \A t \in Sessions : floor[t] <= floor'[t]
    BY <1>c, <1>5 DEF Invalidate, Handled, TypeOK
  <2>2. \A o \in State : cache'[o] \in {cache[o], None}
    BY <1>5 DEF Invalidate, TypeOK
  <2> QED
    BY <1>b, <1>c, <1>5, <2>1, <2>2, StartsStay DEF Invalidate
<1>6. CASE SweepSnapshot
  BY <1>b, <1>c, <1>6, StartsStay DEF SweepSnapshot
<1>7. CASE SweepDelete
  BY <1>b, <1>c, <1>7, StartsStay DEF SweepDelete
\* A call starts at the floor of its session, and has no state yet.
<1>d. ASSUME NEW c \in Callers, NEW s \in Sessions, NEW h, Arrive(c, s, h),
             UNCHANGED <<gen, floor, cache, state>>, pc'[c] # "store",
             \A d \in Callers : d # c => pc'[d] = pc[d] /\ got'[d] = got[d]
      PROVE  NotBeforeStart'
  <2>1. /\ since'[c] = floor'[session'[c]] /\ state'[c] = None
    BY <1>d DEF Arrive, TypeOK
  <2>2. floor'[session'[c]] \in Nat
    BY <1>c, <1>d DEF Arrive, TypeOK
  <2>3. NoneOlder(c)'
    BY <1>d, <2>1, <2>2 DEF NoneOlder
  <2>4. \A d \in Callers : d # c => session'[d] = session[d] /\ since'[d] = since[d]
    BY <1>d DEF Arrive, TypeOK
  <2> QED
    BY <1>d, <2>3, <2>4, StartsOfOthersStay
<1>8. ASSUME NEW c \in Callers, NEW s \in Sessions,
             NEW h \in HeaderRoots \cup {None}, HeaderCall(c, s, h)
      PROVE  NotBeforeStart'
  <2>1. \A d \in Callers : d # c => pc'[d] = pc[d] /\ got'[d] = got[d]
    BY <1>8 DEF HeaderCall, TypeOK
  <2> QED
    BY <1>8, <1>d, <2>1 DEF HeaderCall, TypeOK
<1>9. ASSUME NEW c \in Callers, NEW s \in Sessions,
             NEW h \in HeaderRoots \cup {None}, PlainCall(c, s, h)
      PROVE  NotBeforeStart'
  <2>1. \A d \in Callers : d # c => pc'[d] = pc[d] /\ got'[d] = got[d]
    BY <1>9 DEF PlainCall, TypeOK
  <2> QED
    BY <1>9, <1>d, <2>1 DEF PlainCall, TypeOK
<1>10. ASSUME NEW c \in Callers, NEW s \in Sessions,
             NEW h \in HeaderRoots \cup {None}, RootsCall(c, s, h)
      PROVE  NotBeforeStart'
  <2>1. \A d \in Callers : d # c => pc'[d] = pc[d] /\ got'[d] = got[d]
    BY <1>10 DEF RootsCall, TypeOK
  <2> QED
    BY <1>10, <1>d, <2>1 DEF RootsCall, TypeOK
\* What the session's state holds or is about to get is above the floor of now, and
\* so above the one the call started with; a new state holds nothing.
<1>11. ASSUME NEW c \in Callers, Find(c)
      PROVE  NotBeforeStart'
  <2> DEFINE s == session[c]
             found == IF sessions[s] = None THEN ticket[c] ELSE sessions[s]
  <2>1. /\ pc[c] = "find" /\ pc' = [pc EXCEPT ![c] = "check"]
        /\ state' = [state EXCEPT ![c] = found]
        /\ UNCHANGED <<gen, floor, cache, session, since, got>>
    BY <1>11 DEF Find
  <2>2. s \in Sessions /\ since[c] <= floor[s] /\ since[c] \in Nat
    BY <1>a, <2>1 DEF TypeOK, Generation, NotBeforeStart, NoneOlder
  <2>3. found \in State /\ state'[c] = found /\ pc'[c] = "check"
    BY <1>a, <2>1, <2>2 DEF TypeOK, State
  <2>4. /\ cache[found] # None => cache[found].gen \in floor[s]..gen[s]
        /\ \A d \in Callers :
              state[d] = found /\ pc[d] = "store" => got[d].gen \in floor[s]..gen[s]
    <3>1. CASE sessions[s] = None
      <4>1. Unused(found)
        BY <2>1, <3>1 DEF StatesAreNew
      <4> QED
        BY <4>1 DEF Unused
    <3>2. CASE sessions[s] # None
      <4>1. found = sessions[s]
        BY <3>2
      <4> HIDE DEF found
      <4> QED
        BY <2>2, <3>2, <4>1 DEF Freshness, NewEnough
    <3> QED
      BY <3>1, <3>2
  <2>5. floor[s] \in Nat /\ gen[s] \in Nat
    BY <1>c, <2>2
  <2> HIDE DEF found
  <2>6. cache[found] # None => cache[found].gen \in since[c]..gen[s]
    BY <2>2, <2>4, <2>5
  <2>7. \A d \in Callers : state[d] = found /\ pc[d] = "store" => since[c] <= got[d].gen
    BY <2>2, <2>4, <2>5
  <2>8. \A d \in Callers : d # c => pc'[d] = pc[d] /\ state'[d] = state[d]
    BY <2>1 DEF TypeOK
  <2>9. NoneOlder(c)'
    BY <2>1, <2>2, <2>3, <2>6, <2>7, <2>8 DEF NoneOlder
  <2> QED
    BY <2>1, <2>3, <2>8, <2>9, StartsOfOthersStay
\* The call has its answer, or gave up: it works on no state any more.
<1>e. ASSUME NEW c \in Callers, NEW roots, Answer(c, roots), UNCHANGED cache,
             pc' = [pc EXCEPT ![c] = "using"], pc[c] # "idle"
      PROVE  NotBeforeStart'
  <2>1. pc'[c] = "using" /\ state'[c] = None /\ UNCHANGED <<gen, floor, session, since>>
    BY <1>e DEF Answer, TypeOK
  <2>2. \A d \in Callers : d # c =>
          pc'[d] = pc[d] /\ state'[d] = state[d] /\ got'[d] = got[d]
    BY <1>e DEF Answer, TypeOK
  <2>3. since[c] <= floor[session[c]]
    BY <1>e DEF NotBeforeStart, NoneOlder
  <2>4. NoneOlder(c)'
    BY <2>1, <2>3 DEF NoneOlder
  <2> QED
    BY <1>e, <2>1, <2>2, <2>4, StartsOfOthersStay
<1>12. ASSUME NEW c \in Callers, CheckHit(c)
      PROVE  NotBeforeStart'
  BY <1>12, <1>e DEF CheckHit
<1>13. ASSUME NEW c \in Callers, CheckMiss(c)
      PROVE  NotBeforeStart'
  <2>1. /\ pc[c] = "check" /\ pc'[c] = "query"
        /\ \A d \in Callers : d # c => pc'[d] = pc[d]
        /\ UNCHANGED <<gen, floor, cache, session, since, state, got>>
    BY <1>13 DEF CheckMiss, TypeOK
  <2>2. NoneOlder(c)
    BY DEF NotBeforeStart
  <2>3. NoneOlder(c)'
    BY <2>1, <2>2 DEF NoneOlder
  <2> QED
    BY <2>1, <2>3, StartsOfOthersStay
\* The client's list is the newest there is, for every call of the same state.
<1>14. ASSUME NEW c \in Callers, Reply(c)
      PROVE  NotBeforeStart'
  <2>1. /\ pc[c] = "query" /\ pc' = [pc EXCEPT ![c] = "store"]
        /\ got' = [got EXCEPT ![c] = [from |-> session[c], gen |-> gen[session[c]]]]
        /\ UNCHANGED <<gen, floor, cache, session, since, state>>
    BY <1>14 DEF Reply
  <2>2. session[c] \in Sessions /\ state[c] \in State /\ got'[c].gen = gen[session[c]]
    BY <1>a, <2>1 DEF TypeOK
  <2> SUFFICES ASSUME NEW d \in Callers PROVE NoneOlder(d)'
    BY DEF NotBeforeStart
  <2>3. NoneOlder(d)
    BY DEF NotBeforeStart
  <2>4. ASSUME state[d] = state[c] PROVE since[d] <= got'[c].gen
    <3>1. pc[d] # "idle" /\ session[d] \in Sessions /\ since[d] \in Nat
      BY <1>a, <2>2, <2>4 DEF TypeOK, Generation
    <3>2. IsOf(state[c], session[c]) /\ IsOf(state[c], session[d])
      BY <2>4 DEF IsOf
    <3>3. session[d] = session[c]
      BY <2>2, <3>1, <3>2 DEF OneSessionPerState
    <3> QED
      BY <1>c, <2>2, <2>3, <3>1, <3>3 DEF NoneOlder
  <2>5. pc'[d] = "store" => got'[d].gen <= gen[session[d]]
    BY <1>c, <2>1, <2>2, <2>3 DEF NoneOlder, TypeOK
  <2>6. \A e \in Callers : e # c => pc'[e] = pc[e] /\ got'[e] = got[e]
    BY <2>1 DEF TypeOK
  <2>7. pc[d] # "idle" <=> pc'[d] # "idle"
    BY <2>1 DEF TypeOK
  <2> QED
    BY <2>1, <2>3, <2>4, <2>5, <2>6, <2>7 DEF NoneOlder
<1>15. ASSUME NEW c \in Callers, QueryFails(c)
      PROVE  NotBeforeStart'
  BY <1>15, <1>e DEF QueryFails
\* The entry of a state gets what the state held, or what no call of it minds.
<1>16. ASSUME NEW c \in Callers, Store(c)
      PROVE  NotBeforeStart'
  <2>1. /\ pc[c] = "store" /\ pc' = [pc EXCEPT ![c] = "using"]
        /\ state' = [state EXCEPT ![c] = None]
        /\ UNCHANGED <<gen, floor, session, since>>
    BY <1>16 DEF Store, Answer
  <2>2. \A d \in Callers : d # c => got'[d] = got[d] /\ state'[d] = state[d] /\ pc'[d] = pc[d]
    BY <1>16 DEF Store, Answer, TypeOK
  <2>3. /\ cache'[state[c]] = IF cache[state[c]] = None THEN got[c] ELSE cache[state[c]]
        /\ \A o \in State : o # state[c] => cache'[o] = cache[o]
    BY <1>a, <1>16 DEF Store, TypeOK
  <2>4. session[c] \in Sessions /\ state[c] \in State
    BY <1>a, <2>1 DEF TypeOK
  <2> SUFFICES ASSUME NEW d \in Callers PROVE NoneOlder(d)'
    BY DEF NotBeforeStart
  <2>5. NoneOlder(c) /\ NoneOlder(d)
    BY DEF NotBeforeStart
  <2>6. CASE d = c
    <3>1. pc'[d] = "using" /\ state'[d] = None
      BY <2>1, <2>6 DEF TypeOK
    <3> QED
      BY <2>1, <2>5, <2>6, <3>1 DEF NoneOlder
  <2>7. CASE d # c
    <3>1. ASSUME state[d] # None, cache'[state[d]] # None
          PROVE  cache'[state[d]].gen \in since[d]..gen[session[d]]
      <4>1. CASE cache'[state[d]] = cache[state[d]]
        BY <2>5, <3>1, <4>1 DEF NoneOlder
      <4>2. CASE cache'[state[d]] # cache[state[d]]
        <5>1. state[d] = state[c] /\ cache'[state[d]] = got[c]
          BY <2>3, <3>1, <4>2 DEF TypeOK
        <5>2. session[d] = session[c]
          <6>1. session[d] \in Sessions
            BY <1>a, <3>1 DEF TypeOK
          <6>2. IsOf(state[c], session[c]) /\ IsOf(state[c], session[d])
            BY <5>1 DEF IsOf
          <6> QED
            BY <2>4, <6>1, <6>2 DEF OneSessionPerState
        <5>3. since[d] <= got[c].gen /\ got[c].gen <= gen[session[c]]
          BY <2>1, <2>5, <3>1, <5>1 DEF NoneOlder
        <5>4. got[c].gen \in Nat /\ since[d] \in Nat /\ gen[session[c]] \in Nat
          BY <1>a, <2>1, <2>4 DEF TypeOK, RootList, Generation
        <5> QED
          BY <5>1, <5>2, <5>3, <5>4
      <4> QED
        BY <4>1, <4>2
    <3>2. \A e \in Callers : pc'[e] = "store" => e # c
      BY <2>1 DEF TypeOK
    <3> QED
      BY <2>1, <2>2, <2>5, <2>7, <3>1, <3>2 DEF NoneOlder
  <2> QED
    BY <2>6, <2>7
<1>17. ASSUME NEW c \in Callers, Done(c)
      PROVE  NotBeforeStart'
  <2>1. pc'[c] = "idle" /\ state'[c] = None /\ UNCHANGED <<gen, floor, cache, state>>
    BY <1>17 DEF Done, TypeOK
  <2>2. \A d \in Callers : d # c =>
          /\ pc'[d] = pc[d] /\ session'[d] = session[d] /\ since'[d] = since[d]
          /\ got'[d] = got[d]
    BY <1>17 DEF Done, TypeOK
  <2>3. NoneOlder(c)'
    BY <2>1 DEF NoneOlder
  <2> QED
    BY <2>1, <2>2, <2>3, StartsOfOthersStay
\* The bound is reached, or nothing happens.
<1>18. CASE UNCHANGED vars
  BY <1>b, <1>c, <1>18, StartsStay DEF vars
<1> QED
  BY <1>1, <1>2, <1>3, <1>4, <1>5, <1>6, <1>7, <1>8, <1>9, <1>10,
     <1>11, <1>12, <1>13, <1>14, <1>15, <1>16, <1>17, <1>18
     DEF Next, Step, Rest

LEMMA InvStep == IInv /\ [Next]_vars => IInv'
<1> SUFFICES ASSUME IInv, [Next]_vars PROVE IInv'
  OBVIOUS
<1>1. TypeOK'
  BY TypeStep DEF IInv
<1>2. /\ StatesAreNew' /\ OneSessionPerState' /\ RootsBelongToTheCall'
      /\ Freshness' /\ NotBeforeStart'
  BY StatesAreNewStep, OneSessionPerStateStep, RootsBelongToTheCallStep, FreshnessStep,
     NotBeforeStartStep
     DEF IInv
<1> QED
  BY <1>1, <1>2 DEF IInv

\* The inductive invariant of the resolver.
THEOREM Invariance == Spec => []IInv
<1>1. Init => IInv
  BY InvInit
<1>2. IInv /\ [Next]_vars => IInv'
  BY InvStep
<1> QED
  BY <1>1, <1>2, PTL DEF Spec

\* No call is resolved by the roots of another client or another request.
THEOREM NoCrossContamination == Spec => []RootsBelongToTheCall
<1>1. IInv => RootsBelongToTheCall
  BY DEF IInv
<1> QED
  BY <1>1, Invariance, PTL

\* Only a list_changed that overtakes a query leaves older roots in the cache.
THEOREM StaleOnlyThen == Spec => []StaleOnlyIfOvertaken
<1>1. IInv => StaleOnlyIfOvertaken
  BY DEF IInv, Freshness, NewEnough, StaleOnlyIfOvertaken
<1> QED
  BY <1>1, Invariance, PTL

\* An entry changes only by being cleared: the one step that fills it, Store,
\* leaves a filled one alone.
THEOREM EntriesAreFilledOnce == Spec => FilledOnce
<1> DEFINE Filled == \A o \in State : cache[o] # None => cache'[o] \in {cache[o], None}
<1>1. ASSUME TypeOK, [Next]_vars PROVE Filled
  <2> USE DEF TypeOK
  <2>1. ASSUME NEW s \in Sessions, Invalidate(s) PROVE Filled
    BY <2>1 DEF Invalidate, Handled
  <2>2. ASSUME NEW c \in Callers, Store(c) PROVE Filled
    BY <2>2 DEF Store, Goto
  <2>3. CASE UNCHANGED cache
    BY <2>3
  <2> QED
    BY <1>1, <2>1, <2>2, <2>3
    DEF Next, vars, Step, Rest, Begin, End, ChangeRoots, Notice, SweepSnapshot,
        SweepDelete, HeaderCall, PlainCall, RootsCall, Find, CheckHit, CheckMiss,
        Reply, QueryFails, Done
<1>2. TypeOK /\ [Next]_vars => [Filled]_vars
  BY <1>1
<1> QED
  BY <1>2, TypeCorrect, PTL DEF Spec, FilledOnce

-----------------------------------------------------------------------------
\* What callers see of the resolver

\* What a caller sees of its answer, which it has once it uses it.
Shown(c) == IF pc[c] = "using" THEN got[c] ELSE None

\* A step that moves one caller, or none, as the callers see it.
LEMMA ViewOfOthers ==
  ASSUME TypeOK, TypeOK', NEW c \in Callers, NEW to, pc' = [pc EXCEPT ![c] = to],
         \A d \in Callers : d # c => got'[d] = got[d]
  PROVE  /\ [d \in Callers |-> At(d)]'
              = [[d \in Callers |-> At(d)] EXCEPT ![c] = At(c)']
         /\ [d \in Callers |-> Shown(d)]'
              = [[d \in Callers |-> Shown(d)] EXCEPT ![c] = Shown(c)']
<1>1. \A d \in Callers : d # c => At(d)' = At(d) /\ Shown(d)' = Shown(d)
  BY DEF At, Shown, TypeOK
<1> QED
  BY <1>1

LEMMA ViewInit == Init => View!Init
  BY DEF Init, View!Init, At

\* Every step is one of the view, or changes nothing a caller could tell: only the
\* steps of sessions, the sweep and the way to a state are hidden.
LEMMA ViewStep == IInv /\ [Next]_vars => [View!Next]_(View!viewVars)
<1> SUFFICES ASSUME TypeOK, TypeOK', OneSessionPerState, NotBeforeStart, [Next]_vars
             PROVE  [View!Next]_(View!viewVars)
  BY TypeStep DEF IInv
<1>0. /\ None \notin Sessions /\ None \notin State /\ None \notin Rooted
      /\ MaxCalls \in Nat /\ MaxChanges \in Nat
  BY ResolverAssumption
<1> DEFINE at == [d \in Callers |-> At(d)]
           shown == [d \in Callers |-> Shown(d)]
<1> USE DEF Goto, clientVars, noticeVars, callVars, View!viewVars
<1>1. ASSUME UNCHANGED <<gen, noted, floor, pc, session, since, got>>
      PROVE  UNCHANGED View!viewVars
  BY <1>1 DEF At
<1>2. ASSUME UNCHANGED <<pc, got>>
      PROVE  UNCHANGED <<at, shown>>
  BY <1>2 DEF At, Shown
<1>3. ASSUME NEW s \in Sessions, ChangeRoots(s)
      PROVE  View!Change(s)
  BY <1>2, <1>3 DEF ChangeRoots, View!Change, Shown
\* A notification without a state overtakes nobody.
<1>4. ASSUME NEW s \in Sessions, Notice(s)
      PROVE  View!Handled(s) \/ UNCHANGED View!viewVars
  <2>1. CASE sessions[s] = None
    <3>1. Handled(s, FALSE) /\ noted[s] < gen[s] /\ UNCHANGED <<gen, pc, session, since, got>>
      BY <1>4, <2>1 DEF Notice
    <3> QED
      BY <1>2, <3>1 DEF Handled, View!Handled, Shown
  <2>2. CASE sessions[s] # None
    BY <1>1, <1>4, <2>2 DEF Notice
  <2> QED
    BY <2>1, <2>2
\* The call it overtakes is one of the session, and is asking the client.
<1>5. ASSUME NEW s \in Sessions, Invalidate(s)
      PROVE  View!Handled(s)
  <2>1. /\ Handled(s, Overtakes(s)) /\ notice[s] # None
        /\ UNCHANGED <<gen, pc, session, since, got>>
    BY <1>5 DEF Invalidate
  <2>2. noted[s] < gen[s]
    BY <2>1 DEF TypeOK
  <2>3. ASSUME Overtakes(s)
        PROVE  \E c \in Callers : at[c] = "asking" /\ session[c] = s
    <3>1. PICK c \in Callers : state[c] = notice[s] /\ pc[c] \in {"query", "store"}
      BY <2>3 DEF Overtakes
    <3>2. session[c] \in Sessions /\ state[c] \in State
      BY <1>0, <3>1 DEF TypeOK
    <3>3. IsOf(state[c], session[c]) /\ IsOf(state[c], s)
      BY <3>1 DEF IsOf
    <3>4. session[c] = s
      BY <3>2, <3>3 DEF OneSessionPerState
    <3>5. At(c) = "asking"
      BY <3>1 DEF At
    <3> QED
      BY <3>4, <3>5
  <2>4. CASE Overtakes(s)
    <3>1. noted' = [noted EXCEPT ![s] = @ + 1] /\ UNCHANGED floor
      BY <2>1, <2>4 DEF Handled, TypeOK
    <3> QED
      BY <1>2, <2>1, <2>2, <2>3, <2>4, <3>1 DEF View!Handled, Shown
  <2>5. CASE ~ Overtakes(s)
    <3>1. /\ noted' = [noted EXCEPT ![s] = @ + 1]
          /\ floor' = [floor EXCEPT ![s] = noted[s] + 1]
      BY <2>1, <2>5 DEF Handled
    <3> QED
      BY <1>2, <2>1, <2>2, <3>1 DEF View!Handled, Shown
  <2> QED
    BY <2>4, <2>5
\* A call that needs no client is answered at once.
<1>6. ASSUME NEW c \in Callers, NEW s \in Sessions, NEW h \in HeaderRoots \cup {None},
             HeaderCall(c, s, h) \/ PlainCall(c, s, h)
      PROVE  View!AnswerAtOnce(c, s, h)
  <2> DEFINE roots == IF h \in Rooted THEN h ELSE Base
  <2>1. /\ Arrive(c, s, h)
        /\ h \in Rooted \/ s \notin Capable
        /\ pc' = [pc EXCEPT ![c] = "using"]
        /\ got' = [got EXCEPT ![c] = roots]
        /\ UNCHANGED <<gen, noted, floor>>
    BY <1>6 DEF HeaderCall, PlainCall
  <2> HIDE DEF roots
  <2>2. /\ pc[c] = "idle" /\ pc'[c] = "using" /\ got'[c] = roots
        /\ \A d \in Callers : d # c => got'[d] = got[d]
    BY <2>1 DEF Arrive, TypeOK
  <2>3. At(c) = "idle" /\ At(c)' = "answered" /\ Shown(c)' = roots
    BY <2>2 DEF At, Shown
  <2>4. at' = [at EXCEPT ![c] = "answered"] /\ shown' = [shown EXCEPT ![c] = roots]
    BY <2>1, <2>2, <2>3, ViewOfOthers
  <2>5. View!Start(c, s)
    BY <2>1, <2>3 DEF Arrive, View!Start
  <2> USE DEF roots
  <2> QED
    BY <2>1, <2>4, <2>5 DEF View!AnswerAtOnce, Shown
<1>7. ASSUME NEW c \in Callers, NEW s \in Sessions, NEW h \in HeaderRoots \cup {None},
             RootsCall(c, s, h)
      PROVE  View!Wait(c, s)
  <2>1. /\ Arrive(c, s, h) /\ s \in Capable
        /\ pc' = [pc EXCEPT ![c] = "find"] /\ UNCHANGED <<gen, noted, floor, got>>
    BY <1>7 DEF RootsCall
  <2>2. pc[c] = "idle" /\ pc'[c] = "find"
    BY <2>1 DEF Arrive, TypeOK
  <2>3. At(c) = "idle" /\ At(c)' = "waiting" /\ Shown(c) = None /\ Shown(c)' = None
    BY <2>2 DEF At, Shown
  <2>4. at' = [at EXCEPT ![c] = "waiting"] /\ shown' = shown
    BY <2>1, <2>3, ViewOfOthers
  <2> QED
    BY <2>1, <2>3, <2>4 DEF Arrive, View!Wait, View!Start, Shown
\* On the way to its state a call only waits.
<1>8. ASSUME NEW c \in Callers, Find(c)
      PROVE  UNCHANGED View!viewVars
  <2>1. /\ pc[c] = "find" /\ pc' = [pc EXCEPT ![c] = "check"]
        /\ UNCHANGED <<gen, noted, floor, session, since, got>>
    BY <1>8 DEF Find
  <2>2. At(c)' = At(c) /\ Shown(c)' = Shown(c)
    BY <2>1 DEF At, Shown, TypeOK
  <2>3. at' = at /\ shown' = shown
    BY <2>1, <2>2, ViewOfOthers
  <2> QED
    BY <2>1, <2>3 DEF Shown
<1>9. ASSUME NEW c \in Callers, CheckMiss(c)
      PROVE  View!AskClient(c)
  <2>1. /\ pc[c] = "check" /\ pc' = [pc EXCEPT ![c] = "query"]
        /\ UNCHANGED <<gen, noted, floor, session, since, got>>
    BY <1>9 DEF CheckMiss
  <2>2. At(c) = "waiting" /\ At(c)' = "asking" /\ Shown(c)' = Shown(c)
    BY <2>1 DEF At, Shown, TypeOK
  <2>3. at' = [at EXCEPT ![c] = "asking"] /\ shown' = shown
    BY <2>1, <2>2, ViewOfOthers
  <2> QED
    BY <2>1, <2>2, <2>3 DEF View!AskClient, Shown
<1>10. ASSUME NEW c \in Callers, Reply(c)
       PROVE  UNCHANGED View!viewVars
  <2>1. /\ pc[c] = "query" /\ pc' = [pc EXCEPT ![c] = "store"]
        /\ \A d \in Callers : d # c => got'[d] = got[d]
        /\ UNCHANGED <<gen, noted, floor, session, since>>
    BY <1>10 DEF Reply, TypeOK
  <2>2. At(c)' = At(c) /\ Shown(c)' = Shown(c)
    BY <2>1 DEF At, Shown, TypeOK
  <2>3. at' = at /\ shown' = shown
    BY <2>1, <2>2, ViewOfOthers
  <2> QED
    BY <2>1, <2>3 DEF Shown
\* How a call that works on a state ends, whatever it has found.
<1>11. ASSUME NEW c \in Callers, NEW roots, Answer(c, Resolved(roots)),
              pc' = [pc EXCEPT ![c] = "using"]
       PROVE  View!Answer(c, roots)
  <2>1. /\ got' = [got EXCEPT ![c] = Resolved(roots)]
        /\ UNCHANGED <<gen, noted, floor, session, since>>
    BY <1>11 DEF Answer
  <2>2. /\ pc'[c] = "using" /\ got'[c] = Resolved(roots)
        /\ \A d \in Callers : d # c => got'[d] = got[d]
    BY <1>11, <2>1 DEF TypeOK
  <2>3. At(c)' = "answered" /\ Shown(c)' = Resolved(roots)
    BY <2>2 DEF At, Shown
  <2>4. at' = [at EXCEPT ![c] = "answered"] /\ shown' = [shown EXCEPT ![c] = Resolved(roots)]
    BY <1>11, <2>2, <2>3, ViewOfOthers
  <2> QED
    BY <2>1, <2>4 DEF View!Answer, Resolved, Shown
\* Cached roots are a list of the call's client not older than its start.
<1>12. ASSUME NEW c \in Callers, state[c] # None, pc[c] \in {"check", "store"},
              NEW roots \in RootList, View!Answer(c, roots),
              roots = cache[state[c]] \/ (pc[c] = "store" /\ roots = got[c])
       PROVE  View!AnswerFromList(c)
  <2>1. session[c] \in Sessions /\ state[c] \in State /\ roots # None
    BY <1>0, <1>12, ResolverAssumption DEF TypeOK
  <2>2. /\ NoneOlder(c) /\ IsOf(state[c], session[c])
        /\ pc[c] = "store" => got[c].from = session[c]
    BY <2>1 DEF NotBeforeStart, IsOf, OneSessionPerState
  <2>3. roots.from = session[c]
    BY <1>12, <2>1, <2>2 DEF OneSessionPerState
  <2>4. roots.gen \in since[c]..gen[session[c]]
    <3>1. roots.gen \in Nat /\ since[c] \in Nat /\ gen[session[c]] \in Nat
      BY <1>0, <2>1 DEF TypeOK, RootList, Generation
    <3> QED
      BY <1>12, <2>1, <2>2, <3>1 DEF NoneOlder
  <2>5. roots = [from |-> session[c], gen |-> roots.gen]
    BY <2>3 DEF RootList
  <2>6. At(c) \in {"waiting", "asking"}
    BY <1>12 DEF At
  <2>7. View!Answer(c, [from |-> session[c], gen |-> roots.gen])
    BY <1>12, <2>5 DEF View!Answer
  <2> QED
    BY <2>4, <2>6, <2>7 DEF View!Answer, View!AnswerFromList
<1>13. ASSUME NEW c \in Callers, CheckHit(c)
       PROVE  View!AnswerFromList(c)
  <2>1. /\ pc[c] = "check" /\ state[c] \in State /\ state[c] # None
        /\ cache[state[c]] \in RootList
    BY <1>0, <1>13 DEF CheckHit, TypeOK
  <2>2. /\ Answer(c, Resolved(cache[state[c]]))
        /\ pc' = [pc EXCEPT ![c] = "using"]
    BY <1>13 DEF CheckHit
  <2>3. View!Answer(c, cache[state[c]])
    BY <1>11, <2>2 DEF Answer, View!Answer
  <2> QED
    BY <1>12, <2>1, <2>3 DEF View!Answer, View!AnswerFromList
<1>14. ASSUME NEW c \in Callers, Store(c)
       PROVE  View!AnswerFromList(c)
  <2> DEFINE roots == IF cache[state[c]] = None THEN got[c] ELSE cache[state[c]]
  <2>1. /\ pc[c] = "store" /\ state[c] \in State /\ state[c] # None
        /\ roots \in RootList
    BY <1>0, <1>14 DEF Store, TypeOK
  <2>2. Answer(c, Resolved(roots)) /\ pc' = [pc EXCEPT ![c] = "using"]
    BY <1>14 DEF Store
  <2>3. roots = cache[state[c]] \/ roots = got[c]
    OBVIOUS
  <2> HIDE DEF roots
  <2>4. View!Answer(c, roots)
    BY <1>11, <2>2 DEF Answer, View!Answer
  <2> QED
    BY <1>12, <2>1, <2>3, <2>4 DEF View!Answer, View!AnswerFromList
<1>15. ASSUME NEW c \in Callers, QueryFails(c)
       PROVE  View!AnswerWithout(c)
  <2>1. Answer(c, Resolved(None)) /\ pc[c] = "query" /\ pc' = [pc EXCEPT ![c] = "using"]
    BY <1>0, <1>15 DEF QueryFails, Resolved
  <2>2. View!Answer(c, None) /\ At(c) = "asking"
    BY <1>11, <2>1 DEF At
  <2> QED
    BY <2>2 DEF View!AnswerWithout
<1>16. ASSUME NEW c \in Callers, Done(c)
       PROVE  View!Leave(c)
  <2>1. /\ pc[c] = "using" /\ pc' = [pc EXCEPT ![c] = "idle"]
        /\ got' = [got EXCEPT ![c] = None]
        /\ session' = [session EXCEPT ![c] = None] /\ since' = [since EXCEPT ![c] = 0]
        /\ UNCHANGED <<gen, noted, floor>>
    BY <1>16 DEF Done
  <2>2. /\ At(c) = "answered" /\ At(c)' = "idle" /\ Shown(c)' = None
        /\ \A d \in Callers : d # c => got'[d] = got[d]
    BY <2>1 DEF At, Shown, TypeOK
  <2>3. at' = [at EXCEPT ![c] = "idle"] /\ shown' = [shown EXCEPT ![c] = None]
    BY <2>1, <2>2, ViewOfOthers
  <2> QED
    BY <2>1, <2>2, <2>3 DEF View!Leave, Shown
<1>17. ASSUME \/ \E s \in Sessions : Begin(s) \/ End(s)
              \/ SweepSnapshot \/ SweepDelete \/ UNCHANGED vars
       PROVE  UNCHANGED View!viewVars
  BY <1>1, <1>17 DEF Begin, End, SweepSnapshot, SweepDelete, vars
<1> HIDE DEF View!viewVars
<1> QED
  BY <1>3, <1>4, <1>5, <1>6, <1>7, <1>8, <1>9, <1>10, <1>13, <1>14, <1>15, <1>16, <1>17
  DEF Next, Step, Rest, View!Next

\* The resolver, with its states, caches, locks and sweeps, gives every call what a
\* RootsView promises.
THEOREM Refinement == Spec => ImplementsRootsView
<1>1. Init => View!Init
  BY ViewInit
<1>2. IInv /\ [Next]_vars => [View!Next]_(View!viewVars)
  BY ViewStep
<1> QED
  BY <1>1, <1>2, Invariance, PTL DEF Spec, ImplementsRootsView, View!Spec
=============================================================================
