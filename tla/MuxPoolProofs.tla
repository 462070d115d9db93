---------------------------- MODULE MuxPoolProofs ----------------------------
(***************************************************************************)
(* The safety of MuxPool for every number of dialers, sessions and ids.    *)
(*                                                                         *)
(* The argument is the mutex's: whoever is between p.Lock() and p.Unlock() *)
(* holds it, so what it saw of the map stays as it was seen, and what it   *)
(* saw of a session can change in one way only, the session's death.       *)
(***************************************************************************)
EXTENDS MuxPool, FiniteSetTheorems, TLAPS

\* The program counters between p.Lock() and p.Unlock().
InDialMux == {"range", "count", "dial", "hung", "open"}
InCleanLoop == {"sweep", "reap", "final"}

Exclusion ==
  /\ \A d \in Dialers : pc[d] \in InDialMux => mutex = d
  /\ cleanPC \in InCleanLoop => mutex = Cleaner

\* The entries that the mutex holder is looking at, or has still to visit, are
\* in the map.
LoopInMap ==
  /\ unvisited \subseteq Pooled
  /\ \A d \in Dialers : pc[d] \in {"count", "open"} => cur \in Pooled
  /\ cleanPC = "reap" => cur \in Pooled

\* What was seen of a session before the step that relies on it.
RoomKept ==
  \A d \in Dialers :
    pc[d] = "open" /\ Concurrency > 0 /\ client[sessions[cur]] # "closed"
      => Cardinality(streams[sessions[cur]]) < Concurrency

JudgedUnused ==
  cleanPC = "reap" =>
    /\ cur \notin unvisited
    /\ client[sessions[cur]] # "closed" => streams[sessions[cur]] = {}

OneEach ==
  \A d \in Dialers :
    /\ \A s, t \in Sessions : d \in streams[s] /\ d \in streams[t] => s = t
    /\ pc[d] = "relay" <=> \E s \in Sessions : d \in streams[s]

IInv == TypeOK /\ Exclusion /\ LoopInMap /\ RoomKept /\ JudgedUnused /\ StreamCap /\ OpenSessionsTracked /\ OneEach

-----------------------------------------------------------------------------
(* Types *)

LEMMA InitTypeOK == Init => TypeOK
  BY DEF Init, TypeOK

\* Removing an entry, with or without closing its session, keeps the types.
LEMMA DiscardType ==
  ASSUME TypeOK, NEW id \in MuxIDs, Discard(id)
  PROVE  /\ sessions' \in [MuxIDs -> Sessions \cup {NoSession}]
         /\ client' \in [Sessions -> {"open", "broken", "closed"}]
         /\ streams' \in [Sessions -> SUBSET Dialers]
         /\ expired' \in SUBSET Sessions
         /\ displaced' \in SUBSET Sessions
  BY DEF TypeOK, Discard

LEMMA NextTypeOK == TypeOK /\ [Next]_vars => TypeOK'
<1> SUFFICES ASSUME TypeOK, [Next]_vars PROVE TypeOK'
  OBVIOUS
<1>1. ASSUME NEW d \in Dialers, Call(d) \/ Lock(d) \/ Stall(d) \/ DialErr(d) \/ Hangup(d)
      PROVE  TypeOK'
  BY <1>1 DEF TypeOK, Call, Lock, Stall, DialErr, Hangup, Acquire, Release, Pooled, poolVars, loopVars
<1>2. ASSUME NEW d \in Dialers, NEW id \in MuxIDs, NEW s \in Sessions, DialOK(d, id, s)
      PROVE  TypeOK'
  BY <1>2 DEF TypeOK, DialOK
<1>3. ASSUME NEW d \in Dialers, DialStep(d)
      PROVE  TypeOK'
  <2>1. ASSUME NEW id \in MuxIDs, DropClosed(d, id) \/ Inspect(d, id)
        PROVE  TypeOK'
    BY <2>1 DEF TypeOK, DropClosed, Inspect, poolVars
  <2>2. CASE Reuse(d) \/ Skip(d) \/ RangeEnds(d)
    BY <2>2 DEF TypeOK, Reuse, Skip, RangeEnds, poolVars, loopVars
  <2>3. CASE OpenOK(d)
    BY <2>3 DEF TypeOK, OpenOK, Release
  <2>4. CASE OpenErr(d)
    BY <2>4 DEF TypeOK, OpenErr, Discard, Release
  <2> QED BY <1>3, <2>1, <2>2, <2>3, <2>4 DEF DialStep
<1>4. CASE CleanLock
  BY <1>4 DEF TypeOK, CleanLock, Acquire, Pooled, poolVars
<1>5. CASE CleanStep
  <2>1. CASE TimerFires \/ CtxDone \/ SweepEnds \/ FinalEnds
    BY <2>1 DEF TypeOK, TimerFires, CtxDone, SweepEnds, FinalEnds, Release, poolVars, loopVars
  <2>2. ASSUME NEW id \in MuxIDs, SweepClosed(id) \/ FinalClose(id)
        PROVE  TypeOK'
    BY <2>2, DiscardType DEF TypeOK, SweepClosed, FinalClose
  <2>3. ASSUME NEW id \in MuxIDs, SweepSpare(id) \/ SweepJudge(id)
        PROVE  TypeOK'
    BY <2>3 DEF TypeOK, SweepSpare, SweepJudge, poolVars
  <2>4. CASE Reap
    BY <2>4 DEF TypeOK, Reap, Discard
  <2> QED BY <1>5, <2>1, <2>2, <2>3, <2>4 DEF CleanStep
<1>6. ASSUME NEW s \in Sessions, Break(s) \/ KeepAliveTimeout(s) \/ Expire(s)
      PROVE  TypeOK'
  BY <1>6 DEF TypeOK, Break, KeepAliveTimeout, Expire, loopVars
<1>7. CASE Cancel \/ UNCHANGED vars
  BY <1>7 DEF TypeOK, Cancel, vars, poolVars, loopVars
<1> QED BY <1>1, <1>2, <1>3, <1>4, <1>5, <1>6, <1>7 DEF Next, NewConn

\* Every variable has the values its declaration promises, whatever the
\* dialers, cleanLoop and the network do.
THEOREM TypeCorrect == Spec => []TypeOK
  BY InitTypeOK, NextTypeOK, PTL DEF Spec

-----------------------------------------------------------------------------
(* Who holds the mutex, and what it knows of the map *)

LEMMA NextExclusion ==
  ASSUME TypeOK, Exclusion, LoopInMap, JudgedUnused, [Next]_vars
  PROVE  Exclusion' /\ LoopInMap'
<1> USE NamesAssumption DEF InDialMux, InCleanLoop, Pooled
<1>1. ASSUME NEW d \in Dialers, Call(d) \/ Lock(d) \/ Stall(d) \/ DialErr(d) \/ Hangup(d)
      PROVE  Exclusion' /\ LoopInMap'
  BY <1>1 DEF TypeOK, Exclusion, LoopInMap, Call, Lock, Stall, DialErr, Hangup,
     Acquire, Release, poolVars, loopVars
<1>2. ASSUME NEW d \in Dialers, NEW id \in MuxIDs, NEW s \in Sessions, DialOK(d, id, s)
      PROVE  Exclusion' /\ LoopInMap'
  BY <1>2 DEF TypeOK, Exclusion, LoopInMap, DialOK
<1>3. ASSUME NEW d \in Dialers, DialStep(d)
      PROVE  Exclusion' /\ LoopInMap'
  <2>1. ASSUME NEW id \in MuxIDs, DropClosed(d, id) \/ Inspect(d, id)
        PROVE  Exclusion' /\ LoopInMap'
    BY <2>1 DEF TypeOK, Exclusion, LoopInMap, DropClosed, Inspect, poolVars
  <2>2. CASE Reuse(d) \/ Skip(d) \/ RangeEnds(d)
    BY <2>2 DEF TypeOK, Exclusion, LoopInMap, Reuse, Skip, RangeEnds, poolVars, loopVars
  <2>3. CASE OpenOK(d) \/ OpenErr(d)
    BY <2>3 DEF TypeOK, Exclusion, LoopInMap, OpenOK, OpenErr, Discard, Release
  <2> QED BY <1>3, <2>1, <2>2, <2>3 DEF DialStep
<1>4. CASE CleanLock
  BY <1>4 DEF TypeOK, Exclusion, LoopInMap, CleanLock, Acquire, poolVars
<1>5. CASE CleanStep
  <2>1. CASE TimerFires \/ CtxDone \/ SweepEnds \/ FinalEnds
    BY <2>1 DEF TypeOK, Exclusion, LoopInMap, TimerFires, CtxDone, SweepEnds, FinalEnds,
       Release, poolVars, loopVars
  <2>2. ASSUME NEW id \in MuxIDs, SweepClosed(id) \/ FinalClose(id)
        PROVE  Exclusion' /\ LoopInMap'
    BY <2>2 DEF TypeOK, Exclusion, LoopInMap, SweepClosed, FinalClose, Discard
  <2>3. ASSUME NEW id \in MuxIDs, SweepSpare(id) \/ SweepJudge(id)
        PROVE  Exclusion' /\ LoopInMap'
    BY <2>3 DEF TypeOK, Exclusion, LoopInMap, SweepSpare, SweepJudge, poolVars
  <2>4. CASE Reap
    BY <2>4 DEF TypeOK, Exclusion, LoopInMap, JudgedUnused, Reap, Discard
  <2> QED BY <1>5, <2>1, <2>2, <2>3, <2>4 DEF CleanStep
<1>6. ASSUME NEW s \in Sessions, Break(s) \/ KeepAliveTimeout(s) \/ Expire(s)
      PROVE  Exclusion' /\ LoopInMap'
  BY <1>6 DEF Exclusion, LoopInMap, Break, KeepAliveTimeout, Expire, loopVars
<1>7. CASE Cancel \/ UNCHANGED vars
  BY <1>7 DEF Exclusion, LoopInMap, Cancel, vars, poolVars, loopVars
<1> QED BY <1>1, <1>2, <1>3, <1>4, <1>5, <1>6, <1>7 DEF Next, NewConn

-----------------------------------------------------------------------------
(* What was seen of a session, and the streams on it *)

LEMMA StreamsFinite ==
  ASSUME TypeOK, NEW s \in Sessions
  PROVE  IsFiniteSet(streams[s]) /\ Cardinality(streams[s]) \in Nat
  BY DialersAssumption, FS_Subset, FS_CardinalityType DEF TypeOK

\* Streams are only ever removed, except by OpenOK.
LEMMA StreamsGrowInOpenOK ==
  ASSUME TypeOK, [Next]_vars, ~ \E d \in Dialers : OpenOK(d), NEW s \in Sessions
  PROVE  streams'[s] \subseteq streams[s]
<1>1. ASSUME NEW d \in Dialers, Call(d) \/ Lock(d) \/ Stall(d) \/ DialErr(d) \/ Hangup(d)
      PROVE  streams'[s] \subseteq streams[s]
  BY <1>1 DEF TypeOK, Call, Lock, Stall, DialErr, Hangup, poolVars
<1>2. ASSUME NEW d \in Dialers, NEW id \in MuxIDs, NEW t \in Sessions, DialOK(d, id, t)
      PROVE  streams'[s] \subseteq streams[s]
  BY <1>2 DEF DialOK
<1>3. ASSUME NEW d \in Dialers, DialStep(d)
      PROVE  streams'[s] \subseteq streams[s]
  BY <1>3 DEF DialStep, DropClosed, Inspect, Reuse, Skip, RangeEnds, OpenErr, Discard, poolVars
<1>4. CASE CleanLock \/ CleanStep
  BY <1>4 DEF CleanLock, CleanStep, TimerFires, CtxDone, SweepClosed, SweepSpare, SweepJudge,
     Reap, SweepEnds, FinalClose, FinalEnds, Discard, poolVars
<1>5. ASSUME NEW t \in Sessions, Break(t) \/ KeepAliveTimeout(t) \/ Expire(t)
      PROVE  streams'[s] \subseteq streams[s]
  BY <1>5 DEF Break, KeepAliveTimeout, Expire
<1>6. CASE Cancel \/ UNCHANGED vars
  BY <1>6 DEF Cancel, vars, poolVars
<1> QED BY <1>1, <1>2, <1>3, <1>4, <1>5, <1>6 DEF Next, NewConn

\* A closed session opens again in DialOK only, as a new one.
LEMMA ClosedStaysClosed ==
  ASSUME TypeOK, [Next]_vars, NEW s \in Sessions, client[s] = "closed", client'[s] # "closed"
  PROVE  \E d \in Dialers, id \in MuxIDs : DialOK(d, id, s)
<1> SUFFICES ASSUME \A d \in Dialers, id \in MuxIDs : ~DialOK(d, id, s) PROVE FALSE
  OBVIOUS
<1>1. ASSUME NEW d \in Dialers, Call(d) \/ Lock(d) \/ Stall(d) \/ DialErr(d) \/ Hangup(d)
      PROVE  FALSE
  BY <1>1 DEF Call, Lock, Stall, DialErr, Hangup, poolVars
<1>2. ASSUME NEW d \in Dialers, NEW id \in MuxIDs, NEW t \in Sessions, DialOK(d, id, t)
      PROVE  FALSE
  BY <1>2 DEF TypeOK, DialOK
<1>3. ASSUME NEW d \in Dialers, DialStep(d)
      PROVE  FALSE
  BY <1>3 DEF TypeOK, DialStep, DropClosed, Inspect, Reuse, Skip, RangeEnds, OpenOK, OpenErr,
     Discard, poolVars
<1>4. CASE CleanLock \/ CleanStep
  BY <1>4 DEF TypeOK, CleanLock, CleanStep, TimerFires, CtxDone, SweepClosed, SweepSpare,
     SweepJudge, Reap, SweepEnds, FinalClose, FinalEnds, Discard, poolVars
<1>5. ASSUME NEW t \in Sessions, Break(t) \/ KeepAliveTimeout(t) \/ Expire(t)
      PROVE  FALSE
  BY <1>5 DEF TypeOK, Break, KeepAliveTimeout, Expire
<1>6. CASE Cancel \/ UNCHANGED vars
  BY <1>6 DEF Cancel, vars, poolVars
<1> QED BY <1>1, <1>2, <1>3, <1>4, <1>5, <1>6 DEF Next, NewConn

LEMMA NextOneEach ==
  ASSUME TypeOK, LoopInMap, OneEach, [Next]_vars
  PROVE  OneEach'
<1>1. ASSUME NEW d \in Dialers, Call(d) \/ Lock(d) \/ Stall(d) \/ DialErr(d)
      PROVE  OneEach'
  BY <1>1 DEF TypeOK, OneEach, Call, Lock, Stall, DialErr, poolVars
<1>2. ASSUME NEW d \in Dialers, Hangup(d)
      PROVE  OneEach'
  BY <1>2 DEF TypeOK, OneEach, Hangup
<1>3. ASSUME NEW d \in Dialers, NEW id \in MuxIDs, NEW s \in Sessions, DialOK(d, id, s)
      PROVE  OneEach'
  BY <1>3 DEF TypeOK, OneEach, DialOK
<1>4. ASSUME NEW d \in Dialers, DialStep(d)
      PROVE  OneEach'
  <2>1. ASSUME NEW id \in MuxIDs, DropClosed(d, id) \/ Inspect(d, id)
        PROVE  OneEach'
    BY <2>1 DEF TypeOK, OneEach, DropClosed, Inspect, poolVars
  <2>2. CASE Reuse(d) \/ Skip(d) \/ RangeEnds(d) \/ OpenErr(d)
    BY <2>2 DEF TypeOK, OneEach, Reuse, Skip, RangeEnds, OpenErr, Discard, poolVars
  <2>3. CASE OpenOK(d)
    BY <2>3 DEF TypeOK, LoopInMap, Pooled, OneEach, OpenOK
  <2> QED BY <1>4, <2>1, <2>2, <2>3 DEF DialStep
<1>5. CASE CleanLock \/ CleanStep
  BY <1>5 DEF OneEach, CleanLock, CleanStep, TimerFires, CtxDone, SweepClosed, SweepSpare,
     SweepJudge, Reap, SweepEnds, FinalClose, FinalEnds, Discard, poolVars
<1>6. ASSUME NEW s \in Sessions, Break(s) \/ KeepAliveTimeout(s) \/ Expire(s)
      PROVE  OneEach'
  BY <1>6 DEF OneEach, Break, KeepAliveTimeout, Expire
<1>7. CASE Cancel \/ UNCHANGED vars
  BY <1>7 DEF OneEach, Cancel, vars, poolVars
<1> QED BY <1>1, <1>2, <1>3, <1>4, <1>5, <1>6, <1>7 DEF Next, NewConn

LEMMA NextTracked ==
  ASSUME TypeOK, LoopInMap, OpenSessionsTracked, [Next]_vars
  PROVE  OpenSessionsTracked'
<1> USE NamesAssumption DEF InPool, OpenSessionsTracked
<1>1. ASSUME NEW d \in Dialers, Call(d) \/ Lock(d) \/ Stall(d) \/ DialErr(d) \/ Hangup(d)
      PROVE  OpenSessionsTracked'
  BY <1>1 DEF Call, Lock, Stall, DialErr, Hangup, poolVars
<1>2. ASSUME NEW d \in Dialers, NEW id \in MuxIDs, NEW s \in Sessions, DialOK(d, id, s)
      PROVE  OpenSessionsTracked'
  BY <1>2 DEF TypeOK, DialOK
<1>3. ASSUME NEW d \in Dialers, DialStep(d)
      PROVE  OpenSessionsTracked'
  <2>1. ASSUME NEW id \in MuxIDs, DropClosed(d, id) \/ Inspect(d, id)
        PROVE  OpenSessionsTracked'
    BY <2>1 DEF TypeOK, DropClosed, Inspect, poolVars
  <2>2. CASE Reuse(d) \/ Skip(d) \/ RangeEnds(d) \/ OpenOK(d)
    BY <2>2 DEF Reuse, Skip, RangeEnds, OpenOK, poolVars
  <2>3. CASE OpenErr(d)
    BY <2>3 DEF TypeOK, LoopInMap, Pooled, OpenErr, Discard
  <2> QED BY <1>3, <2>1, <2>2, <2>3 DEF DialStep
<1>4. CASE CleanLock
  BY <1>4 DEF CleanLock, poolVars
<1>5. CASE CleanStep
  <2>1. CASE TimerFires \/ CtxDone \/ SweepEnds \/ FinalEnds
    BY <2>1 DEF TimerFires, CtxDone, SweepEnds, FinalEnds, poolVars
  <2>2. ASSUME NEW id \in MuxIDs, SweepClosed(id) \/ FinalClose(id)
        PROVE  OpenSessionsTracked'
    BY <2>2 DEF TypeOK, LoopInMap, Pooled, SweepClosed, FinalClose, Discard
  <2>3. ASSUME NEW id \in MuxIDs, SweepSpare(id) \/ SweepJudge(id)
        PROVE  OpenSessionsTracked'
    BY <2>3 DEF SweepSpare, SweepJudge, poolVars
  <2>4. CASE Reap
    BY <2>4 DEF TypeOK, LoopInMap, Pooled, Reap, Discard
  <2> QED BY <1>5, <2>1, <2>2, <2>3, <2>4 DEF CleanStep
<1>6. ASSUME NEW s \in Sessions, Break(s) \/ KeepAliveTimeout(s) \/ Expire(s)
      PROVE  OpenSessionsTracked'
  BY <1>6 DEF TypeOK, Break, KeepAliveTimeout, Expire
<1>7. CASE Cancel \/ UNCHANGED vars
  BY <1>7 DEF Cancel, vars, poolVars
<1> QED BY <1>1, <1>2, <1>3, <1>4, <1>5, <1>6, <1>7 DEF Next, NewConn

\* The mutex holder's session, seen unused, is still unused or dead, for a
\* stream is opened under the mutex only.
LEMMA NextJudged ==
  ASSUME TypeOK, Exclusion, LoopInMap, JudgedUnused, [Next]_vars
  PROVE  JudgedUnused'
<1> USE NamesAssumption DEF InDialMux, InCleanLoop, Pooled
<1> SUFFICES ASSUME cleanPC' = "reap"
             PROVE  /\ cur' \notin unvisited'
                    /\ client'[sessions'[cur']] # "closed" => streams'[sessions'[cur']] = {}
  BY DEF JudgedUnused
<1>1. ASSUME NEW d \in Dialers, Call(d) \/ Hangup(d)
      PROVE  JudgedUnused'
  BY <1>1 DEF TypeOK, LoopInMap, JudgedUnused, Call, Hangup, poolVars, loopVars
<1>2. ASSUME NEW d \in Dialers,
             Lock(d) \/ Stall(d) \/ DialErr(d) \/ DialStep(d)
               \/ \E id \in MuxIDs, s \in Sessions : DialOK(d, id, s)
      PROVE  FALSE
  BY <1>2 DEF TypeOK, Exclusion, Lock, Acquire, Stall, DialErr, DialOK, DialStep, DropClosed,
     Inspect, Reuse, Skip, RangeEnds, OpenOK, OpenErr
<1>3. ASSUME NEW id \in MuxIDs, SweepJudge(id)
      PROVE  JudgedUnused'
  <2>1. sessions[id] \in Sessions
    BY <1>3 DEF TypeOK, LoopInMap, SweepJudge
  <2>2. streams[sessions[id]] = {}
    BY <1>3, <2>1, StreamsFinite, FS_EmptySet DEF SweepJudge, Reapable, NumStreams
  <2> QED BY <1>3, <2>2 DEF JudgedUnused, SweepJudge, poolVars
<1>4. CASE CleanLock \/ (CleanStep /\ ~ \E id \in MuxIDs : SweepJudge(id))
  BY <1>4 DEF CleanLock, CleanStep, TimerFires, CtxDone, SweepClosed, SweepSpare,
     Reap, SweepEnds, FinalClose, FinalEnds
<1>5. ASSUME NEW s \in Sessions, Break(s) \/ KeepAliveTimeout(s) \/ Expire(s)
      PROVE  JudgedUnused'
  BY <1>5 DEF TypeOK, LoopInMap, JudgedUnused, Break, KeepAliveTimeout, Expire, loopVars
<1>6. CASE Cancel \/ UNCHANGED vars
  BY <1>6 DEF JudgedUnused, Cancel, vars, poolVars, loopVars
<1> QED BY <1>1, <1>2, <1>3, <1>4, <1>5, <1>6 DEF Next, NewConn, JudgedUnused

LEMMA NextRoomKept ==
  ASSUME TypeOK, Exclusion, LoopInMap, RoomKept, [Next]_vars
  PROVE  RoomKept'
<1> USE NamesAssumption DEF InDialMux, InCleanLoop, Pooled
<1> SUFFICES ASSUME NEW d \in Dialers, pc'[d] = "open", Concurrency > 0,
                    client'[sessions'[cur']] # "closed"
             PROVE  Cardinality(streams'[sessions'[cur']]) < Concurrency
  BY DEF RoomKept
<1>1. CASE Reuse(d)
  <2>1. sessions[cur] \in Sessions /\ client[sessions[cur]] # "closed"
    BY <1>1 DEF TypeOK, LoopInMap, Reuse, poolVars
  <2> QED BY <1>1, <2>1, ConcurrencyAssumption DEF Reuse, HasRoom, NumStreams, poolVars
<1>2. ASSUME NEW id \in MuxIDs, NEW s \in Sessions, DialOK(d, id, s)
      PROVE  Cardinality(streams'[sessions'[cur']]) < Concurrency
  BY <1>2, FS_EmptySet, ConcurrencyAssumption DEF TypeOK, DialOK
<1>3. ASSUME pc[d] = "open"
      PROVE  Cardinality(streams'[sessions'[cur']]) < Concurrency
  <2>1. mutex = d /\ cur \in MuxIDs /\ sessions[cur] \in Sessions
    BY <1>3 DEF TypeOK, Exclusion, LoopInMap
  <2>2. \A e \in Dialers : ~OpenOK(e) /\ \A id \in MuxIDs, s \in Sessions : ~DialOK(e, id, s)
    BY <1>3, <2>1 DEF TypeOK, Exclusion, OpenOK, DialOK
  <2>3. sessions'[cur'] = sessions[cur]
    <3>1. ASSUME NEW e \in Dialers, Call(e) \/ Lock(e) \/ Stall(e) \/ DialErr(e) \/ Hangup(e)
          PROVE  sessions'[cur'] = sessions[cur]
      BY <1>3, <2>1, <3>1 DEF TypeOK, Exclusion, Call, Lock, Stall, DialErr, Hangup, Acquire,
         poolVars, loopVars
    <3>2. ASSUME NEW e \in Dialers, DialStep(e)
          PROVE  FALSE
      BY <1>3, <2>1, <3>2 DEF TypeOK, Exclusion, DialStep, DropClosed, Inspect, Reuse, Skip,
         RangeEnds, OpenOK, OpenErr
    <3>3. CASE CleanLock \/ CleanStep
      BY <2>1, <3>3 DEF Exclusion, CleanLock, Acquire, CleanStep, TimerFires, CtxDone,
         SweepClosed, SweepSpare, SweepJudge, Reap, SweepEnds, FinalClose, FinalEnds,
         poolVars, loopVars
    <3>4. ASSUME NEW s \in Sessions, Break(s) \/ KeepAliveTimeout(s) \/ Expire(s)
          PROVE  sessions'[cur'] = sessions[cur]
      BY <3>4 DEF Break, KeepAliveTimeout, Expire, loopVars
    <3>5. CASE Cancel \/ UNCHANGED vars
      BY <3>5 DEF Cancel, vars, poolVars, loopVars
    <3> QED BY <2>2, <3>1, <3>2, <3>3, <3>4, <3>5 DEF Next, NewConn
  <2>4. client[sessions[cur]] # "closed"
    BY <2>1, <2>2, <2>3, ClosedStaysClosed
  <2>5. streams'[sessions[cur]] \subseteq streams[sessions[cur]]
    BY <2>1, <2>2, StreamsGrowInOpenOK
  <2>6. Cardinality(streams'[sessions[cur]]) \in Nat
          /\ Cardinality(streams'[sessions[cur]]) <= Cardinality(streams[sessions[cur]])
    BY <2>1, <2>5, StreamsFinite, FS_Subset, FS_CardinalityType
  <2> QED BY <1>3, <2>1, <2>3, <2>4, <2>6, StreamsFinite, ConcurrencyAssumption DEF RoomKept
<1>4. Reuse(d) \/ (\E id \in MuxIDs, s \in Sessions : DialOK(d, id, s)) \/ pc[d] = "open"
  <2>1. ASSUME NEW e \in Dialers, e # d,
               Call(e) \/ Lock(e) \/ Stall(e) \/ NewConn(e) \/ Hangup(e) \/ DialStep(e)
        PROVE  pc[d] = "open"
    BY <2>1 DEF TypeOK, Call, Lock, Stall, NewConn, DialErr, DialOK, Hangup, DialStep, DropClosed,
       Inspect, Reuse, Skip, RangeEnds, OpenOK, OpenErr
  <2>2. CASE Call(d) \/ Lock(d) \/ Stall(d) \/ NewConn(d) \/ Hangup(d) \/ DialStep(d)
    BY <2>2 DEF TypeOK, Call, Lock, Stall, NewConn, DialErr, Hangup, DialStep, DropClosed,
       Inspect, Skip, RangeEnds, OpenOK, OpenErr
  <2>3. CASE CleanLock \/ CleanStep \/ Cancel \/ UNCHANGED vars
               \/ \E s \in Sessions : Break(s) \/ KeepAliveTimeout(s) \/ Expire(s)
    BY <2>3 DEF CleanLock, CleanStep, TimerFires, CtxDone, SweepClosed, SweepSpare, SweepJudge,
       Reap, SweepEnds, FinalClose, FinalEnds, Cancel, vars, Break, KeepAliveTimeout, Expire
  <2> QED BY <2>1, <2>2, <2>3 DEF Next
<1> QED BY <1>1, <1>2, <1>3, <1>4

LEMMA NextStreamCap ==
  ASSUME TypeOK, TypeOK', LoopInMap, RoomKept, StreamCap, [Next]_vars
  PROVE  StreamCap'
<1> SUFFICES ASSUME Concurrency > 0, NEW s \in Sessions
             PROVE  Cardinality(streams'[s]) <= Concurrency
  BY DEF StreamCap
<1>1. Cardinality(streams[s]) \in Nat /\ Cardinality(streams[s]) <= Concurrency
  BY StreamsFinite DEF StreamCap
<1>2. ASSUME NEW d \in Dialers, OpenOK(d)
      PROVE  Cardinality(streams'[s]) <= Concurrency
  <2>1. CASE s = sessions[cur]
    <3>1. Cardinality(streams[s]) < Concurrency
      BY <1>2, <2>1 DEF RoomKept, OpenOK
    <3>2. streams'[s] = streams[s] \cup {d}
      BY <1>2, <2>1 DEF TypeOK, OpenOK
    <3>3. Cardinality(streams'[s]) <= Cardinality(streams[s]) + 1
      <4>1. IsFiniteSet(streams[s])
        BY StreamsFinite
      <4>2. Cardinality(streams[s] \cup {d}) \in {Cardinality(streams[s]), Cardinality(streams[s]) + 1}
        BY <4>1, FS_AddElement
      <4> QED BY <1>1, <3>2, <4>2
    <3>4. Cardinality(streams'[s]) \in Nat
      BY <3>2, StreamsFinite, FS_AddElement, FS_CardinalityType
    <3> QED BY <1>1, <3>1, <3>3, <3>4, ConcurrencyAssumption
  <2>2. CASE s # sessions[cur]
    BY <1>1, <1>2, <2>2 DEF TypeOK, OpenOK
  <2> QED BY <2>1, <2>2
<1>3. CASE ~ \E d \in Dialers : OpenOK(d)
  <2>1. streams'[s] \subseteq streams[s]
    BY <1>3, StreamsGrowInOpenOK
  <2>2. Cardinality(streams'[s]) \in Nat /\ Cardinality(streams'[s]) <= Cardinality(streams[s])
    BY <2>1, StreamsFinite, FS_Subset, FS_CardinalityType
  <2> QED BY <1>1, <2>2, ConcurrencyAssumption
<1> QED BY <1>2, <1>3

-----------------------------------------------------------------------------
(* The inductive invariant and what follows from it *)

LEMMA InitIInv == Init => IInv
<1> SUFFICES ASSUME Init PROVE IInv
  OBVIOUS
<1>1. TypeOK /\ Exclusion /\ LoopInMap /\ RoomKept /\ JudgedUnused
  BY InitTypeOK DEF Init, Exclusion, InDialMux, InCleanLoop, LoopInMap, Pooled, RoomKept, JudgedUnused
<1>2. StreamCap
  BY FS_EmptySet, ConcurrencyAssumption DEF Init, StreamCap
<1>3. OpenSessionsTracked /\ OneEach
  BY DEF Init, OpenSessionsTracked, OneEach
<1> QED BY <1>1, <1>2, <1>3 DEF IInv

LEMMA NextIInv == IInv /\ [Next]_vars => IInv'
  BY NextTypeOK, NextExclusion, NextRoomKept, NextJudged, NextStreamCap, NextTracked, NextOneEach
  DEF IInv

LEMMA Inductive == Spec => []IInv
  BY InitIInv, NextIInv, PTL DEF Spec

\* No session carries more streams than "mux" allows, for any number of
\* dialers and sessions: the count of line 59 still holds when line 60 opens.
THEOREM StreamCapHolds == Spec => []StreamCap
  BY Inductive, PTL DEF IInv

\* No path of DialMux or cleanLoop forgets an open session: only a second
\* session under the same id can hide one.
THEOREM OpenSessionsTrackedHolds == Spec => []OpenSessionsTracked
  BY Inductive, PTL DEF IInv

\* A dialer owns one stream while it relays and none otherwise.
THEOREM StreamsOwnedHolds == Spec => []StreamsOwned
<1>1. TypeOK /\ OneEach => StreamsOwned
  <2> SUFFICES ASSUME TypeOK, OneEach, NEW d \in Dialers
               PROVE  Cardinality({s \in Sessions : d \in streams[s]})
                        = IF pc[d] = "relay" THEN 1 ELSE 0
    BY DEF StreamsOwned
  <2>1. CASE pc[d] = "relay"
    <3>1. PICK s \in Sessions : d \in streams[s]
      BY <2>1 DEF OneEach
    <3>2. {t \in Sessions : d \in streams[t]} = {s}
      BY <3>1 DEF OneEach
    <3> QED BY <2>1, <3>2, FS_Singleton
  <2>2. CASE pc[d] # "relay"
    <3>1. {t \in Sessions : d \in streams[t]} = {}
      BY <2>2 DEF OneEach
    <3> QED BY <2>2, <3>1, FS_EmptySet
  <2> QED BY <2>1, <2>2
<1> QED BY <1>1, Inductive, PTL DEF IInv

\* The sweep closes no session that carries a stream, though lines 95 and 96
\* run after line 94 counted: nobody opens one without the mutex.
THEOREM SweepSparesUsedSessionsHolds == Spec => SweepSparesUsedSessions
<1> DEFINE Spares == cleanPC = "reap" /\ cleanPC' # "reap" =>
             \A s \in Sessions : client[s] # "closed" /\ client'[s] = "closed" => streams[s] = {}
<1>1. ASSUME IInv, [Next]_vars PROVE [Spares]_vars
  <2> SUFFICES ASSUME cleanPC = "reap", cleanPC' # "reap", NEW s \in Sessions,
                      client[s] # "closed", client'[s] = "closed"
               PROVE  streams[s] = {}
    OBVIOUS
  <2>1. Reap
    <3>1. ~ \E d \in Dialers : Call(d) \/ Lock(d) \/ DialStep(d) \/ Stall(d) \/ NewConn(d) \/ Hangup(d)
      BY DEF Call, Lock, DialStep, DropClosed, Inspect, Reuse, Skip, RangeEnds, OpenOK, OpenErr,
         Stall, NewConn, DialErr, DialOK, Hangup
    <3>2. ~ \E t \in Sessions : Break(t) \/ KeepAliveTimeout(t) \/ Expire(t)
      BY DEF Break, KeepAliveTimeout, Expire
    <3>3. ~Cancel /\ ~UNCHANGED vars /\ ~CleanLock
      BY DEF Cancel, vars, CleanLock
    <3>4. CleanStep => Reap
      BY DEF CleanStep, TimerFires, CtxDone, SweepClosed, SweepSpare, SweepJudge, SweepEnds,
         FinalClose, FinalEnds
    <3> QED BY <1>1, <3>1, <3>2, <3>3, <3>4 DEF Next
  <2>2. s = sessions[cur]
    BY <1>1, <2>1 DEF IInv, TypeOK, Reap, Discard
  <2> QED BY <1>1, <2>2 DEF IInv, JudgedUnused
<1>2. Spec => [][Spares]_vars
  BY <1>1, Inductive, PTL DEF Spec
<1> QED BY <1>2 DEF SweepSparesUsedSessions
-----------------------------------------------------------------------------
(* How many sessions the pool holds *)

\* Disjoint sets of at least k elements each.
LEMMA Counting ==
  ASSUME NEW P, IsFiniteSet(P), NEW T, IsFiniteSet(T), NEW k \in Nat \ {0}, NEW held \in [P -> SUBSET T],
         \A p, q \in P : p # q => held[p] \cap held[q] = {},
         \A p \in P : Cardinality(held[p]) >= k
  PROVE  Cardinality(P) * k <= Cardinality(T)
<1> DEFINE enum(p) == CHOOSE f : f \in Injection(1..k, held[p])
           place == [x \in P \X (1..k) |-> enum(x[1])[x[2]]]
<1>1. ASSUME NEW p \in P PROVE enum(p) \in Injection(1..k, held[p])
  <2>1. IsFiniteSet(held[p])
    BY FS_Subset
  <2>2. PICK b \in Bijection(1..Cardinality(held[p]), held[p]) : Cardinality(held[p]) \in Nat
    BY <2>1, FS_CardinalityType DEF ExistsBijection
  <2>3. /\ b \in [1..Cardinality(held[p]) -> held[p]]
        /\ \A i, j \in 1..Cardinality(held[p]) : b[i] = b[j] => i = j
    BY DEF Bijection, Injection, IsInjective
  <2>4. \A i \in 1..k : i \in 1..Cardinality(held[p])
    BY <2>2
  <2>5. [i \in 1..k |-> b[i]] \in Injection(1..k, held[p])
    BY <2>3, <2>4 DEF Injection, IsInjective
  <2> QED
    BY <2>5
<1>2. ASSUME NEW x \in P \X (1..k) PROVE place[x] \in held[x[1]] /\ place[x] \in T
  BY <1>1 DEF Injection
<1>3. ASSUME NEW x \in P \X (1..k), NEW y \in P \X (1..k), place[x] = place[y] PROVE x = y
  <2>1. x[1] = y[1]
    BY <1>2, <1>3
  <2>2. enum(x[1]) \in Injection(1..k, held[x[1]]) /\ enum(x[1])[x[2]] = enum(x[1])[y[2]]
    BY <1>1, <1>3, <2>1
  <2>3. x[2] = y[2]
    BY <2>2 DEF Injection, IsInjective
  <2> QED
    BY <2>1, <2>3
<1>4. place \in Injection(P \X (1..k), T)
  BY <1>2, <1>3 DEF Injection, IsInjective
<1>5. Cardinality(P \X (1..k)) <= Cardinality(T)
  BY <1>4, FS_Injection
<1>6. IsFiniteSet(1..k) /\ Cardinality(1..k) = k
  BY FS_Interval
<1>7. Cardinality(P \X (1..k)) = Cardinality(P) * k
  BY <1>6, FS_Product
<1> QED
  BY <1>5, <1>7

LEMMA Quotient ==
  ASSUME NEW m \in Nat, NEW n \in Nat, NEW k \in Nat \ {0}, m * k <= n
  PROVE  m <= n \div k
<1>1. n \div k \in Int /\ n % k \in 0..(k - 1) /\ n = k * (n \div k) + (n % k)
  OBVIOUS
<1>2. PICK q \in Int : q = n \div k
  BY <1>1
<1>3. PICK r \in 0..(k - 1) : n = k * q + r
  BY <1>1, <1>2
<1>4. CASE m >= q + 1
  <2>1. m * k >= (q + 1) * k
    BY <1>4
  <2> QED
    BY <1>3, <2>1
<1> QED
  BY <1>2, <1>4

\* A session has one entry in the map.
OnePerID ==
  \A id, jd \in MuxIDs : sessions[id] = sessions[jd] /\ sessions[id] # NoSession => id = jd

\* The entries that the loop of dialer d has found without room.
Searching == {"range", "count", "dial", "hung"}
Looked(d) == Pooled \ (unvisited \cup IF pc[d] = "count" THEN {cur} ELSE {})

\* held are the streams of the moment in which d took the mutex, of which some
\* may have ended since; every session that was found full had its share of them.
FullOf(d, held) ==
  /\ \A s, t \in Sessions : s # t => held[s] \cap held[t] = {}
  /\ \A s \in Sessions : streams[s] \subseteq held[s]
  /\ \A id \in Looked(d) : Concurrency > 0 /\ Cardinality(held[sessions[id]]) >= Concurrency

SeenFull ==
  \A d \in Dialers : pc[d] \in Searching =>
    /\ pc[d] \in {"dial", "hung"} => unvisited = {}
    /\ \E held \in [Sessions -> SUBSET (Dialers \ {d})] : FullOf(d, held)

\* The sessions that the streams of the other dialers fill.
Full == IF Concurrency = 0 THEN 0 ELSE (Cardinality(Dialers) - 1) \div Concurrency

PoolInv == OnePerID /\ SeenFull /\ IsFiniteSet(Pooled) /\ PoolBounded

LEMMA FullType == Full \in Int /\ Full >= -1 /\ (PoolBounded <=> Cardinality(Pooled) <= Full + 1)
<1>1. Cardinality(Dialers) \in Nat
  BY DialersAssumption, FS_CardinalityType
<1>2. ASSUME Concurrency # 0
      PROVE  /\ (Cardinality(Dialers) - 1) \div Concurrency \in Int
             /\ (Cardinality(Dialers) - 1) \div Concurrency >= -1
  <2>1. PICK n \in Nat, k \in Nat \ {0} : n = Cardinality(Dialers) /\ k = Concurrency
    BY <1>1, <1>2, ConcurrencyAssumption
  <2>2. (n - 1) \div k \in Int /\ (n - 1) \div k >= -1
    OBVIOUS
  <2> QED BY <2>1, <2>2
<1> QED BY <1>2 DEF Full, PoolBounded

\* Only DialOK adds an entry.
LEMMA EntriesAddedInDialOK ==
  ASSUME TypeOK, [Next]_vars, \A d \in Dialers, id \in MuxIDs, s \in Sessions : ~DialOK(d, id, s)
  PROVE  \A id \in MuxIDs : sessions'[id] = sessions[id] \/ sessions'[id] = NoSession
<1> SUFFICES ASSUME NEW id \in MuxIDs PROVE sessions'[id] = sessions[id] \/ sessions'[id] = NoSession
  OBVIOUS
<1>1. ASSUME NEW d \in Dialers, Call(d) \/ Lock(d) \/ Stall(d) \/ DialErr(d) \/ Hangup(d)
      PROVE  sessions'[id] = sessions[id]
  BY <1>1 DEF Call, Lock, Stall, DialErr, Hangup, poolVars
<1>2. ASSUME NEW d \in Dialers, DialStep(d)
      PROVE  sessions'[id] = sessions[id] \/ sessions'[id] = NoSession
  BY <1>2 DEF TypeOK, DialStep, DropClosed, Inspect, Reuse, Skip, RangeEnds, OpenOK, OpenErr, Discard, poolVars
<1>3. CASE CleanLock \/ CleanStep
  BY <1>3 DEF TypeOK, CleanLock, CleanStep, TimerFires, CtxDone, SweepClosed, SweepSpare, SweepJudge,
     Reap, SweepEnds, FinalClose, FinalEnds, Discard, poolVars
<1>4. ASSUME NEW s \in Sessions, Break(s) \/ KeepAliveTimeout(s) \/ Expire(s)
      PROVE  sessions'[id] = sessions[id]
  BY <1>4 DEF Break, KeepAliveTimeout, Expire
<1>5. CASE Cancel \/ UNCHANGED vars
  BY <1>5 DEF Cancel, vars, poolVars
<1> QED BY <1>1, <1>2, <1>3, <1>4, <1>5 DEF Next, NewConn

LEMMA NextOnePerID ==
  ASSUME TypeOK, OnePerID, [Next]_vars
  PROVE  OnePerID'
<1>1. ASSUME NEW d \in Dialers, NEW id \in MuxIDs, NEW s \in Sessions, DialOK(d, id, s)
      PROVE  OnePerID'
  BY <1>1 DEF TypeOK, OnePerID, DialOK, InPool
<1>2. CASE \A d \in Dialers, id \in MuxIDs, s \in Sessions : ~DialOK(d, id, s)
  BY <1>2, EntriesAddedInDialOK DEF OnePerID
<1> QED BY <1>1, <1>2

\* What the loop has found out stays true until it ends or the dial returns.
LEMMA LookedStays ==
  ASSUME TypeOK, Exclusion, [Next]_vars, NEW d \in Dialers, pc[d] \in Searching, pc'[d] \in Searching,
         pc[d] \in {"dial", "hung"} => unvisited = {}
  PROVE  /\ pc'[d] \in {"dial", "hung"} => unvisited' = {}
         /\ \A s \in Sessions : streams'[s] \subseteq streams[s]
         /\ \A id \in Looked(d)' : /\ sessions'[id] = sessions[id]
                                   /\ id \in Looked(d) \/ (Skip(d) /\ id = cur /\ id \in Pooled)
<1> USE NamesAssumption DEF Searching
<1>1. mutex = d /\ mutex # Nobody /\ mutex # Cleaner
  BY DEF Exclusion, InDialMux
<1>2. ASSUME NEW e \in Dialers, e # d
      PROVE  ~Lock(e) /\ ~Stall(e) /\ ~NewConn(e) /\ ~DialStep(e)
  <2>1. pc[e] \notin InDialMux
    BY <1>1, <1>2 DEF Exclusion
  <2> QED
    BY <1>1, <2>1 DEF InDialMux, Lock, Acquire, Stall, NewConn, DialErr, DialOK, DialStep, DropClosed,
       Inspect, Reuse, Skip, RangeEnds, OpenOK, OpenErr
<1>3. ~CleanLock /\ (CleanStep => TimerFires \/ CtxDone)
  BY <1>1 DEF Exclusion, InCleanLoop, CleanLock, Acquire, CleanStep, SweepClosed, SweepSpare, SweepJudge,
     Reap, SweepEnds, FinalClose, FinalEnds
<1>4. ~Call(d) /\ ~Lock(d) /\ ~Hangup(d) /\ ~NewConn(d) /\ ~Reuse(d) /\ ~OpenOK(d) /\ ~OpenErr(d)
  BY DEF TypeOK, Call, Lock, Hangup, NewConn, DialErr, DialOK, Reuse, OpenOK, OpenErr
<1>5. ~ \E e \in Dialers : OpenOK(e)
  BY <1>2, <1>4 DEF DialStep
<1>6. \A s \in Sessions : streams'[s] \subseteq streams[s]
  BY <1>5, StreamsGrowInOpenOK
<1>7. ASSUME UNCHANGED <<sessions, unvisited, cur>>, pc'[d] = pc[d]
      PROVE  /\ pc'[d] \in {"dial", "hung"} => unvisited' = {}
             /\ \A id \in Looked(d)' : sessions'[id] = sessions[id] /\ id \in Looked(d)
  BY <1>7 DEF Looked, Pooled
<1>8. ASSUME NEW e \in Dialers, e # d, Call(e) \/ Hangup(e)
      PROVE  UNCHANGED <<sessions, unvisited, cur>> /\ pc'[d] = pc[d]
  BY <1>8 DEF TypeOK, Call, Hangup, poolVars, loopVars
<1>9. CASE TimerFires \/ CtxDone \/ Cancel \/ UNCHANGED vars
             \/ \E s \in Sessions : Break(s) \/ KeepAliveTimeout(s) \/ Expire(s)
  <2>1. UNCHANGED <<sessions, unvisited, cur>> /\ pc'[d] = pc[d]
    BY <1>9 DEF TimerFires, CtxDone, Cancel, vars, Break, KeepAliveTimeout, Expire, poolVars, loopVars
  <2> QED BY <1>6, <1>7, <2>1
<1>10. ASSUME NEW id \in MuxIDs, DropClosed(d, id)
       PROVE  /\ pc'[d] = "range"
              /\ \A jd \in Looked(d)' : sessions'[jd] = sessions[jd] /\ jd \in Looked(d)
  BY <1>10 DEF TypeOK, DropClosed, Looked, Pooled
<1>11. ASSUME NEW id \in MuxIDs, Inspect(d, id)
       PROVE  /\ pc'[d] = "count"
              /\ \A jd \in Looked(d)' : sessions'[jd] = sessions[jd] /\ jd \in Looked(d)
  BY <1>11 DEF TypeOK, Inspect, Looked, Pooled, poolVars
<1>12. CASE Skip(d)
  <2>1. pc'[d] = "range" /\ pc[d] = "count" /\ UNCHANGED <<sessions, unvisited>>
    BY <1>12 DEF TypeOK, Skip, poolVars
  <2> QED BY <1>6, <1>12, <2>1 DEF Looked, Pooled
<1>13. CASE RangeEnds(d) \/ Stall(d)
  <2>1. /\ pc[d] # "count" /\ pc'[d] # "count" /\ unvisited = {} /\ UNCHANGED <<sessions, unvisited>>
    BY <1>13 DEF TypeOK, RangeEnds, Stall, poolVars, loopVars
  <2> QED BY <1>6, <2>1 DEF Looked, Pooled
<1> QED
  BY <1>2, <1>3, <1>4, <1>6, <1>7, <1>8, <1>9, <1>10, <1>11, <1>12, <1>13 DEF Next, DialStep

LEMMA NextSeenFull ==
  ASSUME TypeOK, Exclusion, LoopInMap, OneEach, SeenFull, [Next]_vars
  PROVE  SeenFull'
<1> SUFFICES ASSUME NEW d \in Dialers, pc'[d] \in Searching
             PROVE  /\ pc'[d] \in {"dial", "hung"} => unvisited' = {}
                    /\ \E held \in [Sessions -> SUBSET (Dialers \ {d})] : FullOf(d, held)'
  BY DEF SeenFull
<1>1. CASE pc[d] \notin Searching
  <2>1. Lock(d)
    <3>1. ASSUME NEW e \in Dialers, e # d,
                 Call(e) \/ Lock(e) \/ Stall(e) \/ NewConn(e) \/ Hangup(e) \/ DialStep(e)
          PROVE  pc'[d] = pc[d]
      BY <3>1 DEF TypeOK, Call, Lock, Stall, NewConn, DialErr, DialOK, Hangup, DialStep, DropClosed,
         Inspect, Reuse, Skip, RangeEnds, OpenOK, OpenErr
    <3>2. Call(d) \/ Stall(d) \/ NewConn(d) \/ Hangup(d) \/ DialStep(d) => FALSE
      BY <1>1 DEF TypeOK, Searching, Call, Stall, NewConn, DialErr, DialOK, Hangup, DialStep, DropClosed,
         Inspect, Reuse, Skip, RangeEnds, OpenOK, OpenErr
    <3>3. CleanLock \/ CleanStep \/ Cancel \/ UNCHANGED vars
            \/ (\E s \in Sessions : Break(s) \/ KeepAliveTimeout(s) \/ Expire(s)) => pc'[d] = pc[d]
      BY DEF CleanLock, CleanStep, TimerFires, CtxDone, SweepClosed, SweepSpare, SweepJudge,
         Reap, SweepEnds, FinalClose, FinalEnds, Cancel, vars, Break, KeepAliveTimeout, Expire
    <3> QED BY <1>1, <3>1, <3>2, <3>3 DEF Next
  <2>2. pc[d] = "lock" /\ pc'[d] = "range" /\ unvisited' = Pooled /\ UNCHANGED <<sessions, streams>>
    BY <2>1 DEF TypeOK, Lock, Acquire, poolVars
  <2>3. Looked(d)' = {}
    BY <2>2 DEF Looked, Pooled
  <2>4. streams \in [Sessions -> SUBSET (Dialers \ {d})]
    BY <2>2 DEF TypeOK, OneEach
  <2>5. PICK held \in [Sessions -> SUBSET (Dialers \ {d})] : held = streams
    BY <2>4
  <2>6. \A s, t \in Sessions : s # t => held[s] \cap held[t] = {}
    BY <2>4, <2>5 DEF OneEach
  <2> QED BY <2>2, <2>3, <2>5, <2>6 DEF FullOf
<1>2. CASE pc[d] \in Searching
  <2>1. pc[d] \in {"dial", "hung"} => unvisited = {}
    BY <1>2 DEF SeenFull
  <2>2. PICK held \in [Sessions -> SUBSET (Dialers \ {d})] : FullOf(d, held)
    BY <1>2 DEF SeenFull
  <2>3. /\ pc'[d] \in {"dial", "hung"} => unvisited' = {}
        /\ \A s \in Sessions : streams'[s] \subseteq streams[s]
        /\ \A id \in Looked(d)' : /\ sessions'[id] = sessions[id]
                                  /\ id \in Looked(d) \/ (Skip(d) /\ id = cur /\ id \in Pooled)
    BY <1>2, <2>1, LookedStays
  <2>4. ASSUME Skip(d), cur \in Pooled
        PROVE  Concurrency > 0 /\ Cardinality(held[sessions[cur]]) >= Concurrency
    <3>1. PICK s \in Sessions : s = sessions[cur]
      BY <2>4 DEF TypeOK, Pooled
    <3>2. Concurrency > 0 /\ Cardinality(streams[s]) >= Concurrency
      BY <2>4, <3>1, StreamsFinite, ConcurrencyAssumption DEF Skip, HasRoom, NumStreams
    <3>3. IsFiniteSet(Dialers \ {d}) /\ held[s] \in SUBSET (Dialers \ {d}) /\ streams[s] \in SUBSET held[s]
      BY <2>2, DialersAssumption, FS_RemoveElement DEF FullOf
    <3>4. IsFiniteSet(held[s]) /\ Cardinality(held[s]) \in Nat
      BY <3>3, FS_Subset, FS_CardinalityType
    <3>5. Cardinality(streams[s]) <= Cardinality(held[s])
      BY <3>3, <3>4, FS_Subset
    <3> QED BY <3>1, <3>2, <3>4, <3>5, StreamsFinite, ConcurrencyAssumption
  <2>5. \A id \in Looked(d)' : Concurrency > 0 /\ Cardinality(held[sessions'[id]]) >= Concurrency
    BY <2>2, <2>3, <2>4 DEF FullOf
  <2>6. FullOf(d, held)'
    BY <2>2, <2>3, <2>5 DEF FullOf
  <2> QED BY <2>3, <2>6
<1> QED BY <1>1, <1>2

\* After its loop a dialer dials only if the sessions of the pool were all full.
LEMMA DialerBound ==
  ASSUME TypeOK, PoolInv, NEW d \in Dialers, pc[d] \in {"dial", "hung"}
  PROVE  Cardinality(Pooled) <= Full
<1>1. unvisited = {} /\ IsFiniteSet(Pooled) /\ Cardinality(Pooled) \in Nat /\ OnePerID
  BY FS_CardinalityType DEF PoolInv, SeenFull, Searching
<1>2. PICK held \in [Sessions -> SUBSET (Dialers \ {d})] : FullOf(d, held)
  BY DEF PoolInv, SeenFull, Searching
<1>3. \A id \in Pooled : Concurrency > 0 /\ Cardinality(held[sessions[id]]) >= Concurrency
  BY <1>1, <1>2 DEF FullOf, Looked
<1>4. CASE Concurrency = 0
  <2>1. Pooled = {}
    BY <1>3, <1>4
  <2> QED BY <1>4, <2>1, FS_EmptySet DEF Full
<1>5. CASE Concurrency # 0
  <2> DEFINE share == [id \in Pooled |-> held[sessions[id]]]
  <2>1. Concurrency \in Nat \ {0}
    BY <1>5, ConcurrencyAssumption
  <2>2. \A id \in Pooled : sessions[id] \in Sessions /\ id \in MuxIDs /\ sessions[id] # NoSession
    BY DEF TypeOK, Pooled
  <2>3. share \in [Pooled -> SUBSET (Dialers \ {d})]
    BY <2>2
  <2>4. \A id, jd \in Pooled : id # jd => share[id] \cap share[jd] = {}
    BY <1>1, <1>2, <2>2 DEF OnePerID, FullOf
  <2>5. \A id \in Pooled : Cardinality(share[id]) >= Concurrency
    BY <1>3
  <2>6. /\ IsFiniteSet(Dialers \ {d}) /\ Cardinality(Dialers \ {d}) = Cardinality(Dialers) - 1
        /\ Cardinality(Dialers \ {d}) \in Nat
    BY DialersAssumption, FS_RemoveElement, FS_CardinalityType
  <2> HIDE DEF share
  <2>7. Cardinality(Pooled) * Concurrency <= Cardinality(Dialers \ {d})
    BY <1>1, <2>1, <2>3, <2>4, <2>5, <2>6, Counting
  <2>8. Cardinality(Pooled) <= Cardinality(Dialers \ {d}) \div Concurrency
    BY <1>1, <2>1, <2>6, <2>7, Quotient
  <2> QED BY <1>5, <2>6, <2>8 DEF Full
<1> QED BY <1>4, <1>5

LEMMA NextPoolInv ==
  ASSUME IInv, IInv', PoolInv, [Next]_vars
  PROVE  PoolInv'
<1>1. OnePerID' /\ SeenFull'
  BY NextOnePerID, NextSeenFull DEF IInv, PoolInv
<1>2. IsFiniteSet(Pooled) /\ Cardinality(Pooled) \in Nat /\ TypeOK
  BY FS_CardinalityType DEF IInv, PoolInv
<1>3. Full \in Int /\ (PoolBounded' <=> Cardinality(Pooled') <= Full + 1) /\ Cardinality(Pooled) <= Full + 1
  BY FullType DEF PoolInv, PoolBounded, Full
<1>4. ASSUME NEW d \in Dialers, NEW id \in MuxIDs, NEW s \in Sessions, DialOK(d, id, s)
      PROVE  IsFiniteSet(Pooled') /\ PoolBounded'
  <2>1. Pooled' = Pooled \cup {id}
    BY <1>2, <1>4, NamesAssumption DEF TypeOK, DialOK, Pooled
  <2>2. Cardinality(Pooled) <= Full
    BY <1>2, <1>4, DialerBound DEF DialOK
  <2>3. /\ IsFiniteSet(Pooled \cup {id})
        /\ Cardinality(Pooled \cup {id}) \in {Cardinality(Pooled), Cardinality(Pooled) + 1}
    BY <1>2, FS_AddElement
  <2> QED BY <1>2, <1>3, <2>1, <2>2, <2>3
<1>5. CASE \A d \in Dialers, id \in MuxIDs, s \in Sessions : ~DialOK(d, id, s)
  <2>1. Pooled' \in SUBSET Pooled
    BY <1>2, <1>5, EntriesAddedInDialOK DEF Pooled
  <2>2. IsFiniteSet(Pooled') /\ Cardinality(Pooled') <= Cardinality(Pooled) /\ Cardinality(Pooled') \in Nat
    BY <1>2, <2>1, FS_Subset, FS_CardinalityType
  <2>3. Cardinality(Pooled') <= Full + 1
    BY <1>2, <1>3, <2>2
  <2> QED BY <1>1, <1>3, <2>2, <2>3 DEF PoolInv
<1> QED BY <1>1, <1>4, <1>5 DEF PoolInv

LEMMA InitPoolInv == Init => PoolInv
<1> SUFFICES ASSUME Init PROVE PoolInv
  OBVIOUS
<1>1. Pooled = {}
  BY DEF Init, Pooled
<1>2. IsFiniteSet(Pooled) /\ Cardinality(Pooled) = 0
  BY <1>1, FS_EmptySet
<1>3. PoolBounded
  BY <1>2, FullType
<1> QED BY <1>2, <1>3 DEF Init, PoolInv, OnePerID, SeenFull, Searching

\* The pool never holds more sessions than the dialers' streams fill, and one
\* more: a dial follows only on a look at the map that found every session full.
THEOREM PoolBoundedHolds == Spec => []PoolBounded
<1>1. IInv /\ IInv' /\ PoolInv /\ [Next]_vars => PoolInv'
  BY NextPoolInv
<1> QED BY <1>1, InitPoolInv, Inductive, PTL DEF Spec, PoolInv
=============================================================================
