------------------------------- MODULE MuxPool -------------------------------
(***************************************************************************)
(* The client's pool of smux sessions (src/mux/mux.go, src/mux/client.go). *)
(*                                                                         *)
(* Every goroutine of the handler that wants an outbound connection in the *)
(* modes mtls, mws and mwss calls DialMux, which reuses a session of the   *)
(* pool or dials a new one, and holds the pool's mutex from the first look *)
(* at the map to the opened stream, the dial included.  One goroutine per  *)
(* pool, cleanLoop, closes the sessions that died or were idle too long,   *)
(* and all of them when the context ends.  Sessions fail, and streams end, *)
(* while either of them is at work.                                        *)
(*                                                                         *)
(* Time is abstracted to one bit per session: whether more than            *)
(* MuxPool.timeout went by since its lastActiveTime.                       *)
(***************************************************************************)
EXTENDS Integers, FiniteSets

CONSTANTS
  Dialers,      \* the goroutines that call DialMux, one stream each at a time
  Sessions,     \* identities of smux sessions; a forgotten one is used again
  MuxIDs,       \* the values generateMuxID may return
  Concurrency,  \* MuxPool.concurrency, the option "mux"; 0 is no limit
  Cleaner,      \* the goroutine of cleanLoop
  Nobody,       \* holds the mutex when it is free
  NoSession,    \* no entry in the map under an id
  NoID          \* the loop variables of the mutex holder are not set

ASSUME DialersAssumption == IsFiniteSet(Dialers)
ASSUME ConcurrencyAssumption == Concurrency \in Nat
ASSUME NamesAssumption ==
  /\ Cleaner \notin Dialers
  /\ Nobody \notin Dialers \cup {Cleaner}
  /\ NoSession \notin Sessions
  /\ NoID \notin MuxIDs

VARIABLES
  mutex,      \* who holds MuxPool.Mutex
  sessions,   \* MuxPool.sessions
  client,     \* the smux session: "open", "broken" (transport lost), "closed"
  streams,    \* the streams of the session that were opened and not closed
  expired,    \* sessions with time.Now().Sub(lastActiveTime) > timeout
  pc,         \* where each dialer is
  cleanPC,    \* where cleanLoop is
  unvisited,  \* keys that the range loop of the mutex holder has still to visit
  cur,        \* key of the session the mutex holder is looking at
  done,       \* MuxPool.ctx is cancelled
  displaced   \* history: sessions whose entry another one overwrote

poolVars == <<sessions, client, streams, expired, displaced>>
loopVars == <<unvisited, cur>>
vars == <<mutex, poolVars, pc, cleanPC, loopVars, done>>

-----------------------------------------------------------------------------
Pooled == {id \in MuxIDs : sessions[id] # NoSession}
InPool(s) == \E id \in MuxIDs : sessions[id] = s

\* client.NumStreams(): a closed session reports none.
NumStreams(s) == IF client[s] = "closed" THEN 0 ELSE Cardinality(streams[s])

\* Line 59: the session can take one more stream.
HasRoomOffByOne(s) == NumStreams(s) <= Concurrency \/ Concurrency <= 0
HasRoomIfIdle(s) == NumStreams(s) = 0
HasRoom(s) == NumStreams(s) < Concurrency \/ Concurrency <= 0

\* Lines 90 and 94: the sweep closes the session.
ReapableWhileFresh(s) == NumStreams(s) = 0 /\ s \notin expired
ReapableIgnoringStreams(s) == s \in expired
Reapable(s) == NumStreams(s) = 0 /\ s \in expired

\* p.Lock(), then the range loop over the map starts.
Acquire(p) ==
  /\ mutex = Nobody
  /\ mutex' = p
  /\ unvisited' = Pooled
  /\ UNCHANGED cur

\* p.Unlock(), deferred in DialMux; the loop variables are gone.
Release ==
  /\ mutex' = Nobody
  /\ unvisited' = {}
  /\ cur' = NoID

DiscardNilsClient(id) ==
  /\ client' = [client EXCEPT ![sessions[id]] = "nil"]
  /\ sessions' = [sessions EXCEPT ![id] = NoSession]
  /\ UNCHANGED <<streams, expired, displaced>>

DiscardForgetsClose(id) ==
  /\ sessions' = [sessions EXCEPT ![id] = NoSession]
  /\ UNCHANGED <<client, streams, expired, displaced>>

\* underlayConn.Close(), client.Close() and delete(p.sessions, id).
Discard(id) ==
  /\ client' = [client EXCEPT ![sessions[id]] = "closed"]
  /\ sessions' = [sessions EXCEPT ![id] = NoSession]
  /\ UNCHANGED <<streams, expired, displaced>>

-----------------------------------------------------------------------------
(* DialMux *)

Call(d) ==
  /\ pc[d] = "idle"
  /\ pc' = [pc EXCEPT ![d] = "lock"]
  /\ UNCHANGED <<mutex, poolVars, cleanPC, loopVars, done>>

Lock(d) ==
  /\ pc[d] = "lock"
  /\ Acquire(d)
  /\ pc' = [pc EXCEPT ![d] = "range"]
  /\ UNCHANGED <<poolVars, cleanPC, done>>

\* The loop meets a session that is closed: only its entry is removed.
DropClosed(d, id) ==
  /\ pc[d] = "range"
  /\ id \in unvisited
  /\ client[sessions[id]] = "closed"
  /\ unvisited' = unvisited \ {id}
  /\ sessions' = [sessions EXCEPT ![id] = NoSession]
  /\ UNCHANGED <<mutex, client, streams, expired, displaced, pc, cleanPC, cur, done>>

\* It meets one that is not; that may change before its streams are counted.
Inspect(d, id) ==
  /\ pc[d] = "range"
  /\ id \in unvisited
  /\ client[sessions[id]] # "closed"
  /\ unvisited' = unvisited \ {id}
  /\ cur' = id
  /\ pc' = [pc EXCEPT ![d] = "count"]
  /\ UNCHANGED <<mutex, poolVars, cleanPC, done>>

Reuse(d) ==
  /\ pc[d] = "count"
  /\ HasRoom(sessions[cur])
  /\ pc' = [pc EXCEPT ![d] = "open"]
  /\ unvisited' = {}
  /\ UNCHANGED <<mutex, poolVars, cleanPC, cur, done>>

Skip(d) ==
  /\ pc[d] = "count"
  /\ ~HasRoom(sessions[cur])
  /\ pc' = [pc EXCEPT ![d] = "range"]
  /\ cur' = NoID
  /\ UNCHANGED <<mutex, poolVars, cleanPC, unvisited, done>>

RangeEnds(d) ==
  /\ pc[d] = "range"
  /\ unvisited = {}
  /\ pc' = [pc EXCEPT ![d] = "dial"]
  /\ UNCHANGED <<mutex, poolVars, cleanPC, loopVars, done>>

\* newConn() waits for a peer that says nothing: the TLS handshake of
\* TLSTransporter.DialConn has no deadline.
Stall(d) ==
  /\ pc[d] = "dial"
  /\ pc' = [pc EXCEPT ![d] = "hung"]
  /\ UNCHANGED <<mutex, poolVars, cleanPC, loopVars, done>>

DialErrRetries(d) ==
  /\ pc[d] \in {"dial", "hung"}
  /\ Release
  /\ pc' = [pc EXCEPT ![d] = "lock"]
  /\ UNCHANGED <<poolVars, cleanPC, done>>

\* newConn() returns an error, and so does DialMux.
DialErr(d) ==
  /\ pc[d] \in {"dial", "hung"}
  /\ Release
  /\ pc' = [pc EXCEPT ![d] = "idle"]
  /\ UNCHANGED <<poolVars, cleanPC, done>>

\* newConn() succeeds and the session is stored under a random id, whether the
\* id is taken or not.  s stands for an object the garbage collector has freed.
DialOK(d, id, s) ==
  /\ pc[d] \in {"dial", "hung"}
  /\ client[s] = "closed" /\ streams[s] = {} /\ ~InPool(s)
  /\ client' = [client EXCEPT ![s] = "open"]
  /\ expired' = expired \ {s}
  /\ displaced' = (displaced \cup ({sessions[id]} \ {NoSession})) \ {s}
  /\ sessions' = [sessions EXCEPT ![id] = s]
  /\ cur' = id
  /\ pc' = [pc EXCEPT ![d] = "open"]
  /\ UNCHANGED <<mutex, streams, cleanPC, unvisited, done>>

\* openNewStream gets its stream: lastActiveTime is set, DialMux returns.
OpenOK(d) ==
  /\ pc[d] = "open"
  /\ client[sessions[cur]] = "open"
  /\ streams' = [streams EXCEPT ![sessions[cur]] = @ \cup {d}]
  /\ expired' = expired \ {sessions[cur]}
  /\ Release
  /\ pc' = [pc EXCEPT ![d] = "relay"]
  /\ UNCHANGED <<sessions, client, displaced, cleanPC, done>>

\* openNewStream fails, on a session that died or because the peer does not
\* read the SYN in time, and takes the session down with all its streams.
OpenErr(d) ==
  /\ pc[d] = "open"
  /\ Discard(cur)
  /\ Release
  /\ pc' = [pc EXCEPT ![d] = "idle"]
  /\ UNCHANGED <<cleanPC, done>>

HangupForgetsClose(d) ==
  /\ pc[d] = "relay"
  /\ pc' = [pc EXCEPT ![d] = "idle"]
  /\ UNCHANGED <<mutex, poolVars, cleanPC, loopVars, done>>

\* The relay of d ends and closes the stream (src/handler.go:49).
Hangup(d) ==
  /\ pc[d] = "relay"
  /\ streams' = [s \in Sessions |-> streams[s] \ {d}]
  /\ pc' = [pc EXCEPT ![d] = "idle"]
  /\ UNCHANGED <<mutex, sessions, client, expired, displaced, cleanPC, loopVars, done>>

-----------------------------------------------------------------------------
(* cleanLoop *)

TimerFires ==
  /\ cleanPC = "select"
  /\ cleanPC' = "lockSweep"
  /\ UNCHANGED <<mutex, poolVars, pc, loopVars, done>>

CtxDone ==
  /\ cleanPC = "select"
  /\ done
  /\ cleanPC' = "lockFinal"
  /\ UNCHANGED <<mutex, poolVars, pc, loopVars, done>>

CleanLock ==
  /\ cleanPC \in {"lockSweep", "lockFinal"}
  /\ Acquire(Cleaner)
  /\ cleanPC' = IF cleanPC = "lockSweep" THEN "sweep" ELSE "final"
  /\ UNCHANGED <<poolVars, pc, done>>

SweepClosed(id) ==
  /\ cleanPC = "sweep"
  /\ id \in unvisited
  /\ client[sessions[id]] = "closed"
  /\ Discard(id)
  /\ unvisited' = unvisited \ {id}
  /\ UNCHANGED <<mutex, pc, cleanPC, cur, done>>

SweepSpare(id) ==
  /\ cleanPC = "sweep"
  /\ id \in unvisited
  /\ client[sessions[id]] # "closed" /\ ~Reapable(sessions[id])
  /\ unvisited' = unvisited \ {id}
  /\ UNCHANGED <<mutex, poolVars, pc, cleanPC, cur, done>>

\* Found idle for too long; it is closed in a later step.
SweepJudge(id) ==
  /\ cleanPC = "sweep"
  /\ id \in unvisited
  /\ client[sessions[id]] # "closed" /\ Reapable(sessions[id])
  /\ unvisited' = unvisited \ {id}
  /\ cur' = id
  /\ cleanPC' = "reap"
  /\ UNCHANGED <<mutex, poolVars, pc, done>>

Reap ==
  /\ cleanPC = "reap"
  /\ Discard(cur)
  /\ cleanPC' = "sweep"
  /\ cur' = NoID
  /\ UNCHANGED <<mutex, pc, unvisited, done>>

SweepEnds ==
  /\ cleanPC = "sweep"
  /\ unvisited = {}
  /\ Release
  /\ cleanPC' = "select"
  /\ UNCHANGED <<poolVars, pc, done>>

FinalClose(id) ==
  /\ cleanPC = "final"
  /\ id \in unvisited
  /\ Discard(id)
  /\ unvisited' = unvisited \ {id}
  /\ UNCHANGED <<mutex, pc, cleanPC, cur, done>>

\* The loop has logged "all mux sessions are closed" and returned.
FinalEnds ==
  /\ cleanPC = "final"
  /\ unvisited = {}
  /\ Release
  /\ cleanPC' = "stopped"
  /\ UNCHANGED <<poolVars, pc, done>>

-----------------------------------------------------------------------------
(* What happens around the pool: smux, the network, time and main *)

\* The transport fails; smux refuses new streams, but IsClosed() is still FALSE.
Break(s) ==
  /\ client[s] = "open"
  /\ client' = [client EXCEPT ![s] = "broken"]
  /\ UNCHANGED <<mutex, sessions, streams, expired, displaced, pc, cleanPC, loopVars, done>>

\* smux closes a session whose peer is silent for KeepAliveTimeout.
KeepAliveTimeout(s) ==
  /\ client[s] # "closed"
  /\ client' = [client EXCEPT ![s] = "closed"]
  /\ UNCHANGED <<mutex, sessions, streams, expired, displaced, pc, cleanPC, loopVars, done>>

Expire(s) ==
  /\ client[s] # "closed"
  /\ s \notin expired
  /\ expired' = expired \cup {s}
  /\ UNCHANGED <<mutex, sessions, client, streams, displaced, pc, cleanPC, loopVars, done>>

\* main cancels the context on a signal.
Cancel ==
  /\ ~done
  /\ done' = TRUE
  /\ UNCHANGED <<mutex, poolVars, pc, cleanPC, loopVars>>

-----------------------------------------------------------------------------
Init ==
  /\ mutex = Nobody
  /\ sessions = [id \in MuxIDs |-> NoSession]
  /\ client = [s \in Sessions |-> "closed"]
  /\ streams = [s \in Sessions |-> {}]
  /\ expired = {}
  /\ pc = [d \in Dialers |-> "idle"]
  /\ cleanPC = "select"
  /\ unvisited = {}
  /\ cur = NoID
  /\ done = FALSE
  /\ displaced = {}

NewConn(d) == DialErr(d) \/ \E id \in MuxIDs, s \in Sessions : DialOK(d, id, s)

\* The steps of DialMux other than taking the mutex and waiting for newConn().
DialStep(d) ==
  \/ \E id \in MuxIDs : DropClosed(d, id) \/ Inspect(d, id)
  \/ Reuse(d) \/ Skip(d) \/ RangeEnds(d)
  \/ OpenOK(d) \/ OpenErr(d)

CleanStep ==
  \/ TimerFires \/ CtxDone
  \/ \E id \in MuxIDs : SweepClosed(id) \/ SweepSpare(id) \/ SweepJudge(id)
  \/ Reap \/ SweepEnds
  \/ (\E id \in MuxIDs : FinalClose(id)) \/ FinalEnds

Next ==
  \/ \E d \in Dialers : Call(d) \/ Lock(d) \/ DialStep(d) \/ Stall(d) \/ NewConn(d) \/ Hangup(d)
  \/ CleanLock \/ CleanStep
  \/ \E s \in Sessions : Break(s) \/ KeepAliveTimeout(s) \/ Expire(s)
  \/ Cancel

Spec == Init /\ [][Next]_vars

(***************************************************************************)
(* Goroutines run on; sync.Mutex hands itself to a waiter that lost too    *)
(* often, so taking it is strongly fair; a dial that is not stalled        *)
(* returns (net.Dialer has a timeout of 16 seconds); the keep-alive of     *)
(* smux ends a session whose transport is lost; time goes by.  Nothing     *)
(* makes a relay or a stalled handshake end.                               *)
(***************************************************************************)
Fairness ==
  /\ \A d \in Dialers :
       /\ SF_vars(Lock(d))
       /\ WF_vars(DialStep(d))
       /\ WF_vars(pc[d] = "dial" /\ NewConn(d))
  /\ SF_vars(CleanLock) /\ WF_vars(CleanStep)
  /\ \A s \in Sessions :
       /\ WF_vars(client[s] = "broken" /\ KeepAliveTimeout(s))
       /\ WF_vars(Expire(s))

FairSpec == Spec /\ Fairness

-----------------------------------------------------------------------------
(* Properties *)

TypeOK ==
  /\ mutex \in Dialers \cup {Cleaner, Nobody}
  /\ sessions \in [MuxIDs -> Sessions \cup {NoSession}]
  /\ client \in [Sessions -> {"open", "broken", "closed"}]
  /\ streams \in [Sessions -> SUBSET Dialers]
  /\ expired \in SUBSET Sessions
  /\ pc \in [Dialers -> {"idle", "lock", "range", "count", "dial", "hung", "open", "relay"}]
  /\ cleanPC \in {"select", "lockSweep", "sweep", "reap", "lockFinal", "final", "stopped"}
  /\ unvisited \in SUBSET MuxIDs
  /\ cur \in MuxIDs \cup {NoID}
  /\ done \in BOOLEAN
  /\ displaced \in SUBSET Sessions

\* No session ever carries more streams than the option "mux" allows, though
\* the count is taken before the stream is opened and sessions are shared.
StreamCap == Concurrency > 0 => \A s \in Sessions : Cardinality(streams[s]) <= Concurrency

\* A dialer has a stream on exactly one session while it relays and on none
\* otherwise: a failed DialMux leaves no stream behind that eats into the cap.
StreamsOwned ==
  \A d \in Dialers :
    Cardinality({s \in Sessions : d \in streams[s]}) = IF pc[d] = "relay" THEN 1 ELSE 0

\* A session that is not closed is in the map, where the sweep finds it, unless
\* a second session drew the same random id: every path that removes an entry
\* closes the session first or found it closed.
OpenSessionsTracked ==
  \A s \in Sessions : client[s] # "closed" => InPool(s) \/ s \in displaced

\* The map never holds more sessions than the streams open at once require: a
\* dial happens only after every session of the map was seen full.
PoolBounded ==
  LET full == IF Concurrency = 0 THEN 0 ELSE (Cardinality(Dialers) - 1) \div Concurrency
  IN  Cardinality(Pooled) <= full + 1

\* The sweep never takes down a session that carries a stream, though it
\* counts the streams before it closes the session.
SweepSparesUsedSessions ==
  [][cleanPC = "reap" /\ cleanPC' # "reap" =>
       \A s \in Sessions : client[s] # "closed" /\ client'[s] = "closed" => streams[s] = {}]_vars

SomeDialHangs == \E d \in Dialers : pc[d] = "hung"

\* A dialer that waits for the mutex gets its answer, a stream or an error,
\* unless from some point on the mutex is held over a stalled handshake.
DialReturns ==
  \A d \in Dialers : pc[d] = "lock" ~> (pc[d] \in {"idle", "relay"} \/ []SomeDialHangs)

\* A session of the map that nobody uses is used again or closed, unless
\* cleanLoop has ended or a stalled handshake keeps it from the mutex.
IdleSessionsReaped ==
  \A s \in Sessions :
    (InPool(s) /\ streams[s] = {})
      ~> (~InPool(s) \/ streams[s] # {} \/ cleanPC = "stopped" \/ []SomeDialHangs)
=============================================================================
