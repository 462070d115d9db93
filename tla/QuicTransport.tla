--------------------------- MODULE QuicTransport ---------------------------
(***************************************************************************)
(* The mode quic: QUICTransporter.DialConn with the session that all       *)
(* connections share (src/gost/proxy/client/quic.go), the streams at the   *)
(* server (src/gost/proxy/server/quic.go) and the interConn around them    *)
(* (src/gost/protocol/quic/conn.go), whose Close ends only the sending     *)
(* side.                                                                   *)
(*                                                                         *)
(* A session carries MaxStreams streams at a time. The server gives a      *)
(* stream's place back when both of its sides are complete there: its own  *)
(* FIN is sent and the client's FIN is read. A stream that the server      *)
(* drops with bytes or the FIN unread keeps its place until the session    *)
(* ends. Each member of Conns is dialled once; a copy is one direction of  *)
(* handler.Serve.                                                          *)
(***************************************************************************)
EXTENDS Integers, FiniteSets

CONSTANTS
  Conns,       \* connections of ss-local
  MaxStreams,  \* MaxIncomingStreams of the server
  MaxSessions  \* bound: sessions dialled

ASSUME BoundsAssumption == MaxStreams \in Nat \ {0} /\ MaxSessions \in Nat \ {0}
ASSUME ConnsAssumption == "free" \notin Conns

VARIABLES
  mutex,     \* QUICTransporter.access: the connection that holds it, or "free"
  session,   \* t.session, 0 for nil; sessions are numbered as they are dialled
  live,      \* sessions whose context is not done
  pc,        \* the client's handler: from DialConn to the end of its relay
  stream,    \* the session of the connection's stream, 0 before it has one
  fin,       \* the client has closed its sending side
  unread,    \* bytes of the client that the server has not read
  server,    \* the server's handler of the stream
  up,        \* its copy from the stream to ss-server
  returned   \* the client knows that the stream's place is free again

dialVars == <<mutex, session, live>>
serverVars == <<server, up, returned>>
vars == <<dialVars, pc, stream, fin, unread, serverVars>>

-----------------------------------------------------------------------------
(* DialConn *)

Streams(s) == {c \in Conns : stream[c] = s /\ ~returned[c]}

HasRoom(s) == Cardinality(Streams(s)) < MaxStreams

IsSessionActiveWithRoom == session \in live /\ HasRoom(session)

IsSessionActive == session \in live

Go(c, to) == pc' = [pc EXCEPT ![c] = to]

Call(c) ==
  /\ pc[c] = "idle"
  /\ Go(c, "call")
  /\ UNCHANGED <<dialVars, stream, fin, unread, serverVars>>

Lock(c) ==
  /\ pc[c] = "call"
  /\ mutex = "free"
  /\ mutex' = c
  /\ Go(c, "check")
  /\ UNCHANGED <<session, live, stream, fin, unread, serverVars>>

\* Lines 43 and 44.
UseSession(c) ==
  /\ pc[c] = "check"
  /\ IsSessionActive
  /\ Go(c, "open")
  /\ UNCHANGED <<dialVars, stream, fin, unread, serverVars>>

\* The dial does not need the mutex.
StartDialUnlocked(c) ==
  /\ pc[c] = "check"
  /\ ~IsSessionActive
  /\ live' = live \ {session}
  /\ mutex' = "free"
  /\ Go(c, "dial")
  /\ UNCHANGED <<session, stream, fin, unread, serverVars>>

\* Lines 47 to 66: what is left of the last session is closed.
StartDial(c) ==
  /\ pc[c] = "check"
  /\ ~IsSessionActive
  /\ live' = live \ {session}
  /\ Go(c, "dial")
  /\ UNCHANGED <<mutex, session, stream, fin, unread, serverVars>>

DialOK(c) ==
  /\ pc[c] = "dial"
  /\ session < MaxSessions
  /\ session' = session + 1
  /\ live' = live \cup {session'}
  /\ Go(c, "open")
  /\ UNCHANGED <<mutex, stream, fin, unread, serverVars>>

DialErrKeepsLock(c) ==
  /\ pc[c] = "dial"
  /\ Go(c, "failed")
  /\ UNCHANGED <<dialVars, stream, fin, unread, serverVars>>

\* The handshake fails or its timeout passes.
DialErr(c) ==
  /\ pc[c] = "dial"
  /\ mutex' = "free"
  /\ Go(c, "failed")
  /\ UNCHANGED <<session, live, stream, fin, unread, serverVars>>

\* openStream. OpenStream does not wait for a free place, it fails.
OpenStream(c) ==
  /\ pc[c] = "open"
  /\ IsSessionActive /\ HasRoom(session)
  /\ stream' = [stream EXCEPT ![c] = session]
  /\ mutex' = "free"
  /\ Go(c, "relay")
  /\ UNCHANGED <<session, live, fin, unread, serverVars>>

OpenStreamErr(c) ==
  /\ pc[c] = "open"
  /\ ~IsSessionActive \/ ~HasRoom(session)
  /\ mutex' = "free"
  /\ Go(c, "failed")
  /\ UNCHANGED <<session, live, stream, fin, unread, serverVars>>

-----------------------------------------------------------------------------
(* The client's relay *)

Write(c) ==
  /\ pc[c] = "relay" /\ stream[c] \in live
  /\ ~unread[c]
  /\ unread' = [unread EXCEPT ![c] = TRUE]
  /\ UNCHANGED <<dialVars, pc, stream, fin, serverVars>>

HangupForgetsClose(c) ==
  /\ pc[c] = "relay"
  /\ Go(c, "over")
  /\ UNCHANGED <<dialVars, stream, fin, unread, serverVars>>

\* A copy has ended: ss-local has left, the server's FIN is read, or the session
\* is gone. The handler closes the stream.
Hangup(c) ==
  /\ pc[c] = "relay"
  /\ Go(c, "over")
  /\ fin' = [fin EXCEPT ![c] = TRUE]
  /\ UNCHANGED <<dialVars, stream, unread, serverVars>>

\* The server's FIN or the session's end reaches the client.
Ended(c) == server[c] \in {"refused", "failed", "closed"} \/ stream[c] \notin live

-----------------------------------------------------------------------------
(* The server *)

\* The server learns of a stream with its first bytes or its FIN.
Arrived(c) ==
  /\ server[c] = "none" /\ stream[c] \in live
  /\ unread[c] \/ fin[c]

At(c, to) == server' = [server EXCEPT ![c] = to]

AcceptStream(c) ==
  /\ Arrived(c)
  /\ At(c, "queued")
  /\ UNCHANGED <<dialVars, pc, stream, fin, unread, up, returned>>

\* The connection queue is full: the stream's sending side is closed.
Refuse(c) ==
  /\ Arrived(c)
  /\ At(c, "refused")
  /\ UNCHANGED <<dialVars, pc, stream, fin, unread, up, returned>>

ServerDialOK(c) ==
  /\ server[c] = "queued"
  /\ At(c, "relay")
  /\ up' = [up EXCEPT ![c] = "read"]
  /\ UNCHANGED <<dialVars, pc, stream, fin, unread, returned>>

ServerDialErr(c) ==
  /\ server[c] = "queued"
  /\ At(c, "failed")
  /\ UNCHANGED <<dialVars, pc, stream, fin, unread, up, returned>>

ReadStream(c) ==
  /\ up[c] = "read" /\ unread[c] /\ stream[c] \in live
  /\ up' = [up EXCEPT ![c] = "write"]
  /\ unread' = [unread EXCEPT ![c] = FALSE]
  /\ UNCHANGED <<dialVars, pc, stream, fin, server, returned>>

\* Close does not wake a Read; it goes on until the FIN or the session's end.
ReadFin(c) ==
  /\ up[c] = "read"
  /\ \/ fin[c] /\ ~unread[c]
     \/ stream[c] \notin live
  /\ up' = [up EXCEPT ![c] = "eof"]
  /\ UNCHANGED <<dialVars, pc, stream, fin, unread, server, returned>>

WriteOutbound(c) ==
  /\ up[c] = "write" /\ server[c] = "relay"
  /\ up' = [up EXCEPT ![c] = "read"]
  /\ UNCHANGED <<dialVars, pc, stream, fin, unread, server, returned>>

\* The outbound connection is closed, or ss-server has left.
WriteOutboundErr(c) ==
  /\ up[c] = "write"
  /\ up' = [up EXCEPT ![c] = "failed"]
  /\ UNCHANGED <<dialVars, pc, stream, fin, unread, server, returned>>

\* A copy has ended, the other one perhaps because ss-server has left.
RelayEnds(c) ==
  /\ server[c] = "relay"
  /\ At(c, "closed")
  /\ UNCHANGED <<dialVars, pc, stream, fin, unread, up, returned>>

\* MAX_STREAMS
ReturnPlace(c) ==
  /\ server[c] = "closed" /\ up[c] = "eof"
  /\ stream[c] \in live /\ ~returned[c]
  /\ returned' = [returned EXCEPT ![c] = TRUE]
  /\ UNCHANGED <<dialVars, pc, stream, fin, unread, server, up>>

\* The network is lost, or nothing has been sent for the idle timeout.
SessionDies(s) ==
  /\ s \in live
  /\ live' = live \ {s}
  /\ UNCHANGED <<mutex, session, pc, stream, fin, unread, serverVars>>

-----------------------------------------------------------------------------
Init ==
  /\ mutex = "free"
  /\ session = 0
  /\ live = {}
  /\ pc = [c \in Conns |-> "idle"]
  /\ stream = [c \in Conns |-> 0]
  /\ fin = [c \in Conns |-> FALSE]
  /\ unread = [c \in Conns |-> FALSE]
  /\ server = [c \in Conns |-> "none"]
  /\ up = [c \in Conns |-> "none"]
  /\ returned = [c \in Conns |-> FALSE]

DialStep(c) ==
  \/ UseSession(c) \/ StartDial(c) \/ DialOK(c) \/ DialErr(c)
  \/ OpenStream(c) \/ OpenStreamErr(c)

ServerStep(c) ==
  \/ AcceptStream(c) \/ Refuse(c)
  \/ ServerDialOK(c) \/ ServerDialErr(c)

CopyStep(c) ==
  \/ ReadStream(c) \/ ReadFin(c)
  \/ WriteOutbound(c) \/ WriteOutboundErr(c)

Next ==
  \/ \E c \in Conns :
       \/ Call(c) \/ Lock(c) \/ DialStep(c)
       \/ Write(c) \/ Hangup(c)
       \/ ServerStep(c) \/ CopyStep(c)
       \/ RelayEnds(c) \/ ReturnPlace(c)
  \/ \E s \in live : SessionDies(s)

Spec == Init /\ [][Next]_vars

\* Goroutines run on, a dial has its timeout, the mutex lets everybody in, and
\* what one side sends reaches the other. No program has to leave, no network
\* has to fail.
Fairness ==
  \A c \in Conns :
    /\ SF_vars(Lock(c)) /\ WF_vars(DialStep(c))
    /\ WF_vars(Ended(c) /\ Hangup(c))
    /\ WF_vars(ServerStep(c)) /\ WF_vars(CopyStep(c))
    /\ WF_vars(up[c] \in {"eof", "failed"} /\ RelayEnds(c))
    /\ WF_vars(ReturnPlace(c))

FairSpec == Spec /\ Fairness

-----------------------------------------------------------------------------
(* Properties *)

TypeOK ==
  /\ mutex \in Conns \cup {"free"}
  /\ session \in 0..MaxSessions /\ live \subseteq 1..session
  /\ pc \in [Conns -> {"idle", "call", "check", "dial", "open", "failed", "relay", "over"}]
  /\ stream \in [Conns -> 0..session]
  /\ fin \in [Conns -> BOOLEAN] /\ unread \in [Conns -> BOOLEAN]
  /\ server \in [Conns -> {"none", "queued", "refused", "failed", "relay", "closed"}]
  /\ up \in [Conns -> {"none", "read", "write", "eof", "failed"}]
  /\ returned \in [Conns -> BOOLEAN]
  /\ \A c \in Conns : pc[c] \in {"check", "dial", "open"} <=> mutex = c

\* All streams that can still be opened or used share one session: a second dial
\* never replaces a session that works, which nobody would then close.
OneLiveSession == live \subseteq {session}

\* A dial never takes the session away from the streams of other connections,
\* not even when it finds no room.
DialSparesStreams ==
  [][\A c \in Conns : pc[c] = "check" /\ pc'[c] # "check" => live \subseteq live']_vars

\* Every dial returns, although it may wait for another that is under way.
DialReturns ==
  \A c \in Conns : pc[c] = "call" ~> pc[c] \in {"relay", "over", "failed"}

\* The server has given the stream up without reading to its end.
Dropped(c) == server[c] \in {"refused", "failed"} \/ up[c] = "failed"

\* When a connection is over its place is free again, or the session has ended,
\* or the server has dropped the stream unread, which keeps the place.
PlacesReturn ==
  \A c \in Conns : pc[c] = "over" ~> returned[c] \/ stream[c] \notin live \/ Dropped(c)
=============================================================================
