------------------------ MODULE QuicTransportProofs ------------------------
(***************************************************************************)
(* Any number of connections dial over the shared QUIC session without     *)
(* two sessions being alive, and without a dial ending one that is in use. *)
(*                                                                         *)
(* OneLiveSession alone is not inductive: DialOK adds a session to what is *)
(* alive, so one has to know that nothing is. That is what the mutex gives *)
(* (the last conjunct of TypeOK): between StartDial, which closes what was *)
(* left, and DialOK nobody else can have dialled.                          *)
(***************************************************************************)
EXTENDS QuicTransport, TLAPS

NothingLiveInDial == \A c \in Conns : pc[c] = "dial" => live = {}

IInv == TypeOK /\ OneLiveSession /\ NothingLiveInDial

LEMMA InitInv == Init => IInv
BY BoundsAssumption, ConnsAssumption DEF Init, IInv, TypeOK, OneLiveSession, NothingLiveInDial

\* The steps of DialConn that hold the mutex.
LEMMA DialStepInv ==
  ASSUME IInv, NEW c \in Conns, DialStep(c)
  PROVE  IInv'
<1> USE BoundsAssumption, ConnsAssumption
<1> USE DEF IInv, TypeOK, OneLiveSession, NothingLiveInDial, dialVars, serverVars, Go
<1>1. CASE UseSession(c)
  BY <1>1 DEF UseSession
<1>2. CASE StartDial(c)
  BY <1>2 DEF StartDial
<1>3. CASE DialOK(c)
  <2>1. live = {} /\ live' = {session'}
    BY <1>3 DEF DialOK
  <2>2. session' \in 1..MaxSessions /\ session \in 0..session'
    BY <1>3 DEF DialOK
  <2>3. TypeOK'
    BY <1>3, <2>1, <2>2 DEF DialOK
  <2>4. QED
    BY <1>3, <2>1, <2>3 DEF DialOK
<1>4. CASE DialErr(c)
  BY <1>4 DEF DialErr
<1>5. CASE OpenStream(c)
  BY <1>5 DEF OpenStream
<1>6. CASE OpenStreamErr(c)
  BY <1>6 DEF OpenStreamErr
<1>7. QED
  BY <1>1, <1>2, <1>3, <1>4, <1>5, <1>6 DEF DialStep

\* The steps of the relays and of the server leave mutex and session alone.
LEMMA RelayStepInv ==
  ASSUME IInv, NEW c \in Conns,
         Write(c) \/ Hangup(c) \/ ServerStep(c) \/ CopyStep(c) \/ RelayEnds(c) \/ ReturnPlace(c)
  PROVE  IInv'
<1> USE BoundsAssumption, ConnsAssumption
<1> USE DEF IInv, TypeOK, OneLiveSession, NothingLiveInDial, dialVars, serverVars, Go, At
<1>1. CASE Write(c)
  BY <1>1 DEF Write
<1>2. CASE Hangup(c)
  BY <1>2 DEF Hangup
<1>3. CASE ServerStep(c)
  BY <1>3 DEF ServerStep, AcceptStream, Refuse, ServerDialOK, ServerDialErr
<1>4. CASE CopyStep(c)
  BY <1>4 DEF CopyStep, ReadStream, ReadFin, WriteOutbound, WriteOutboundErr
<1>5. CASE RelayEnds(c) \/ ReturnPlace(c)
  BY <1>5 DEF RelayEnds, ReturnPlace
<1>6. QED
  BY <1>1, <1>2, <1>3, <1>4, <1>5

LEMMA NextInv == IInv /\ [Next]_vars => IInv'
<1> SUFFICES ASSUME IInv, [Next]_vars PROVE IInv'
  OBVIOUS
<1> USE BoundsAssumption, ConnsAssumption
<1>1. ASSUME NEW c \in Conns, Call(c) PROVE IInv'
  BY <1>1 DEF Call, IInv, TypeOK, OneLiveSession, NothingLiveInDial, dialVars, serverVars, Go
<1>2. ASSUME NEW c \in Conns, Lock(c) PROVE IInv'
  BY <1>2 DEF Lock, IInv, TypeOK, OneLiveSession, NothingLiveInDial, serverVars, Go
<1>3. ASSUME NEW s \in live, SessionDies(s) PROVE IInv'
  BY <1>3 DEF SessionDies, IInv, TypeOK, OneLiveSession, NothingLiveInDial, serverVars
<1>4. CASE UNCHANGED vars
  BY <1>4 DEF vars, IInv, TypeOK, OneLiveSession, NothingLiveInDial, dialVars, serverVars
<1>5. QED
  BY <1>1, <1>2, <1>3, <1>4, DialStepInv, RelayStepInv DEF Next

\* The mutex has a holder that is in DialConn, and no other is in there.
THEOREM TypeCorrect == Spec => []TypeOK
<1>1. IInv => TypeOK
  BY DEF IInv
<1>2. QED
  BY InitInv, NextInv, <1>1, PTL DEF Spec

\* No interleaving of dials, hang-ups, refusals and lost sessions leaves two
\* sessions alive.
THEOREM OneLiveSessionHolds == Spec => []OneLiveSession
<1>1. IInv => OneLiveSession
  BY DEF IInv
<1>2. QED
  BY InitInv, NextInv, <1>1, PTL DEF Spec

\* A dial takes no session from the streams that use it: where it closes the
\* last session, that one has ended.
THEOREM DialSparesStreamsHolds == Spec => DialSparesStreams
<1>1. IInv /\ [Next]_vars =>
        [\A c \in Conns : pc[c] = "check" /\ pc'[c] # "check" => live \subseteq live']_vars
  <2> SUFFICES ASSUME IInv, Next, NEW c \in Conns, pc[c] = "check", pc'[c] # "check"
               PROVE  live \subseteq live'
    BY DEF vars
  <2>1. CASE \E s \in live : SessionDies(s)
    BY <2>1 DEF SessionDies
  <2>2. ASSUME NEW d \in Conns, Call(d) \/ Lock(d) PROVE live \subseteq live'
    BY <2>2 DEF Call, Lock, dialVars
  <2>3. ASSUME NEW d \in Conns, DialStep(d) PROVE live \subseteq live'
    BY <2>3 DEF DialStep, UseSession, StartDial, DialOK, DialErr, OpenStream, OpenStreamErr,
                dialVars, IsSessionActive
  <2>4. ASSUME NEW d \in Conns,
               Write(d) \/ Hangup(d) \/ ServerStep(d) \/ CopyStep(d) \/ RelayEnds(d) \/ ReturnPlace(d)
        PROVE  live \subseteq live'
    BY <2>4 DEF Write, Hangup, ServerStep, AcceptStream, Refuse, ServerDialOK, ServerDialErr,
                CopyStep, ReadStream, ReadFin, WriteOutbound, WriteOutboundErr,
                RelayEnds, ReturnPlace, dialVars
  <2>5. QED
    BY <2>1, <2>2, <2>3, <2>4 DEF Next
<1>2. QED
  BY InitInv, NextInv, <1>1, PTL DEF Spec, DialSparesStreams
=============================================================================
