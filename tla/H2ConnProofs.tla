----------------------------- MODULE H2ConnProofs -----------------------------
(***************************************************************************)
(* For any number of requests: serveHTTP does not return before the        *)
(* handler is done with the connection.  What keeps it is that the channel *)
(* done is closed by the handler's last step alone; a ResponseWriter that  *)
(* is taken back too early comes from the writer, which nobody waits for.  *)
(***************************************************************************)
EXTENDS H2Conn, TLAPS

\* conn.Done() is readable only when HttpConnection.Close has gone all its way.
DoneIsLast == \A s \in done : relay[s] = "ended"

\* Nothing else lets serveHTTP return.
ReturnedAfterDone == \A s \in Streams : request[s] = "returned" => s \in done

IInv == TypeOK /\ DoneIsLast /\ ReturnedAfterDone

LEMMA InitIInv == Init => IInv
<1> SUFFICES ASSUME Init PROVE IInv
  OBVIOUS
<1>1. sent \in [Streams -> 0..MaxWrites]
  BY MaxWritesAssumption DEF Init
<1> QED
  BY <1>1 DEF Init, IInv, TypeOK, DoneIsLast, ReturnedAfterDone

LEMMA NextIInv == IInv /\ [Next]_vars => IInv'
<1> SUFFICES ASSUME IInv, [Next]_vars PROVE IInv'
  OBVIOUS
<1> USE DEF IInv, TypeOK, DoneIsLast, ReturnedAfterDone
<1>1. ASSUME NEW s \in Streams, BodyEnds(s) \/ OutboundEnds(s) PROVE IInv'
  BY <1>1 DEF BodyEnds, OutboundEnds
<1>2. ASSUME NEW s \in Streams, Reader(s) PROVE IInv'
  BY <1>2 DEF Reader, ReaderEnds
<1>3. ASSUME NEW s \in Streams, Writer(s) PROVE IInv'
  <2>1. CASE CallWrite(s)
    <3>1. sent[s] \in 0..MaxWrites /\ sent[s] < MaxWrites /\ sent' = [sent EXCEPT ![s] = @ + 1]
      BY <2>1 DEF CallWrite
    <3>2. sent[s] + 1 \in 0..MaxWrites
      BY <3>1, MaxWritesAssumption
    <3>3. sent' \in [Streams -> 0..MaxWrites]
      BY <3>1, <3>2
    <3> QED
      BY <2>1, <3>3 DEF CallWrite
  <2>2. CASE WriterEnds(s)
    BY <2>2 DEF WriterEnds
  <2>3. CASE CheckClosed(s)
    BY <2>3 DEF CheckClosed
  <2>4. CASE UseResponseWriter(s)
    BY <2>4 DEF UseResponseWriter
  <2>5. CASE WriteErr(s)
    BY <2>5 DEF WriteErr
  <2> QED
    BY <1>3, <2>1, <2>2, <2>3, <2>4, <2>5 DEF Writer
<1>4. ASSUME NEW s \in Streams, Relay(s) PROVE IInv'
  BY <1>4 DEF Relay, FirstCopyEnds, CloseOutbound, CloseBody, CloseDone
<1>5. ASSUME NEW s \in Streams, RequestReturns(s) PROVE IInv'
  BY <1>5 DEF RequestReturns
<1>6. CASE UNCHANGED vars
  BY <1>6 DEF vars
<1> QED
  BY <1>1, <1>2, <1>3, <1>4, <1>5, <1>6 DEF Next

\* The state stays well typed, after a panic too.
THEOREM TypeCorrect == Spec => []TypeOK
<1>1. IInv => TypeOK
  BY DEF IInv
<1> QED
  BY <1>1, InitIInv, NextIInv, PTL DEF Spec

\* Whatever the client and ss-server do meanwhile, the request outlives the
\* handler's use of its connection.
THEOREM ResponseKeptHolds == Spec => []ResponseKept
<1>1. IInv => ResponseKept
  BY DEF IInv, DoneIsLast, ReturnedAfterDone, ResponseKept
<1> QED
  BY <1>1, InitIInv, NextIInv, PTL DEF Spec
=============================================================================
