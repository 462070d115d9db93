-------------------------------- MODULE H2Conn --------------------------------
(***************************************************************************)
(* The server's end of the mode h2: serveHTTP (server/h2.go:37-60), the    *)
(* HttpConnection it hands to the handler (protocol/http/conn.go) and the  *)
(* handler's relay over it (handler.go:40-64), whose goroutines are not    *)
(* the request's own.                                                      *)
(*                                                                         *)
(* When serveHTTP returns, http2 takes the ResponseWriter back, and using  *)
(* it afterwards panics.  The panic is in a goroutine of the handler, where*)
(* nobody recovers it: it ends the process with every connection in it.    *)
(***************************************************************************)
EXTENDS Integers, FiniteSets

CONSTANTS
  Streams,   \* the requests that are served
  MaxWrites  \* bound: chunks that ss-server sends on each

ASSUME MaxWritesAssumption == MaxWrites \in Nat

VARIABLES
  body,      \* r.Body: "open", "ended" by the client, "closed" by the server
  done,      \* requests whose channel done is closed
  request,   \* serveHTTP: "wait" at <-conn.Done(), "returned"
  reader,    \* io.Copy(outbound, inbound): "read", "exited"
  writer,    \* io.Copy(inbound, outbound) and where it is in Write
  sent,      \* chunks that ss-server has sent
  outbound,  \* the connection to ss-server: "open", "ended" by it, "closed"
  relay,     \* the handler goroutine
  crashed    \* the process panicked

vars == <<body, done, request, reader, writer, sent, outbound, relay, crashed>>

Alive == ~crashed

-----------------------------------------------------------------------------
(* The client and ss-server *)

BodyEnds(s) ==
  /\ Alive /\ body[s] = "open"
  /\ body' = [body EXCEPT ![s] = "ended"]
  /\ UNCHANGED <<done, request, reader, writer, sent, outbound, relay, crashed>>

OutboundEnds(s) ==
  /\ Alive /\ outbound[s] = "open"
  /\ outbound' = [outbound EXCEPT ![s] = "ended"]
  /\ UNCHANGED <<body, done, request, reader, writer, sent, relay, crashed>>

-----------------------------------------------------------------------------
(* The two copies *)

ReaderEnds(s) ==
  /\ Alive /\ reader[s] = "read"
  /\ body[s] # "open"
  /\ reader' = [reader EXCEPT ![s] = "exited"]
  /\ UNCHANGED <<body, done, request, writer, sent, outbound, relay, crashed>>

\* A chunk of ss-server is read, and HttpConnection.Write called with it.
CallWrite(s) ==
  /\ Alive /\ writer[s] = "read"
  /\ outbound[s] # "closed" /\ sent[s] < MaxWrites
  /\ sent' = [sent EXCEPT ![s] = @ + 1]
  /\ writer' = [writer EXCEPT ![s] = "check"]
  /\ UNCHANGED <<body, done, request, reader, outbound, relay, crashed>>

WriterEnds(s) ==
  /\ Alive /\ writer[s] = "read"
  /\ outbound[s] # "open"
  /\ writer' = [writer EXCEPT ![s] = "exited"]
  /\ UNCHANGED <<body, done, request, reader, sent, outbound, relay, crashed>>

\* if c.isClosed() { return 0, io.ErrClosedPipe }
CheckClosed(s) ==
  /\ Alive /\ writer[s] = "check"
  /\ writer' = [writer EXCEPT ![s] = IF s \in done THEN "exited" ELSE "write"]
  /\ UNCHANGED <<body, done, request, reader, sent, outbound, relay, crashed>>

\* c.writer.Write(b), then f.Flush(): each uses the ResponseWriter.
UseResponseWriter(s) ==
  /\ Alive /\ writer[s] \in {"write", "flush"}
  /\ IF request[s] = "returned"
       THEN crashed' = TRUE /\ UNCHANGED writer
       ELSE /\ writer' = [writer EXCEPT ![s] = IF @ = "write" THEN "flush" ELSE "read"]
            /\ UNCHANGED crashed
  /\ UNCHANGED <<body, done, request, reader, sent, outbound, relay>>

\* The client reset the stream.
WriteErr(s) ==
  /\ Alive /\ writer[s] = "write"
  /\ body[s] # "open" /\ request[s] # "returned"
  /\ writer' = [writer EXCEPT ![s] = "exited"]
  /\ UNCHANGED <<body, done, request, reader, sent, outbound, relay, crashed>>

-----------------------------------------------------------------------------
(* The handler goroutine, and the request's *)

FirstCopyEnds(s) ==
  /\ Alive /\ relay[s] = "wait"
  /\ reader[s] = "exited" \/ writer[s] = "exited"
  /\ relay' = [relay EXCEPT ![s] = "closeOut"]
  /\ UNCHANGED <<body, done, request, reader, writer, sent, outbound, crashed>>

CloseOutbound(s) ==
  /\ Alive /\ relay[s] = "closeOut"
  /\ outbound' = [outbound EXCEPT ![s] = "closed"]
  /\ relay' = [relay EXCEPT ![s] = "closeBody"]
  /\ UNCHANGED <<body, done, request, reader, writer, sent, crashed>>

CloseBodyNil(s) ==
  /\ Alive /\ relay[s] = "closeBody"
  /\ body' = [body EXCEPT ![s] = "nil"]
  /\ relay' = [relay EXCEPT ![s] = "closeDone"]
  /\ UNCHANGED <<done, request, reader, writer, sent, outbound, crashed>>

\* HttpConnection.Close: c.closer.Close(), where closer is r.Body, ...
CloseBody(s) ==
  /\ Alive /\ relay[s] = "closeBody"
  /\ body' = [body EXCEPT ![s] = "closed"]
  /\ relay' = [relay EXCEPT ![s] = "closeDone"]
  /\ UNCHANGED <<done, request, reader, writer, sent, outbound, crashed>>

CloseDoneForgotten(s) ==
  /\ Alive /\ relay[s] = "closeDone"
  /\ relay' = [relay EXCEPT ![s] = "ended"]
  /\ UNCHANGED <<body, done, request, reader, writer, sent, outbound, crashed>>

\* ... then close(c.done).
CloseDone(s) ==
  /\ Alive /\ relay[s] = "closeDone"
  /\ done' = done \cup {s}
  /\ relay' = [relay EXCEPT ![s] = "ended"]
  /\ UNCHANGED <<body, request, reader, writer, sent, outbound, crashed>>

RequestReturnsEarly(s) ==
  /\ Alive /\ request[s] = "wait"
  /\ s \in done \/ body[s] # "open"
  /\ request' = [request EXCEPT ![s] = "returned"]
  /\ UNCHANGED <<body, done, reader, writer, sent, outbound, relay, crashed>>

\* <-conn.Done(), and serveHTTP returns.
RequestReturns(s) ==
  /\ Alive /\ request[s] = "wait"
  /\ s \in done
  /\ request' = [request EXCEPT ![s] = "returned"]
  /\ UNCHANGED <<body, done, reader, writer, sent, outbound, relay, crashed>>

-----------------------------------------------------------------------------
Init ==
  /\ body = [s \in Streams |-> "open"]
  /\ done = {}
  /\ request = [s \in Streams |-> "wait"]
  /\ reader = [s \in Streams |-> "read"]
  /\ writer = [s \in Streams |-> "read"]
  /\ sent = [s \in Streams |-> 0]
  /\ outbound = [s \in Streams |-> "open"]
  /\ relay = [s \in Streams |-> "wait"]
  /\ crashed = FALSE

Reader(s) == ReaderEnds(s)
Writer(s) == CallWrite(s) \/ WriterEnds(s) \/ CheckClosed(s) \/ UseResponseWriter(s) \/ WriteErr(s)
Relay(s) == FirstCopyEnds(s) \/ CloseOutbound(s) \/ CloseBody(s) \/ CloseDone(s)

Next == \E s \in Streams :
  BodyEnds(s) \/ OutboundEnds(s) \/ Reader(s) \/ Writer(s) \/ Relay(s) \/ RequestReturns(s)

Spec == Init /\ [][Next]_vars

\* Goroutines run on; neither the client nor ss-server has to end anything.
FairSpec == Spec /\ \A s \in Streams :
  WF_vars(Reader(s)) /\ WF_vars(Writer(s)) /\ WF_vars(Relay(s)) /\ WF_vars(RequestReturns(s))

-----------------------------------------------------------------------------
(* Properties *)

TypeOK ==
  /\ body \in [Streams -> {"open", "ended", "closed"}]
  /\ done \in SUBSET Streams
  /\ request \in [Streams -> {"wait", "returned"}]
  /\ reader \in [Streams -> {"read", "exited"}]
  /\ writer \in [Streams -> {"read", "check", "write", "flush", "exited"}]
  /\ sent \in [Streams -> 0..MaxWrites]
  /\ outbound \in [Streams -> {"open", "ended", "closed"}]
  /\ relay \in [Streams -> {"wait", "closeOut", "closeBody", "closeDone", "ended"}]
  /\ crashed \in BOOLEAN

\* serveHTTP does not return, and end the response, before the handler is done
\* with the connection, whatever the client does meanwhile.
ResponseKept == \A s \in Streams : request[s] = "returned" => relay[s] = "ended"

Released(s) == request[s] = "returned" /\ reader[s] = "exited" /\ writer[s] = "exited"

\* Once the handler has given a connection up, its request's goroutine and both
\* copies end: closing the body wakes the one, done the other.
ReleasedAfterRelay == \A s \in Streams : relay[s] = "ended" ~> (Released(s) \/ crashed)

\* "Write implements net.Conn.Write()" (protocol/http/conn.go:33), and line 35
\* answers a closed connection with an error: a Close meanwhile is no panic.
NoCrash == ~crashed
=============================================================================
