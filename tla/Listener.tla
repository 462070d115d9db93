------------------------------- MODULE Listener -------------------------------
(***************************************************************************)
(* From the network to the handler: the accept loops of every mode, the    *)
(* bounded channel ConnChan between them and the handler's accept loop,    *)
(* and the handler's goroutines (src/gost/proxy/tcp.go, server/*.go,       *)
(* src/handler.go:26-69).                                                  *)
(*                                                                         *)
(* A link is what the transport accepts: a TCP connection, a QUIC session, *)
(* an HTTP connection.  A conn is what the handler relays: the link itself *)
(* (tcp, tls), the websocket it was upgraded to, one of its smux or QUIC   *)
(* streams, or one of its requests (h2, grpc).  mode is the family of      *)
(* options.Mode:                                                           *)
(*   "direct"   tcp, tls       the accept loop offers the link             *)
(*   "upgrade"  ws, wss        the request's goroutine offers, and returns *)
(*   "request"  h2, grpc       it offers, and waits for conn.Done()        *)
(*   "mux"      mtls,mws,mwss  ServeMux offers the streams of the link     *)
(*   "quic"     quic           acceptStreams does                          *)
(***************************************************************************)
EXTENDS Integers, Sequences, FiniteSets

CONSTANTS
  Conns,     \* connections that peers open
  Links,     \* links that carry them
  Carrier,   \* the link of each connection
  QueueCap,  \* capacity of ConnChan, 1024 in the code
  Modes      \* the families of modes that are considered

ASSUME CarrierAssumption == Carrier \in [Conns -> Links]
ASSUME QueueCapAssumption == QueueCap \in Nat
ASSUME ModesAssumption == Modes \subseteq {"direct", "upgrade", "request", "mux", "quic"}

VARIABLES
  mode,      \* the family of options.Mode
  listener,  \* the transport's listener: "open", "closed"
  done,      \* ctx is cancelled
  serve,     \* the accept loop: "accept", "offer", "error", "stopped"
  link,      \* "none", "backlog" (not accepted yet), "up", "down"
  session,   \* the goroutine that accepts the streams of a link
  conn,      \* who has each connection
  queue,     \* ConnChan
  request,   \* the goroutine of an HTTP request
  closes     \* history: how often Close was called on each connection

netVars == <<listener, done, link>>
loopVars == <<serve, session, request>>
connVars == <<conn, queue, closes>>
vars == <<mode, netVars, loopVars, connVars>>

Streamed == mode \in {"mux", "quic"}
Requests == mode \in {"upgrade", "request"}

-----------------------------------------------------------------------------
(* Peers and the network *)

Connect(l) ==
  /\ listener = "open"
  /\ link[l] = "none"
  /\ link' = [link EXCEPT ![l] = "backlog"]
  /\ UNCHANGED <<mode, listener, done, loopVars, connVars>>

\* A stream or a request arrives over its link.  A websocket takes it over.
Open(c) ==
  /\ mode # "direct"
  /\ conn[c] = "none"
  /\ link[Carrier[c]] = "up"
  /\ mode = "upgrade" => \A b \in Conns : Carrier[b] = Carrier[c] => conn[b] = "none"
  /\ conn' = [conn EXCEPT ![c] = "arrived"]
  /\ UNCHANGED <<mode, netVars, loopVars, queue, closes>>

LinkDown(l) ==
  /\ link[l] = "up"
  /\ link' = [link EXCEPT ![l] = "down"]
  /\ UNCHANGED <<mode, listener, done, loopVars, connVars>>

-----------------------------------------------------------------------------
(* The accept loop: KeepAccepting, KeepMuxAccepting, QUICListener.Serve, and *)
(* that of net/http and grpc.                                                *)

\* In the direct modes the loop itself offers what it accepted.
AcceptDirect(c) ==
  LET l == Carrier[c] IN
  /\ mode = "direct"
  /\ serve = "accept" /\ listener = "open"
  /\ link[l] = "backlog"
  /\ link' = [link EXCEPT ![l] = "up"]
  /\ conn' = [conn EXCEPT ![c] = "offered"]
  /\ serve' = "offer"
  /\ UNCHANGED <<mode, listener, done, session, request, queue, closes>>

AcceptLink(l) ==
  /\ mode # "direct"
  /\ serve = "accept" /\ listener = "open"
  /\ link[l] = "backlog"
  /\ link' = [link EXCEPT ![l] = "up"]
  /\ session' = [session EXCEPT ![l] = IF Streamed THEN "accept" ELSE "none"]
  /\ UNCHANGED <<mode, listener, done, serve, request, connVars>>

\* mws, mwss: a request for another path, or one that is not upgraded.
RejectLink(l) ==
  /\ mode = "mux"
  /\ serve = "accept" /\ listener = "open"
  /\ link[l] = "backlog"
  /\ link' = [link EXCEPT ![l] = "down"]
  /\ UNCHANGED <<mode, listener, done, loopVars, connVars>>

\* Or one whose early data cannot be decoded: it is upgraded, and its websocket
\* stays open with no goroutine behind it.  This program's client sends no such.
OrphanLink(l) ==
  /\ mode = "mux"
  /\ serve = "accept" /\ listener = "open"
  /\ link[l] = "backlog"
  /\ link' = [link EXCEPT ![l] = "up"]
  /\ session' = [session EXCEPT ![l] = "orphan"]
  /\ UNCHANGED <<mode, listener, done, serve, request, connVars>>

\* An error other than the listener's end; net/http and grpc wait and go on.
AcceptErr ==
  /\ ~Requests
  /\ serve = "accept" /\ listener = "open"
  /\ serve' = "error"
  /\ UNCHANGED <<mode, netVars, session, request, connVars>>

\* errors.IsClosed(err) ends the loops, but QUICListener.Serve does not ask.
AcceptClosed ==
  /\ serve = "accept" /\ listener = "closed"
  /\ serve' = IF mode = "quic" THEN "error" ELSE "stopped"
  /\ UNCHANGED <<mode, netVars, session, request, connVars>>

CheckContextReturns ==
  /\ serve = "error"
  /\ serve' = "stopped"
  /\ UNCHANGED <<mode, netVars, session, request, connVars>>

\* After any other error the loop goes on until the context is cancelled.
CheckContext ==
  /\ serve = "error"
  /\ serve' = IF done THEN "stopped" ELSE "accept"
  /\ UNCHANGED <<mode, netVars, session, request, connVars>>

-----------------------------------------------------------------------------
(* ServeMux and acceptStreams; the goroutine of an HTTP request *)

AcceptStream(c) ==
  LET l == Carrier[c] IN
  /\ Streamed
  /\ session[l] = "accept" /\ link[l] = "up"
  /\ conn[c] = "arrived"
  /\ conn' = [conn EXCEPT ![c] = "offered"]
  /\ session' = [session EXCEPT ![l] = "offer"]
  /\ UNCHANGED <<mode, netVars, serve, request, queue, closes>>

\* The transport of the session is gone; its goroutine closes it and returns.
SessionEnds(l) ==
  /\ session[l] = "accept" /\ link[l] = "down"
  /\ session' = [session EXCEPT ![l] = "stopped"]
  /\ UNCHANGED <<mode, netVars, serve, request, connVars>>

HandleRequest(c) ==
  /\ Requests
  /\ conn[c] = "arrived" /\ link[Carrier[c]] = "up"
  /\ conn' = [conn EXCEPT ![c] = "offered"]
  /\ request' = [request EXCEPT ![c] = "offer"]
  /\ UNCHANGED <<mode, netVars, serve, session, queue, closes>>

\* Another path than l.path, or no upgrade: no connection comes of it.
RejectRequest(c) ==
  /\ Requests
  /\ conn[c] = "arrived" /\ link[Carrier[c]] = "up"
  /\ conn' = [conn EXCEPT ![c] = "rejected"]
  /\ request' = [request EXCEPT ![c] = "returned"]
  /\ UNCHANGED <<mode, netVars, serve, session, queue, closes>>

-----------------------------------------------------------------------------
(* select { case connChan <- conn: default: conn.Close() } *)

HasRoomOffByOne == Len(queue) <= QueueCap
HasRoom == Len(queue) < QueueCap

ContinueWithoutWait(c) ==
  /\ serve' = IF mode = "direct" THEN "accept" ELSE serve
  /\ session' = IF Streamed THEN [session EXCEPT ![Carrier[c]] = "accept"] ELSE session
  /\ request' = IF Requests THEN [request EXCEPT ![c] = "returned"] ELSE request

\* The goroutine that offered goes on; serveHTTP and Tun wait for conn.Done().
Continue(c) ==
  /\ serve' = IF mode = "direct" THEN "accept" ELSE serve
  /\ session' = IF Streamed THEN [session EXCEPT ![Carrier[c]] = "accept"] ELSE session
  /\ request' = CASE mode = "request" -> [request EXCEPT ![c] = "wait"]
                  [] mode = "upgrade" -> [request EXCEPT ![c] = "returned"]
                  [] OTHER -> request

Enqueue(c) ==
  /\ conn[c] = "offered"
  /\ HasRoom
  /\ queue' = Append(queue, c)
  /\ conn' = [conn EXCEPT ![c] = "queued"]
  /\ Continue(c)
  /\ UNCHANGED <<mode, netVars, closes>>

RefuseForgetsClose(c) ==
  /\ conn[c] = "offered"
  /\ ~HasRoom
  /\ conn' = [conn EXCEPT ![c] = "closed"]
  /\ Continue(c)
  /\ UNCHANGED <<mode, netVars, queue, closes>>

Refuse(c) ==
  /\ conn[c] = "offered"
  /\ ~HasRoom
  /\ conn' = [conn EXCEPT ![c] = "closed"]
  /\ closes' = [closes EXCEPT ![c] = @ + 1]
  /\ Continue(c)
  /\ UNCHANGED <<mode, netVars, queue>>

\* <-conn.Done()
RequestReturns(c) ==
  /\ request[c] = "wait"
  /\ closes[c] > 0
  /\ request' = [request EXCEPT ![c] = "returned"]
  /\ UNCHANGED <<mode, netVars, serve, session, connVars>>

-----------------------------------------------------------------------------
(* The handler *)

TakeInline ==
  /\ queue # <<>>
  /\ \A c \in Conns : conn[c] # "handled"
  /\ queue' = Tail(queue)
  /\ conn' = [conn EXCEPT ![Head(queue)] = "handled"]
  /\ UNCHANGED <<mode, netVars, loopVars, closes>>

\* AcceptConn returns and a goroutine is started for the connection.  AcceptConn
\* reports no error, so this loop never looks at ctx and never ends.
Take ==
  /\ queue # <<>>
  /\ queue' = Tail(queue)
  /\ conn' = [conn EXCEPT ![Head(queue)] = "handled"]
  /\ UNCHANGED <<mode, netVars, loopVars, closes>>

\* The goroutine ends, after its dial failed or its relay ended: inbound.Close().
RelayEnds(c) ==
  /\ conn[c] = "handled"
  /\ conn' = [conn EXCEPT ![c] = "closed"]
  /\ closes' = [closes EXCEPT ![c] = @ + 1]
  /\ UNCHANGED <<mode, netVars, loopVars, queue>>

-----------------------------------------------------------------------------
(* main, when a signal comes *)

Cancel ==
  /\ ~done
  /\ done' = TRUE
  /\ UNCHANGED <<mode, listener, link, loopVars, connVars>>

CloseUncancelled ==
  /\ listener = "open"
  /\ listener' = "closed"
  /\ link' = [l \in Links |-> IF link[l] = "backlog" THEN "down" ELSE link[l]]
  /\ UNCHANGED <<mode, done, loopVars, connVars>>

\* What was not accepted is reset; quic.Listen's listener takes its sessions along.
CloseListener ==
  /\ done /\ listener = "open"
  /\ listener' = "closed"
  /\ link' = [l \in Links |->
                IF link[l] = "backlog" \/ (mode = "quic" /\ link[l] = "up") THEN "down" ELSE link[l]]
  /\ UNCHANGED <<mode, done, loopVars, connVars>>

-----------------------------------------------------------------------------
Init ==
  /\ mode \in Modes
  /\ listener = "open"
  /\ done = FALSE
  /\ serve = "accept"
  /\ link = [l \in Links |-> "none"]
  /\ session = [l \in Links |-> "none"]
  /\ conn = [c \in Conns |-> "none"]
  /\ queue = <<>>
  /\ request = [c \in Conns |-> "none"]
  /\ closes = [c \in Conns |-> 0]

Accept ==
  \/ \E c \in Conns : AcceptDirect(c)
  \/ \E l \in Links : AcceptLink(l) \/ RejectLink(l) \/ OrphanLink(l)
SessionStep(l) == (\E c \in Conns : Carrier[c] = l /\ AcceptStream(c)) \/ SessionEnds(l)
Offer(c) == Enqueue(c) \/ Refuse(c)
RequestStep(c) == HandleRequest(c) \/ RejectRequest(c)

Next ==
  \/ Accept \/ AcceptErr \/ AcceptClosed \/ CheckContext \/ Take \/ Cancel \/ CloseListener
  \/ \E l \in Links : Connect(l) \/ LinkDown(l) \/ SessionStep(l)
  \/ \E c \in Conns : Open(c) \/ RequestStep(c) \/ Offer(c) \/ RequestReturns(c) \/ RelayEnds(c)

Spec == Init /\ [][Next]_vars

(***************************************************************************)
(* Goroutines run on.  No peer has to connect or to hang up, no dial to    *)
(* return and no relay to end.  Accept may fail now and then but not       *)
(* forever, so it is strongly fair.                                        *)
(***************************************************************************)
Fairness ==
  /\ SF_vars(Accept) /\ WF_vars(AcceptClosed \/ CheckContext) /\ WF_vars(Take)
  /\ \A l \in Links : WF_vars(SessionStep(l))
  /\ \A c \in Conns : WF_vars(RequestStep(c)) /\ WF_vars(Offer(c)) /\ WF_vars(RequestReturns(c))

FairSpec == Spec /\ Fairness

-----------------------------------------------------------------------------
(* Properties *)

TypeOK ==
  /\ mode \in Modes
  /\ listener \in {"open", "closed"}
  /\ done \in BOOLEAN
  /\ serve \in {"accept", "offer", "error", "stopped"}
  /\ link \in [Links -> {"none", "backlog", "up", "down"}]
  /\ session \in [Links -> {"none", "orphan", "accept", "offer", "stopped"}]
  /\ conn \in [Conns -> {"none", "arrived", "offered", "queued", "handled", "rejected", "closed"}]
  /\ queue \in Seq(Conns) /\ Len(queue) <= QueueCap
  /\ request \in [Conns -> {"none", "offer", "wait", "returned"}]
  /\ closes \in [Conns -> Nat]

\* A connection is closed exactly once, by the goroutine that gives it up last:
\* a second Close of an HttpConnection or a GunConnection panics, and one that
\* is never closed keeps its peer and its request waiting.
ClosedOnce == \A c \in Conns : closes[c] = IF conn[c] = "closed" THEN 1 ELSE 0

\* A connection that is queued or handled has its request's goroutine waiting
\* behind it (h2, grpc): when that returns, the server ends the stream.
RequestOutlivesConn ==
  \A c \in Conns : mode = "request" /\ conn[c] \in {"queued", "handled"} => request[c] = "wait"

\* No accept loop spins on a closed listener: QUICListener.Serve leaves on the
\* context only, which main cancels before it closes the listener.
NoSpinOnClosed == serve = "error" /\ listener = "closed" => done

\* A connection that a peer opened is handled or refused as long as its link
\* lives, however many dials and relays hang, but not over an orphaned link.
Served ==
  \A c \in Conns :
    conn[c] \in {"arrived", "offered", "queued"}
      ~> \/ conn[c] \in {"handled", "rejected", "closed"}
         \/ conn[c] = "arrived" /\ (link[Carrier[c]] = "down" \/ session[Carrier[c]] = "orphan")

\* Until main cancels the context, the accept loop comes back to every link that
\* waits, full queue or not.
LinksAccepted == \A l \in Links : link[l] = "backlog" ~> (link[l] # "backlog" \/ done)

\* The goroutine of a request returns once nobody holds its connection.
RequestsEnd ==
  \A c \in Conns :
    (request[c] = "wait" /\ conn[c] \notin {"queued", "handled"}) ~> request[c] = "returned"
=============================================================================
