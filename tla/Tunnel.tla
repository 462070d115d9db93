-------------------------------- MODULE Tunnel --------------------------------
(***************************************************************************)
(* One tunnelled connection, from ss-local (node 0) through the client's   *)
(* plugin (node 1) and the server's plugin (node 2) to ss-server (node 3): *)
(* the goroutines of src/handler.go:40-64 in both plugins and the three    *)
(* connections between the nodes.  Wire w joins node w-1 to node w.        *)
(*                                                                         *)
(* Direction "up" is towards ss-server.  An end of a wire is named by the  *)
(* direction in which it sends, so the end of node w-1 is "up".            *)
(*                                                                         *)
(* What Close does differs between the modes' connections and is what this *)
(* module is about; kind is that of wire 2:                                *)
(*   "conn"  tls, ws, wss (and tcp): a TCP connection below                *)
(*   "mux"   mtls, mws, mwss: a smux stream                                *)
(*   "h2"    HttpConnection over a request and its response                *)
(*   "gun"   GunConnection over an RPC                                     *)
(*   "quic"  interConn over a QUIC stream                                  *)
(***************************************************************************)
EXTENDS Integers, Sequences

CONSTANTS
  Kinds,      \* the kinds of wire 2 that are considered
  MaxChunks,  \* bound: the most chunks that a program sends
  Loads,      \* bound: the chunks each program may send, and the wires that may fail
  Window      \* chunks that a wire holds before a writer must wait

Directions == {"up", "down"}
Wires == 1..3
Plugins == 1..2

ASSUME KindsAssumption == Kinds \subseteq {"conn", "mux", "h2", "gun", "quic"}
ASSUME BoundsAssumption ==
  /\ MaxChunks \in Nat /\ Window \in Nat \ {0}
  /\ Loads \subseteq [chunks : [Directions -> 0..MaxChunks], breakable : SUBSET Wires]

VARIABLES
  kind,      \* of wire 2, as options.Mode selects it
  load,      \* the member of Loads that bounds this behaviour
  sent,      \* chunks that each program has sent
  finished,  \* it has shut down its sending side
  recvd,     \* chunks that the program at the end of the direction received
  over,      \* and whether it saw the end
  wire,      \* "none", "up", "broken"
  closed,    \* Close() was called on an end of a wire, or its program left
  inflight,  \* chunks on a wire
  relay,     \* the handler goroutine of each plugin
  copier,    \* its two io.Copy goroutines
  buf,       \* what each of them has read and not written
  errs       \* len(errChan)

appVars == <<sent, finished, recvd, over>>
wireVars == <<wire, closed, inflight>>
relayVars == <<relay, copier, buf, errs>>
vars == <<kind, load, appVars, wireVars, relayVars>>

-----------------------------------------------------------------------------
(* Connections *)

Opposite(d) == IF d = "up" THEN "down" ELSE "up"
First(d) == IF d = "up" THEN 1 ELSE 3
Last(d) == First(Opposite(d))

\* The wire from which plugin n copies in direction d, and that to which.
From(n, d) == IF d = "up" THEN n ELSE n + 1
To(n, d) == IF d = "up" THEN n + 1 ELSE n

Kind(w) == IF w = 2 THEN kind ELSE "conn"

\* GunConnection.Close only closes the channel done; the RPC ends because the
\* server's Tun returns on it.  Nothing reads the client's.
GunClient(w, e) == Kind(w) = "gun" /\ e = "up"

\* Close ends the stream that the peer reads.
Signals(w, e) == ~GunClient(w, e)
\* It makes the end's own reads fail, but interConn closes the sending side only.
StopsReads(w, e) == ~GunClient(w, e) /\ Kind(w) # "quic"
StopsWrites(w, e) == ~GunClient(w, e)
\* It wakes a write that waits for the window; smux waits for the session's
\* transport then, not for the stream.
WakesWriter(w, e) == ~GunClient(w, e) /\ Kind(w) \notin {"mux", "quic"}

\* The end e reads no more, what it is sent is discarded.
Deaf(w, e) == closed[w][e] /\ StopsReads(w, e)

\* The stream in direction d on w was ended by its sender.
EndsAt(w, d) ==
  \/ closed[w][d] /\ Signals(w, d)
  \/ w = First(d) /\ finished[d]

\* Closing with data unread makes TCP reset the connection, which may destroy
\* what the peer has not read; chainedClosable closes the pipe's reader first,
\* for which http2 resets the stream.
MayReset(w, e) ==
  \/ Kind(w) = "conn" /\ inflight[w][Opposite(e)] # <<>>
  \/ Kind(w) = "h2"

Close(w, e) ==
  /\ closed' = [closed EXCEPT ![w][e] = TRUE]
  /\ wire' \in {wire} \cup (IF MayReset(w, e) /\ wire[w] = "up"
                              THEN {[wire EXCEPT ![w] = "broken"]} ELSE {})

\* A chunk is put on the wire in direction d: it is queued if the peer reads,
\* else it is lost, and a TCP peer answers with a reset.
Put(w, d, c) ==
  IF Deaf(w, Opposite(d))
    THEN /\ UNCHANGED inflight
         /\ wire' \in {wire} \cup (IF Kind(w) = "conn" THEN {[wire EXCEPT ![w] = "broken"]} ELSE {})
    ELSE /\ Len(inflight[w][d]) < Window
         /\ inflight' = [inflight EXCEPT ![w][d] = Append(@, c)]
         /\ UNCHANGED wire

-----------------------------------------------------------------------------
(* The programs at the ends *)

Send(d) ==
  /\ ~finished[d] /\ ~closed[First(d)][d]
  /\ wire[First(d)] = "up"
  /\ sent[d] < load.chunks[d]
  /\ sent' = [sent EXCEPT ![d] = @ + 1]
  /\ Put(First(d), d, sent[d] + 1)
  /\ UNCHANGED <<kind, load, finished, recvd, over, closed, relayVars>>

\* Half-close: the program sends no more but still receives.
Finish(d) ==
  /\ ~finished[d]
  /\ wire[First(d)] # "none"
  /\ finished' = [finished EXCEPT ![d] = TRUE]
  /\ UNCHANGED <<kind, load, sent, recvd, over, wireVars, relayVars>>

\* The program that sends in direction d closes its socket, or dies.
Leave(d) ==
  /\ wire[First(d)] # "none"
  /\ ~closed[First(d)][d]
  /\ finished' = [finished EXCEPT ![d] = TRUE]
  /\ Close(First(d), d)
  /\ UNCHANGED <<kind, load, sent, recvd, over, inflight, relayVars>>

Left(d) == closed[First(d)][d]

Receive(d) ==
  LET w == Last(d) IN
  /\ ~over[d] /\ ~Left(Opposite(d))
  /\ inflight[w][d] # <<>>
  /\ recvd' = [recvd EXCEPT ![d] = Append(@, Head(inflight[w][d]))]
  /\ inflight' = [inflight EXCEPT ![w][d] = Tail(@)]
  /\ UNCHANGED <<kind, load, sent, finished, over, wire, closed, relayVars>>

\* Its read returns end-of-file or an error.
SeeEnd(d) ==
  LET w == Last(d) IN
  /\ ~over[d] /\ ~Left(Opposite(d))
  /\ wire[w] = "broken" \/ (EndsAt(w, d) /\ inflight[w][d] = <<>>)
  /\ over' = [over EXCEPT ![d] = TRUE]
  /\ UNCHANGED <<kind, load, sent, finished, recvd, wireVars, relayVars>>

-----------------------------------------------------------------------------
(* The handler goroutine *)

\* The connection of wire n comes out of AcceptConn.
Accept(n) ==
  /\ relay[n] = "none"
  /\ wire[n] # "none"
  /\ relay' = [relay EXCEPT ![n] = "dial"]
  /\ UNCHANGED <<kind, load, appVars, wireVars, copier, buf, errs>>

\* Or the listener's queue was full.
Refuse(n) ==
  /\ relay[n] = "none"
  /\ wire[n] # "none"
  /\ relay' = [relay EXCEPT ![n] = "done"]
  /\ Close(n, "down")
  /\ UNCHANGED <<kind, load, appVars, inflight, copier, buf, errs>>

DialErr(n) ==
  /\ relay[n] = "dial"
  /\ relay' = [relay EXCEPT ![n] = "closeIn"]
  /\ UNCHANGED <<kind, load, appVars, wireVars, copier, buf, errs>>

DialOK(n) ==
  /\ relay[n] = "dial"
  /\ wire' = [wire EXCEPT ![n + 1] = "up"]
  /\ relay' = [relay EXCEPT ![n] = "wait"]
  /\ copier' = [copier EXCEPT ![n] = [d \in Directions |-> "read"]]
  /\ UNCHANGED <<kind, load, appVars, closed, inflight, buf, errs>>

\* err = <-errChan
FirstCopyEnds(n) ==
  /\ relay[n] = "wait"
  /\ errs[n] > 0
  /\ errs' = [errs EXCEPT ![n] = @ - 1]
  /\ relay' = [relay EXCEPT ![n] = "closeOut"]
  /\ UNCHANGED <<kind, load, appVars, wireVars, copier, buf>>

CloseOutboundNever(n) ==
  /\ relay[n] = "closeOut"
  /\ relay' = [relay EXCEPT ![n] = "closeIn"]
  /\ UNCHANGED <<kind, load, appVars, wireVars, copier, buf, errs>>

\* The deferred calls run last to first: outbound.Close(), inbound.Close().
CloseOutbound(n) ==
  /\ relay[n] = "closeOut"
  /\ Close(n + 1, "up")
  /\ relay' = [relay EXCEPT ![n] = "closeIn"]
  /\ UNCHANGED <<kind, load, appVars, inflight, copier, buf, errs>>

CloseInbound(n) ==
  /\ relay[n] = "closeIn"
  /\ Close(n, "down")
  /\ relay' = [relay EXCEPT ![n] = "done"]
  /\ UNCHANGED <<kind, load, appVars, inflight, copier, buf, errs>>

-----------------------------------------------------------------------------
(* io.Copy in direction d *)

\* A closed end reads nothing, but smux still hands out what it had buffered.
CanRead(w, d) == ~Deaf(w, Opposite(d)) \/ Kind(w) = "mux"

Read(n, d) ==
  LET w == From(n, d) IN
  /\ copier[n][d] = "read"
  /\ inflight[w][d] # <<>>
  /\ CanRead(w, d)
  /\ buf' = [buf EXCEPT ![n][d] = <<Head(inflight[w][d])>>]
  /\ inflight' = [inflight EXCEPT ![w][d] = Tail(@)]
  /\ copier' = [copier EXCEPT ![n][d] = "write"]
  /\ UNCHANGED <<kind, load, appVars, wire, closed, relay, errs>>

ReadEndUnread(n, d) ==
  LET w == From(n, d) IN
  /\ copier[n][d] = "read"
  /\ wire[w] = "broken" \/ Deaf(w, Opposite(d)) \/ EndsAt(w, d)
  /\ copier' = [copier EXCEPT ![n][d] = "send"]
  /\ UNCHANGED <<kind, load, appVars, wireVars, relay, buf, errs>>

\* End-of-file or an error.
ReadEnd(n, d) ==
  LET w == From(n, d) IN
  /\ copier[n][d] = "read"
  /\ wire[w] = "broken" \/ Deaf(w, Opposite(d)) \/ (EndsAt(w, d) /\ inflight[w][d] = <<>>)
  /\ copier' = [copier EXCEPT ![n][d] = "send"]
  /\ UNCHANGED <<kind, load, appVars, wireVars, relay, buf, errs>>

Write(n, d) ==
  LET w == To(n, d) IN
  /\ copier[n][d] \in {"write", "blocked"}
  /\ wire[w] = "up"
  /\ closed[w][d] => ~StopsWrites(w, d) \/ (copier[n][d] = "blocked" /\ ~WakesWriter(w, d))
  /\ Put(w, d, buf[n][d][1])
  /\ buf' = [buf EXCEPT ![n][d] = <<>>]
  /\ copier' = [copier EXCEPT ![n][d] = "read"]
  /\ UNCHANGED <<kind, load, appVars, closed, relay, errs>>

\* The write waits for the peer to read.
Block(n, d) ==
  LET w == To(n, d) IN
  /\ copier[n][d] = "write"
  /\ wire[w] = "up" /\ ~closed[w][d] /\ ~Deaf(w, Opposite(d))
  /\ Len(inflight[w][d]) >= Window
  /\ copier' = [copier EXCEPT ![n][d] = "blocked"]
  /\ UNCHANGED <<kind, load, appVars, wireVars, relay, buf, errs>>

WriteErrKeepsChunk(n, d) ==
  /\ copier[n][d] \in {"write", "blocked"}
  /\ wire[To(n, d)] = "broken"
  /\ copier' = [copier EXCEPT ![n][d] = "send"]
  /\ UNCHANGED <<kind, load, appVars, wireVars, relay, buf, errs>>

WriteErr(n, d) ==
  LET w == To(n, d) IN
  /\ \/ copier[n][d] = "write" /\ closed[w][d] /\ StopsWrites(w, d)
     \/ copier[n][d] = "blocked" /\ closed[w][d] /\ WakesWriter(w, d)
     \/ copier[n][d] \in {"write", "blocked"} /\ wire[w] = "broken"
     \/ copier[n][d] \in {"write", "blocked"} /\ Deaf(w, Opposite(d)) /\ Kind(w) # "mux"
  /\ copier' = [copier EXCEPT ![n][d] = "send"]
  /\ buf' = [buf EXCEPT ![n][d] = <<>>]
  /\ UNCHANGED <<kind, load, appVars, wireVars, relay, errs>>

SendErrUnbuffered(n, d) ==
  /\ copier[n][d] = "send"
  /\ errs[n] < 1 /\ relay[n] = "wait"
  /\ errs' = [errs EXCEPT ![n] = @ + 1]
  /\ copier' = [copier EXCEPT ![n][d] = "exited"]
  /\ UNCHANGED <<kind, load, appVars, wireVars, relay, buf>>

\* errChan <- err, into a buffer of two.
SendErr(n, d) ==
  /\ copier[n][d] = "send"
  /\ errs[n] < 2
  /\ errs' = [errs EXCEPT ![n] = @ + 1]
  /\ copier' = [copier EXCEPT ![n][d] = "exited"]
  /\ UNCHANGED <<kind, load, appVars, wireVars, relay, buf>>

\* The network between two nodes fails.
Break(w) ==
  /\ wire[w] = "up"
  /\ wire' = [wire EXCEPT ![w] = "broken"]
  /\ UNCHANGED <<kind, load, appVars, closed, inflight, relayVars>>

-----------------------------------------------------------------------------
Init ==
  /\ kind \in Kinds /\ load \in Loads
  /\ sent = [d \in Directions |-> 0]
  /\ finished = [d \in Directions |-> FALSE]
  /\ recvd = [d \in Directions |-> <<>>]
  /\ over = [d \in Directions |-> FALSE]
  /\ wire = [w \in Wires |-> IF w = 1 THEN "up" ELSE "none"]
  /\ closed = [w \in Wires |-> [d \in Directions |-> FALSE]]
  /\ inflight = [w \in Wires |-> [d \in Directions |-> <<>>]]
  /\ relay = [n \in Plugins |-> "none"]
  /\ copier = [n \in Plugins |-> [d \in Directions |-> "none"]]
  /\ buf = [n \in Plugins |-> [d \in Directions |-> <<>>]]
  /\ errs = [n \in Plugins |-> 0]

Handler(n) == FirstCopyEnds(n) \/ CloseOutbound(n) \/ CloseInbound(n)
Copy(n, d) == Read(n, d) \/ ReadEnd(n, d) \/ Write(n, d) \/ WriteErr(n, d) \/ SendErr(n, d)
AppReads(d) == Receive(d) \/ SeeEnd(d)

Next ==
  \/ \E d \in Directions : Send(d) \/ Finish(d) \/ Leave(d) \/ AppReads(d)
  \/ \E n \in Plugins : Accept(n) \/ Refuse(n) \/ DialErr(n) \/ DialOK(n) \/ Handler(n)
  \/ \E n \in Plugins, d \in Directions : Copy(n, d) \/ Block(n, d)
  \/ \E w \in load.breakable : Break(w)

Spec == Init /\ [][Next]_vars

(***************************************************************************)
(* Goroutines run on, and the programs read what arrives.  The server's    *)
(* dial is a TCP dial, whose timeout is 16 seconds (gost/proxy/tcp.go:81); *)
(* the client's includes the mode's handshake and may stall.  Nothing      *)
(* makes a program send, finish or leave, or a network fail.               *)
(***************************************************************************)
Fairness ==
  /\ \A n \in Plugins :
       /\ WF_vars(Accept(n) \/ Refuse(n)) /\ WF_vars(Handler(n))
       /\ \A d \in Directions : WF_vars(Copy(n, d))
  /\ WF_vars(DialErr(2) \/ DialOK(2))
  /\ \A d \in Directions : WF_vars(AppReads(d))

FairSpec == Spec /\ Fairness

-----------------------------------------------------------------------------
(* Properties *)

TypeOK ==
  /\ kind \in Kinds /\ load \in Loads
  /\ sent \in [Directions -> 0..MaxChunks]
  /\ finished \in [Directions -> BOOLEAN]
  /\ recvd \in [Directions -> Seq(1..MaxChunks)]
  /\ over \in [Directions -> BOOLEAN]
  /\ wire \in [Wires -> {"none", "up", "broken"}]
  /\ closed \in [Wires -> [Directions -> BOOLEAN]]
  /\ inflight \in [Wires -> [Directions -> Seq(1..MaxChunks)]]
  /\ \A w \in Wires, d \in Directions : Len(inflight[w][d]) <= Window
  /\ relay \in [Plugins -> {"none", "dial", "wait", "closeOut", "closeIn", "done"}]
  /\ copier \in [Plugins -> [Directions -> {"none", "read", "write", "blocked", "send", "exited"}]]
  /\ buf \in [Plugins -> [Directions -> Seq(1..MaxChunks)]]
  /\ \A n \in Plugins, d \in Directions :
       Len(buf[n][d]) = IF copier[n][d] \in {"write", "blocked"} THEN 1 ELSE 0
  /\ errs \in [Plugins -> 0..2]

\* Something other than the sender's shutdown may end direction d: a wire
\* failed, a plugin could not take or dial the connection, a program left, or
\* the other direction is in use, for whose end the plugins wait as well.
Disturbed ==
  [d \in Directions |->
    \/ \E w \in Wires : wire[w] = "broken"
    \/ \E n \in Plugins : relay[n] \in {"closeIn", "done"} /\ wire[n + 1] = "none"
    \/ Left("up") \/ Left("down")
    \/ sent[Opposite(d)] > 0 \/ finished[Opposite(d)]]

\* Each direction is a stream: in order, nothing twice, nothing after the end,
\* and an undisturbed direction ends only when all of it has arrived.
Streams == INSTANCE Duplex WITH disturbed <- Disturbed
ImplementsDuplex == Streams!Spec

\* When the handler of a plugin has returned, both its copies end: Close wakes
\* them, or the peer lets a blocked write through, and errChan has room for both.
\* Over a QUIC stream and a client's RPC Close wakes nobody.
CopiesEnd ==
  \A n \in Plugins, d \in Directions :
    (relay[n] = "done" /\ kind \notin {"quic", "gun"}) ~> copier[n][d] \in {"none", "exited"}

\* When a program leaves, every plugin gives its connection up, except one
\* whose dial has not returned.
LeaveSpreads ==
  \A d \in Directions : Left(d) ~> [](\/ relay[1] = "dial"
                                 \/ \A n \in Plugins : wire[n] # "none" => relay[n] = "done")

\* GunConnection.Close "implements net.Conn.Close()" (gost/protocol/gun/conn.go:78),
\* which unblocks the connection's reads and writes: the copies over it end.
CloseUnblocks ==
  \A d \in Directions : closed[2]["up"] ~> copier[1][d] \in {"none", "exited"}
=============================================================================
