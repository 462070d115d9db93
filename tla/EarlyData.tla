------------------------------ MODULE EarlyData ------------------------------
(***************************************************************************)
(* The modes ws and wss with the option "ed" (src/gost/proxy/client/ws.go, *)
(* server/ws.go, protocol/websocket/conn.go): delayDialConn dials no       *)
(* earlier than the first Write, and sends what that Write holds inside    *)
(* the request of the websocket handshake if it is at most ed bytes long.  *)
(* The server hands these bytes out before the first message.              *)
(*                                                                         *)
(* One connection: the client's handler goroutine with its two copies, the *)
(* delayDialConn that they share without a lock, and the server's reads.   *)
(* Bytes are named by their position in what ss-local sends.               *)
(***************************************************************************)
EXTENDS Integers, Sequences

CONSTANTS
  Ed,          \* the option "ed", in bytes
  ChunkSizes,  \* bytes that one Read of the inbound connection may return
  MaxBytes,    \* bound: bytes that ss-local sends
  ReadSize     \* length of the buffer of the server's copy

ASSUME SizesAssumption ==
  /\ Ed \in Nat \ {0} /\ ReadSize \in Nat \ {0}
  /\ MaxBytes \in Nat /\ ChunkSizes \subseteq 1..MaxBytes

VARIABLES
  sent,      \* bytes that the copy up has read from ss-local
  finished,  \* ss-local has shut down or left
  up,        \* the copy to the server and where it is in delayDialConn.Write
  b,         \* what it writes
  early,     \* ed, the variable of Write: the bytes that go into the header
  down,      \* the copy from the server and where it is in delayDialConn.Read
  relay,     \* the handler goroutine
  conn,      \* d.Conn: "nil", or its websocket's state "open", "broken", "closed"
  dialed,    \* the channel d.dialed is closed
  closed,    \* d.closed
  server,    \* its end: "none", "open", "lost" to the client but still read,
             \* "ended" after the client's close, "gone" after a loss
  messages,  \* websocket messages on their way to it
  rb,        \* websocketConn.rb at the server
  out        \* bytes that the server's copy has read

dialVars == <<conn, dialed, closed>>
serverVars == <<server, messages, rb, out>>
vars == <<sent, finished, up, b, early, down, relay, dialVars, serverVars>>

-----------------------------------------------------------------------------
(* The copy from ss-local to the server *)

Positions(i, j) == [k \in 1..(j - i) |-> i + k]

ReadInbound(n) ==
  /\ up = "read"
  /\ ~finished /\ relay # "done"
  /\ sent + n <= MaxBytes
  /\ sent' = sent + n
  /\ b' = Positions(sent, sent + n)
  /\ up' = "call"
  /\ UNCHANGED <<finished, early, down, relay, dialVars, serverVars>>

\* End-of-file, or the inbound connection is closed.
InboundEnds ==
  /\ up = "read"
  /\ finished \/ relay = "done"
  /\ up' = "failed"
  /\ UNCHANGED <<sent, finished, b, early, down, relay, dialVars, serverVars>>

\* Line 105.
WriteClosed ==
  /\ up = "call"
  /\ closed
  /\ up' = "failed"
  /\ b' = <<>>
  /\ UNCHANGED <<sent, finished, early, down, relay, dialVars, serverVars>>

StartDialAnyLength ==
  /\ up = "call"
  /\ ~closed /\ conn = "nil"
  /\ early' = b
  /\ up' = "dialing"
  /\ UNCHANGED <<sent, finished, b, down, relay, dialVars, serverVars>>

\* Lines 109 to 115: the dial starts.
StartDial ==
  /\ up = "call"
  /\ ~closed /\ conn = "nil"
  /\ early' = IF Len(b) > Ed THEN <<>> ELSE b
  /\ up' = "dialing"
  /\ UNCHANGED <<sent, finished, b, down, relay, dialVars, serverVars>>

UseConn ==
  /\ up = "call"
  /\ ~closed /\ conn # "nil"
  /\ up' = "put"
  /\ UNCHANGED <<sent, finished, b, early, down, relay, dialVars, serverVars>>

\* WSListener.Upgrade: the header's bytes become the rb of the new connection.
Upgrade ==
  /\ up = "dialing" /\ server = "none"
  /\ server' = "open"
  /\ rb' = early
  /\ UNCHANGED <<sent, finished, up, b, early, down, relay, dialVars, messages, out>>

\* The dial succeeds, though its websocket may be lost already.
DialOK ==
  /\ up = "dialing" /\ server # "none"
  /\ conn' = IF server = "open" THEN "open" ELSE "broken"
  /\ up' = "dialed"
  /\ UNCHANGED <<sent, finished, b, early, down, relay, dialed, closed, serverVars>>

\* It fails: refused, timed out, or the response is lost.  d.Close() follows.
DialErr ==
  /\ up = "dialing"
  /\ server' = IF server = "gone" THEN "gone" ELSE "lost"
  /\ messages' = <<>>
  /\ closed' = TRUE
  /\ up' = "failed"
  /\ b' = <<>> /\ early' = <<>>
  /\ UNCHANGED <<sent, finished, down, relay, conn, dialed, rb, out>>

AnnounceAndReturn ==
  /\ up = "dialed"
  /\ dialed' = TRUE
  /\ up' = "read"
  /\ early' = <<>> /\ b' = <<>>
  /\ UNCHANGED <<sent, finished, down, relay, conn, closed, serverVars>>

\* close(d.dialed); early data are sent, anything longer is still to be written.
Announce ==
  /\ up = "dialed"
  /\ dialed' = TRUE
  /\ IF early # <<>> THEN up' = "read" /\ b' = <<>>
                     ELSE up' = "put" /\ UNCHANGED b
  /\ early' = <<>>
  /\ UNCHANGED <<sent, finished, down, relay, conn, closed, serverVars>>

\* d.Conn.Write(b): one message.  The transport may still take what it is to lose.
Put ==
  /\ up = "put" /\ conn \in {"open", "broken"}
  /\ messages' = IF server = "open" THEN Append(messages, b) ELSE messages
  /\ up' = "read"
  /\ b' = <<>>
  /\ UNCHANGED <<sent, finished, early, down, relay, dialVars, server, rb, out>>

PutErr ==
  /\ up = "put" /\ conn # "open"
  /\ up' = "failed"
  /\ b' = <<>>
  /\ UNCHANGED <<sent, finished, early, down, relay, dialVars, serverVars>>

-----------------------------------------------------------------------------
(* The copy from the server to ss-local *)

\* <-d.dialed
DialedSeen ==
  /\ down = "wait"
  /\ dialed
  /\ down' = IF closed THEN "ended" ELSE "read"
  /\ UNCHANGED <<sent, finished, up, b, early, relay, dialVars, serverVars>>

\* The websocket ends.
DownEnds ==
  /\ down = "read"
  /\ conn # "open"
  /\ down' = "ended"
  /\ UNCHANGED <<sent, finished, up, b, early, relay, dialVars, serverVars>>

\* The server sends something and the write to ss-local fails.
DownWriteErr ==
  /\ down = "read"
  /\ conn = "open" /\ (finished \/ relay = "done")
  /\ down' = "failed"
  /\ UNCHANGED <<sent, finished, up, b, early, relay, dialVars, serverVars>>

-----------------------------------------------------------------------------
(* The handler goroutine *)

FirstCopyEnds ==
  /\ relay = "wait"
  /\ up = "failed" \/ down \in {"ended", "failed"}
  /\ relay' = "closeOut"
  /\ UNCHANGED <<sent, finished, up, b, early, down, dialVars, serverVars>>

CloseSetsFlagOnly ==
  /\ relay = "closeOut"
  /\ closed' = TRUE
  /\ relay' = "closeIn"
  /\ UNCHANGED <<sent, finished, up, b, early, down, conn, dialed, serverVars>>

\* outbound.Close(), delayDialConn's: d.closed, and d.Conn.Close() if there is one.
Close ==
  /\ relay = "closeOut"
  /\ closed' = TRUE
  /\ conn' = IF conn = "nil" THEN "nil" ELSE "closed"
  /\ relay' = "closeIn"
  /\ UNCHANGED <<sent, finished, up, b, early, down, dialed, serverVars>>

CloseInbound ==
  /\ relay = "closeIn"
  /\ relay' = "done"
  /\ UNCHANGED <<sent, finished, up, b, early, down, dialVars, serverVars>>

-----------------------------------------------------------------------------
(* The server's websocketConn.Read *)

ReadMessageDropsRest ==
  /\ server \in {"open", "lost"}
  /\ rb # <<>> \/ messages # <<>>
  /\ LET data == IF rb = <<>> THEN Head(messages) ELSE rb
         n    == IF Len(data) < ReadSize THEN Len(data) ELSE ReadSize
     IN  /\ out' = out \o SubSeq(data, 1, n)
         /\ rb' = <<>>
  /\ messages' = IF rb = <<>> THEN Tail(messages) ELSE messages
  /\ UNCHANGED <<sent, finished, up, b, early, down, relay, dialVars, server>>

\* A message is fetched only when rb is used up; what does not fit stays there.
ReadMessage ==
  /\ server \in {"open", "lost"}
  /\ rb # <<>> \/ messages # <<>>
  /\ LET data == IF rb = <<>> THEN Head(messages) ELSE rb
         n    == IF Len(data) < ReadSize THEN Len(data) ELSE ReadSize
     IN  /\ out' = out \o SubSeq(data, 1, n)
         /\ rb' = SubSeq(data, n + 1, Len(data))
  /\ messages' = IF rb = <<>> THEN Tail(messages) ELSE messages
  /\ UNCHANGED <<sent, finished, up, b, early, down, relay, dialVars, server>>

\* It has read everything there is and sees the end; its plugin gives up.
ServerSeesEnd ==
  /\ server = "lost" \/ (server = "open" /\ conn = "closed")
  /\ rb = <<>> /\ messages = <<>>
  /\ server' = IF server = "lost" THEN "gone" ELSE "ended"
  /\ UNCHANGED <<sent, finished, up, b, early, down, relay, dialVars, messages, rb, out>>

-----------------------------------------------------------------------------
(* ss-local, the network and the server's side *)

Finish ==
  /\ ~finished
  /\ finished' = TRUE
  /\ UNCHANGED <<sent, up, b, early, down, relay, dialVars, serverVars>>

\* The server ends the connection, or the network fails: some of the messages
\* may have arrived before.
Cut ==
  /\ server = "open"
  /\ server' = "lost"
  /\ \E n \in 0..Len(messages) : messages' = SubSeq(messages, 1, n)
  /\ conn' = IF conn = "open" THEN "broken" ELSE conn
  /\ UNCHANGED <<sent, finished, up, b, early, down, relay, dialed, closed, rb, out>>

-----------------------------------------------------------------------------
Init ==
  /\ sent = 0 /\ finished = FALSE
  /\ up = "read" /\ b = <<>> /\ early = <<>>
  /\ down = "wait"
  /\ relay = "wait"
  /\ conn = "nil" /\ dialed = FALSE /\ closed = FALSE
  /\ server = "none" /\ messages = <<>> /\ rb = <<>> /\ out = <<>>

WriteStep == WriteClosed \/ StartDial \/ UseConn \/ Announce \/ Put \/ PutErr
DialStep == Upgrade \/ DialOK \/ DialErr
CopyUp == InboundEnds \/ WriteStep \/ DialStep
CopyDown == DialedSeen \/ DownEnds
Handler == FirstCopyEnds \/ Close \/ CloseInbound
ServerStep == ReadMessage \/ ServerSeesEnd

Next ==
  \/ \E n \in ChunkSizes : ReadInbound(n)
  \/ CopyUp \/ CopyDown \/ Handler \/ ServerStep
  \/ DownWriteErr \/ Finish \/ Cut

Spec == Init /\ [][Next]_vars

\* Goroutines run on, and the dial returns: a plain websocket's handshake has a
\* timeout of 8 seconds (client/ws.go:153).
FairSpec ==
  Spec /\ WF_vars(CopyUp) /\ WF_vars(CopyDown) /\ WF_vars(Handler) /\ WF_vars(ServerStep)

-----------------------------------------------------------------------------
(* Properties *)

TypeOK ==
  /\ sent \in 0..MaxBytes /\ finished \in BOOLEAN
  /\ up \in {"read", "call", "dialing", "dialed", "put", "failed"}
  /\ b \in Seq(1..MaxBytes) /\ (b # <<>> <=> up \in {"call", "dialing", "dialed", "put"})
  /\ early \in Seq(1..MaxBytes) /\ (early # <<>> => early = b /\ Len(b) <= Ed)
  /\ down \in {"wait", "read", "ended", "failed"}
  /\ relay \in {"wait", "closeOut", "closeIn", "done"}
  /\ conn \in {"nil", "open", "broken", "closed"}
  /\ dialed \in BOOLEAN /\ closed \in BOOLEAN
  /\ server \in {"none", "open", "lost", "ended", "gone"}
  /\ messages \in Seq(Seq(1..MaxBytes))
  /\ rb \in Seq(1..MaxBytes) /\ out \in Seq(1..MaxBytes)

\* The direction to the server is the stream that Duplex promises, whether the
\* first chunk goes into the header or into a message and however the server's
\* reads cut it: every byte once and in order, and the end only after all of
\* them, unless the dial failed, the connection was lost, or the other copy
\* could not write to ss-local and so ended the relay.
Stream == INSTANCE Duplex WITH
  Directions <- {"up"}, MaxChunks <- MaxBytes,
  sent <- [d \in {"up"} |-> sent], finished <- [d \in {"up"} |-> finished],
  recvd <- [d \in {"up"} |-> out],
  over <- [d \in {"up"} |-> server \in {"ended", "gone"}],
  disturbed <- [d \in {"up"} |-> server \in {"lost", "gone"} \/ down = "failed"]
ImplementsDuplex == Stream!Spec

\* No websocket outlives the Close of its delayDialConn, though Close does not
\* wait for a dial that Write is in: until the dial returns, nothing that could
\* end the relay happens.
NoSocketLeft == relay \in {"closeIn", "done"} => conn # "open" /\ up \notin {"dialing", "dialed"}

\* Every byte read from ss-local reaches the server, also after ss-local has
\* finished, with the same exceptions.
AllArrives ==
  \A n \in 1..MaxBytes :
    sent >= n ~> (Len(out) >= n \/ server = "gone" \/ down = "failed")

\* When the handler has returned the copy from the server ends, if the dial has
\* succeeded.  If it never did, that copy waits for d.dialed forever.
ReaderReleased == (relay = "done" /\ dialed) ~> down \in {"ended", "failed"}
=============================================================================
