---------------------------- MODULE EarlyDataProofs ----------------------------
(***************************************************************************)
(* For every value of "ed", every cutting into chunks and every buffer of  *)
(* the server: the direction to the server is a stream of Duplex, and no   *)
(* websocket outlives its delayDialConn.                                   *)
(*                                                                         *)
(* Neither is inductive.  What is known besides: which goroutine can be    *)
(* where while the websocket is in which state (Control), and that         *)
(* what has been read, what is kept in rb, the messages on their way and   *)
(* the chunk that Write holds continue each other (InFlight, Held).        *)
(***************************************************************************)
EXTENDS EarlyData, TLAPS

Writing == up \in {"call", "dialing", "dialed", "put"}

DataType ==
  /\ sent \in 0..MaxBytes
  /\ b \in Seq(1..MaxBytes) /\ (b # <<>> <=> Writing)
  /\ early \in Seq(1..MaxBytes) /\ (early # <<>> => early = b /\ Len(b) <= Ed)
  /\ messages \in Seq(Seq(1..MaxBytes))
  /\ rb \in Seq(1..MaxBytes) /\ out \in Seq(1..MaxBytes)

\* While the dial lasts the copy from the server waits for it, so nothing can
\* end the relay; the websocket is closed only by the relay's end; and as long
\* as nothing is lost, the relay ends only after ss-local has.
Control ==
  /\ finished \in BOOLEAN /\ dialed \in BOOLEAN /\ closed \in BOOLEAN
  /\ up \in {"read", "call", "dialing", "dialed", "put", "failed"}
  /\ down \in {"wait", "read", "ended", "failed"}
  /\ relay \in {"wait", "closeOut", "closeIn", "done"}
  /\ conn \in {"nil", "open", "broken", "closed"}
  /\ server \in {"none", "open", "lost", "ended", "gone"}
  /\ up \in {"dialing", "dialed"} => ~dialed
  /\ up = "dialing" => conn = "nil"
  /\ up \in {"dialed", "put"} => conn # "nil"
  /\ conn = "nil" => ~dialed
  /\ ~dialed => down = "wait"
  /\ relay # "wait" => up = "failed" \/ down \in {"ended", "failed"}
  /\ closed => up = "failed" \/ relay \in {"closeIn", "done"}
  /\ conn = "closed" => relay \in {"closeIn", "done"}
  /\ relay \in {"closeIn", "done"} => conn # "open"
  /\ server = "open" => conn # "broken"
  /\ server = "open" /\ conn = "nil" => up = "dialing"
  /\ server = "none" => conn = "nil"
  /\ server = "ended" => conn = "closed"
  /\ server = "open" /\ down # "failed" /\ (up = "failed" \/ down = "ended" \/ relay # "wait")
       => up = "failed" /\ finished
  /\ server = "ended" /\ down # "failed" => up = "failed" /\ finished

\* The last byte of what is read or kept, or of the i-th message after it.
EndOf(i) == IF i = 0 THEN Len(out) + Len(rb) ELSE messages[i][Len(messages[i])]

\* The i-th message continues what is before it.
Linked(i) ==
  /\ messages[i] # <<>> /\ EndOf(i) <= sent
  /\ \A j \in 1..Len(messages[i]) : messages[i][j] = EndOf(i - 1) + j

InFlight ==
  /\ \A i \in 1..Len(out) : out[i] = i
  /\ \A i \in 1..Len(rb) : rb[i] = Len(out) + i
  /\ Len(out) + Len(rb) <= sent
  /\ \A i \in 1..Len(messages) : Linked(i)

\* What Write holds comes after all of it, unless it went into the header.
Held ==
  /\ Len(b) <= sent /\ \A i \in 1..Len(b) : b[i] = sent - Len(b) + i
  /\ server = "none" => out = <<>> /\ rb = <<>> /\ messages = <<>>
  /\ server = "none" /\ up # "failed" => sent = Len(b)
  /\ early # <<>> => up \in {"dialing", "dialed"}
  /\ server = "open" /\ ~(up = "failed" /\ down = "failed") =>
       EndOf(Len(messages)) = IF early # <<>> THEN sent ELSE sent - Len(b)
  /\ server = "ended" /\ down # "failed" => Len(out) = sent

IInv == Control /\ DataType /\ InFlight /\ Held

-----------------------------------------------------------------------------
(* The goroutines and the websocket *)

LEMMA ControlStep ==
  ASSUME Control, [Next]_vars
  PROVE  Control'
<1> USE DEF dialVars, serverVars
<1>1. CASE \E n \in ChunkSizes : ReadInbound(n)
  BY <1>1 DEF ReadInbound, Control
<1>2. CASE InboundEnds
  BY <1>2 DEF InboundEnds, Control
<1>3. CASE WriteClosed
  BY <1>3 DEF WriteClosed, Control
<1>4. CASE StartDial
  BY <1>4 DEF StartDial, Control
<1>5. CASE UseConn
  BY <1>5 DEF UseConn, Control
<1>6. CASE Announce
  BY <1>6 DEF Announce, Control
<1>7. CASE Put \/ PutErr
  BY <1>7 DEF Put, PutErr, Control
<1>8. CASE Upgrade
  BY <1>8 DEF Upgrade, Control
<1>9. CASE DialOK
  BY <1>9 DEF DialOK, Control
<1>10. CASE DialErr
  BY <1>10 DEF DialErr, Control
<1>11. CASE CopyDown \/ DownWriteErr
  BY <1>11 DEF CopyDown, DialedSeen, DownEnds, DownWriteErr, Control
<1>12. CASE Handler
  <2>1. CASE FirstCopyEnds
    BY <2>1 DEF FirstCopyEnds, Control
  <2>2. CASE Close
    BY <2>2 DEF Close, Control
  <2>3. CASE CloseInbound
    BY <2>3 DEF CloseInbound, Control
  <2> QED
    BY <1>12, <2>1, <2>2, <2>3 DEF Handler
<1>13. CASE ReadMessage
  BY <1>13 DEF ReadMessage, Control
<1>14. CASE ServerSeesEnd
  <2>1. /\ server = "lost" \/ (server = "open" /\ conn = "closed")
        /\ server' = IF server = "lost" THEN "gone" ELSE "ended"
        /\ UNCHANGED <<finished, up, down, relay, dialVars>>
    BY <1>14 DEF ServerSeesEnd
  <2> QED
    BY <2>1 DEF Control
<1>15. CASE Finish
  BY <1>15 DEF Finish, Control
<1>16. CASE Cut
  BY <1>16 DEF Cut, Control
<1>17. CASE UNCHANGED vars
  BY <1>17 DEF vars, Control
<1> QED
  BY <1>1, <1>2, <1>3, <1>4, <1>5, <1>6, <1>7, <1>8, <1>9, <1>10, <1>11, <1>12, <1>13, <1>14,
     <1>15, <1>16, <1>17
     DEF Next, CopyUp, WriteStep, DialStep, ServerStep

-----------------------------------------------------------------------------
(* Sequences *)

LEMMA Element ==
  ASSUME NEW S, NEW s \in Seq(S), NEW i \in 1..Len(s)
  PROVE  s[i] \in S
OBVIOUS

LEMMA Appended ==
  ASSUME NEW S, NEW s \in Seq(S), NEW e \in S
  PROVE  /\ Append(s, e) \in Seq(S) /\ Len(Append(s, e)) = Len(s) + 1
         /\ Append(s, e)[Len(s) + 1] = e /\ \A i \in 1..Len(s) : Append(s, e)[i] = s[i]
OBVIOUS

\* The first n elements, and the others.
LEMMA FirstPart ==
  ASSUME NEW S, NEW s \in Seq(S), NEW n \in 0..Len(s)
  PROVE  /\ SubSeq(s, 1, n) \in Seq(S) /\ Len(SubSeq(s, 1, n)) = n
         /\ \A i \in 1..n : SubSeq(s, 1, n)[i] = s[i]
OBVIOUS

LEMMA OtherPart ==
  ASSUME NEW S, NEW s \in Seq(S), NEW n \in 0..Len(s)
  PROVE  /\ SubSeq(s, n + 1, Len(s)) \in Seq(S) /\ Len(SubSeq(s, n + 1, Len(s))) = Len(s) - n
         /\ \A i \in 1..(Len(s) - n) : SubSeq(s, n + 1, Len(s))[i] = s[n + i]
OBVIOUS

LEMMA Joined ==
  ASSUME NEW S, NEW s \in Seq(S), NEW t \in Seq(S)
  PROVE  /\ s \o t \in Seq(S) /\ Len(s \o t) = Len(s) + Len(t)
         /\ \A i \in 1..(Len(s) + Len(t)) : (s \o t)[i] = IF i <= Len(s) THEN s[i] ELSE t[i - Len(s)]
OBVIOUS

LEMMA NewChunk ==
  ASSUME NEW i \in Nat, NEW n \in Nat \ {0}, i + n <= MaxBytes
  PROVE  /\ Positions(i, i + n) \in Seq(1..MaxBytes) /\ Positions(i, i + n) # <<>>
         /\ Len(Positions(i, i + n)) = n
         /\ \A k \in 1..n : Positions(i, i + n)[k] = i + k
<1>1. Positions(i, i + n) = [k \in 1..n |-> i + k]
  BY DEF Positions
<1> QED
  BY <1>1, SizesAssumption

-----------------------------------------------------------------------------
(* The bytes *)

\* Nothing moves.
LEMMA InFlightStays ==
  ASSUME InFlight, UNCHANGED <<sent, messages, rb, out>>
  PROVE  InFlight'
BY DEF InFlight, Linked, EndOf

\* Messages that stay where they are stay linked.
LEMMA LinkedStays ==
  ASSUME InFlight, NEW n \in Nat, n <= Len(messages), Len(messages) \in Nat,
         UNCHANGED <<sent, rb, out>>, \A i \in 1..n : messages'[i] = messages[i]
  PROVE  (\A i \in 0..n : EndOf(i)' = EndOf(i)) /\ (\A i \in 1..n : Linked(i)')
<1>1. ASSUME NEW i \in 0..n PROVE EndOf(i)' = EndOf(i)
  <2>1. i = 0 \/ i \in 1..n
    OBVIOUS
  <2> QED
    BY <2>1 DEF EndOf
<1>2. ASSUME NEW i \in 1..n PROVE Linked(i)'
  <2>1. i \in 1..Len(messages) /\ i \in 0..n /\ i - 1 \in 0..n
    OBVIOUS
  <2>2. EndOf(i)' = EndOf(i) /\ EndOf(i - 1)' = EndOf(i - 1)
    BY <1>1, <2>1
  <2>3. Linked(i)
    BY <2>1 DEF InFlight
  <2> QED
    BY <2>2, <2>3 DEF Linked
<1> QED
  BY <1>1, <1>2

LEMMA EndOfType ==
  ASSUME DataType, InFlight
  PROVE  \A i \in 0..Len(messages) : EndOf(i) \in Nat
<1> SUFFICES ASSUME NEW i \in 0..Len(messages) PROVE EndOf(i) \in Nat
  OBVIOUS
<1>1. CASE i = 0
  <2>1. Len(out) \in Nat /\ Len(rb) \in Nat
    BY DEF DataType
  <2> QED
    BY <1>1, <2>1 DEF EndOf
<1>2. CASE i # 0
  <2>1. i \in 1..Len(messages) /\ messages[i] \in Seq(1..MaxBytes) /\ messages[i] # <<>>
    BY <1>2 DEF DataType, InFlight, Linked
  <2>2. Len(messages[i]) \in 1..Len(messages[i])
    BY <2>1
  <2>3. messages[i][Len(messages[i])] \in 1..MaxBytes
    BY <2>1, <2>2, Element
  <2> QED
    BY <1>2, <2>3 DEF EndOf
<1> QED
  BY <1>1, <1>2

\* The copy from the server, the handler and the ends leave the bytes alone.
LEMMA QuietStep ==
  ASSUME Control, Control', DataType, InFlight, Held, InboundEnds \/ UseConn \/ DialOK \/ CopyDown
           \/ DownWriteErr \/ Handler \/ ServerSeesEnd \/ Finish \/ UNCHANGED vars
  PROVE  DataType' /\ InFlight' /\ Held'
<1>1. UNCHANGED <<sent, b, early, messages, rb, out>>
  BY DEF InboundEnds, UseConn, DialOK, CopyDown, DialedSeen, DownEnds, DownWriteErr, Handler, FirstCopyEnds,
         Close, CloseInbound, ServerSeesEnd, Finish, vars, dialVars, serverVars
<1>2. /\ Writing' = Writing
      /\ up \in {"dialing", "dialed"} => up' \in {"dialing", "dialed"}
      /\ server' = "none" => server = "none"
      /\ up = "failed" => up' = "failed"
      /\ down = "failed" => down' = "failed"
      /\ server' = "open" => server = "open"
      /\ server' = "ended" => server = "ended" \/ (server = "open" /\ rb = <<>> /\ messages = <<>>)
  BY DEF InboundEnds, UseConn, DialOK, CopyDown, DialedSeen, DownEnds, DownWriteErr, Handler, FirstCopyEnds,
         Close, CloseInbound, ServerSeesEnd, Finish, vars, dialVars, serverVars, Writing
<1>3. DataType'
  BY <1>1, <1>2 DEF DataType
<1>4. InFlight'
  BY <1>1, InFlightStays
<1>5. server' = "open" /\ ~(up' = "failed" /\ down' = "failed") =>
        EndOf(Len(messages))' = IF early # <<>> THEN sent ELSE sent - Len(b)
  BY <1>1, <1>2 DEF Held, EndOf
<1>6. server' = "ended" /\ down' # "failed" => Len(out) = sent
  BY <1>1, <1>2 DEF Held, EndOf, Control, DataType, Writing
<1>7. Held'
  BY <1>1, <1>2, <1>5, <1>6 DEF Held
<1> QED
  BY <1>3, <1>4, <1>7

\* The copy to the server reads a chunk, sends it, or drops it.
LEMMA WriteStepBytes ==
  ASSUME Control, Control', DataType, InFlight, Held,
         (\E n \in ChunkSizes : ReadInbound(n)) \/ WriteClosed \/ StartDial \/ Announce \/ PutErr
  PROVE  DataType' /\ InFlight' /\ Held'
<1> USE DEF dialVars, serverVars
<1>1. UNCHANGED <<server, messages, rb, out, down>>
  BY DEF ReadInbound, WriteClosed, StartDial, Announce, PutErr
<1>2. Len(b) \in Nat /\ sent \in Nat /\ Len(b) <= sent /\ Len(out) + Len(rb) <= sent
  BY DEF DataType, Held, InFlight
<1>3. ASSUME NEW n \in ChunkSizes, ReadInbound(n)
      PROVE  DataType' /\ InFlight' /\ Held'
  <2>1. /\ up = "read" /\ sent' = sent + n /\ b' = Positions(sent, sent + n) /\ up' = "call"
        /\ UNCHANGED early /\ n \in Nat \ {0} /\ sent + n <= MaxBytes
    BY <1>3, SizesAssumption DEF ReadInbound
  <2>2. b = <<>> /\ early = <<>> /\ Len(b) = 0
    BY <2>1 DEF DataType, Writing, Held
  <2>3. /\ b' \in Seq(1..MaxBytes) /\ b' # <<>> /\ Len(b') = n
        /\ \A i \in 1..n : b'[i] = sent + i
    BY <1>2, <2>1, NewChunk
  <2>4. DataType'
    BY <1>1, <1>2, <2>1, <2>2, <2>3, SizesAssumption DEF DataType, Writing
  <2>5. InFlight'
    <3>1. \A i \in 0..Len(messages) : EndOf(i)' = EndOf(i) /\ EndOf(i) \in Nat
      BY <1>1, EndOfType DEF EndOf
    <3>2. Len(messages) \in Nat
      BY DEF DataType
    <3>3. ASSUME NEW i \in 1..Len(messages) PROVE Linked(i)'
      <4>1. i \in 0..Len(messages) /\ i - 1 \in 0..Len(messages)
        BY <3>2
      <4>2. EndOf(i)' = EndOf(i) /\ EndOf(i - 1)' = EndOf(i - 1) /\ EndOf(i) \in Nat
        BY <3>1, <4>1
      <4>3. Linked(i)
        BY DEF InFlight
      <4>4. EndOf(i) <= sent'
        BY <1>2, <2>1, <4>2, <4>3 DEF Linked
      <4> QED
        BY <1>1, <4>2, <4>3, <4>4 DEF Linked
    <3>4. Len(out) + Len(rb) <= sent' /\ Len(out) \in Nat /\ Len(rb) \in Nat
      BY <1>2, <2>1 DEF DataType
    <3> QED
      BY <1>1, <3>3, <3>4 DEF InFlight
  <2>6. EndOf(Len(messages))' = EndOf(Len(messages))
    BY <1>1 DEF EndOf
  <2>7. server # "ended" \/ down = "failed"
    BY <2>1 DEF Control
  <2>8. Held'
    <3>1. sent' - Len(b') = sent /\ Len(b') <= sent' /\ Len(b') = n
      BY <1>2, <2>1, <2>3
    <3>2. \A i \in 1..Len(b') : b'[i] = sent' - Len(b') + i
      BY <2>3, <3>1
    <3>3. server = "none" => sent' = Len(b')
      BY <2>1, <2>2, <3>1 DEF Held
    <3>4. server = "open" => EndOf(Len(messages)) = sent
      BY <1>2, <2>1, <2>2 DEF Held
    <3> QED
      BY <1>1, <2>1, <2>2, <2>6, <2>7, <3>1, <3>2, <3>3, <3>4 DEF Held
  <2> QED
    BY <2>4, <2>5, <2>8
<1>4. CASE WriteClosed \/ PutErr
  <2>1. up' = "failed" /\ b' = <<>> /\ UNCHANGED <<sent, early>> /\ up \in {"call", "put"} /\ Len(b') = 0
    BY <1>4 DEF WriteClosed, PutErr
  <2>2. early = <<>>
    BY <2>1 DEF Held
  <2>3. server = "open" => down = "failed"
    BY <1>4, <2>1 DEF WriteClosed, PutErr, Control
  <2>4. DataType' /\ InFlight'
    BY <1>1, <2>1, <2>2, InFlightStays DEF DataType, Writing
  <2>5. Held'
    BY <1>1, <1>2, <2>1, <2>2, <2>3 DEF Held
  <2> QED
    BY <2>4, <2>5
<1>5. CASE StartDial
  <2>1. /\ up = "call" /\ up' = "dialing" /\ conn = "nil" /\ UNCHANGED <<sent, b>>
        /\ early' = IF Len(b) > Ed THEN <<>> ELSE b
    BY <1>5 DEF StartDial
  <2>2. server # "open" /\ server # "ended"
    BY <2>1 DEF Control
  <2>3. DataType' /\ InFlight'
    BY <1>1, <1>2, <2>1, SizesAssumption, InFlightStays DEF DataType, Writing
  <2>4. Held'
    BY <1>1, <1>2, <2>1, <2>2 DEF Held
  <2> QED
    BY <2>3, <2>4
<1>6. CASE Announce
  <2>1. /\ up = "dialed" /\ early' = <<>> /\ UNCHANGED sent
        /\ IF early # <<>> THEN up' = "read" /\ b' = <<>> ELSE up' = "put" /\ UNCHANGED b
    BY <1>6 DEF Announce
  <2>2. server # "none" /\ server # "ended"
    BY <2>1 DEF Control
  <2>3. EndOf(Len(messages))' = EndOf(Len(messages)) /\ InFlight'
    BY <1>1, <2>1, InFlightStays DEF EndOf
  <2>4. CASE early # <<>>
    <3>1. up' = "read" /\ b' = <<>> /\ Len(b') = 0
      BY <2>1, <2>4
    <3>2. DataType'
      BY <1>1, <2>1, <3>1 DEF DataType, Writing
    <3>3. Held'
      BY <1>1, <1>2, <2>1, <2>2, <2>3, <2>4, <3>1 DEF Held
    <3> QED
      BY <2>3, <3>2, <3>3
  <2>5. CASE early = <<>>
    <3>1. up' = "put" /\ UNCHANGED b
      BY <2>1, <2>5
    <3>2. DataType'
      BY <1>1, <2>1, <3>1 DEF DataType, Writing
    <3>3. Held'
      BY <1>1, <1>2, <2>1, <2>2, <2>3, <2>5, <3>1 DEF Held
    <3> QED
      BY <2>3, <3>2, <3>3
  <2> QED
    BY <2>4, <2>5
<1> QED
  BY <1>3, <1>4, <1>5, <1>6

\* A message goes out.
LEMMA PutBytes ==
  ASSUME Control, DataType, InFlight, Held, Put
  PROVE  DataType' /\ InFlight' /\ Held'
<1> USE DEF dialVars, serverVars
<1>1. /\ up = "put" /\ up' = "read" /\ b' = <<>> /\ UNCHANGED <<sent, early, server, rb, out, down>>
      /\ messages' = IF server = "open" THEN Append(messages, b) ELSE messages
      /\ Len(b') = 0 /\ b # <<>> /\ early = <<>> /\ b \in Seq(1..MaxBytes) /\ conn \in {"open", "broken"}
  BY DEF Put, DataType, Writing, Held
<1>2. /\ messages \in Seq(Seq(1..MaxBytes)) /\ Len(messages) \in Nat /\ Len(b) \in Nat \ {0}
      /\ sent \in Nat /\ Len(b) <= sent
  BY <1>1 DEF DataType, Held
<1>3. server # "none" /\ server # "ended"
  BY <1>1 DEF Control
<1>4. messages' \in Seq(Seq(1..MaxBytes))
  BY <1>1, <1>2, Appended
<1>5. DataType'
  BY <1>1, <1>4 DEF DataType, Writing
<1>6. CASE server # "open"
  <2>1. InFlight'
    BY <1>1, <1>6, InFlightStays
  <2>2. Held'
    BY <1>1, <1>2, <1>3, <1>6 DEF Held
  <2> QED
    BY <1>5, <2>1, <2>2
<1>7. CASE server = "open"
  <2>0. PICK n \in Nat : n = Len(messages)
    BY <1>2
  <2>1. messages' = Append(messages, b) /\ Len(messages') = n + 1 /\ messages'[n + 1] = b
    BY <1>1, <1>2, <1>7, <2>0, Appended
  <2>2. \A i \in 1..n : messages'[i] = messages[i]
    BY <1>2, <2>0, <2>1, Appended
  <2>3. (\A i \in 0..n : EndOf(i)' = EndOf(i)) /\ (\A i \in 1..n : Linked(i)')
    BY <1>1, <1>2, <2>0, <2>2, LinkedStays
  <2>4. EndOf(n) = sent - Len(b)
    BY <1>1, <1>7, <2>0 DEF Held
  <2>5. \A j \in 1..Len(b) : b[j] = EndOf(n) + j
    BY <2>4 DEF Held
  <2>6. b[Len(b)] = sent
    BY <1>2 DEF Held
  <2>7. EndOf(n + 1)' = sent
    BY <1>2, <2>1, <2>6 DEF EndOf
  <2>8. InFlight'
    <3>1. n + 1 - 1 = n /\ \A i \in 1..Len(messages') : i \in 1..n \/ i = n + 1
      BY <2>1
    <3>2. Linked(n + 1)'
      BY <1>1, <1>2, <2>1, <2>3, <2>5, <2>7, <3>1 DEF Linked
    <3> QED
      BY <1>1, <2>3, <3>1, <3>2 DEF InFlight
  <2>9. Held'
    BY <1>1, <1>2, <1>3, <2>1, <2>7 DEF Held
  <2> QED
    BY <1>5, <2>8, <2>9
<1> QED
  BY <1>6, <1>7

\* The header's bytes arrive; or the connection, with all or some of what is in
\* it, is lost.
LEMMA NetworkBytes ==
  ASSUME Control, DataType, InFlight, Held, Upgrade \/ DialErr \/ Cut
  PROVE  DataType' /\ InFlight' /\ Held'
<1> USE DEF dialVars, serverVars
<1>1. sent \in Nat /\ Len(b) \in Nat /\ Len(messages) \in Nat
  BY DEF DataType
<1>2. CASE Upgrade
  <2>1. /\ up = "dialing" /\ server = "none" /\ server' = "open" /\ rb' = early
        /\ UNCHANGED <<sent, up, down, b, early, messages, out>>
    BY <1>2 DEF Upgrade
  <2>2. out = <<>> /\ messages = <<>> /\ sent = Len(b) /\ Len(out) = 0 /\ Len(messages) = 0
    BY <2>1 DEF Held
  <2>3. \A i \in 1..Len(b) : b[i] = i
    BY <1>1, <2>2 DEF Held
  <2>4. (early = <<>> /\ Len(early) = 0) \/ early = b
    BY DEF DataType
  <2>5. DataType'
    BY <2>1 DEF DataType, Writing
  <2>6. InFlight'
    BY <1>1, <2>1, <2>2, <2>3, <2>4 DEF InFlight, Linked
  <2>7. EndOf(Len(messages))' = Len(early)
    BY <2>1, <2>2, <2>4, <1>1 DEF EndOf
  <2>8. Held'
    BY <1>1, <2>1, <2>2, <2>4, <2>7 DEF Held
  <2> QED
    BY <2>5, <2>6, <2>8
<1>3. CASE DialErr
  <2>1. /\ server' \in {"lost", "gone"} /\ messages' = <<>> /\ up' = "failed" /\ b' = <<>> /\ early' = <<>>
        /\ UNCHANGED <<sent, rb, out>> /\ Len(b') = 0 /\ Len(messages') = 0
    BY <1>3 DEF DialErr
  <2>2. DataType'
    BY <2>1 DEF DataType, Writing
  <2>3. InFlight'
    BY <2>1 DEF InFlight, Linked
  <2>4. Held'
    BY <1>1, <2>1 DEF Held
  <2> QED
    BY <2>2, <2>3, <2>4
<1>4. CASE Cut
  <2>1. server' = "lost" /\ UNCHANGED <<sent, up, down, b, early, rb, out>>
    BY <1>4 DEF Cut
  <2>2. PICK n \in 0..Len(messages) : messages' = SubSeq(messages, 1, n)
    BY <1>4 DEF Cut
  <2>3. messages' \in Seq(Seq(1..MaxBytes)) /\ Len(messages') = n /\ \A i \in 1..n : messages'[i] = messages[i]
    BY <2>2, FirstPart DEF DataType
  <2>4. DataType'
    BY <2>1, <2>3 DEF DataType, Writing
  <2>5. n \in Nat /\ n <= Len(messages)
    BY <1>1
  <2>6. InFlight'
    BY <1>1, <2>1, <2>3, <2>5, LinkedStays DEF InFlight
  <2>7. Held'
    BY <2>1 DEF Held
  <2> QED
    BY <2>4, <2>6, <2>7
<1> QED
  BY <1>2, <1>3, <1>4

\* The server's copy reads what is kept or, when nothing is, the next message.
LEMMA ReadBytes ==
  ASSUME DataType, InFlight, Held, ReadMessage
  PROVE  DataType' /\ InFlight' /\ Held' /\ Len(out) <= Len(out')
<1> USE DEF dialVars, serverVars
<1>1. PICK data, n :
        /\ data = IF rb = <<>> THEN Head(messages) ELSE rb
        /\ n = IF Len(data) < ReadSize THEN Len(data) ELSE ReadSize
        /\ out' = out \o SubSeq(data, 1, n) /\ rb' = SubSeq(data, n + 1, Len(data))
        /\ messages' = IF rb = <<>> THEN Tail(messages) ELSE messages
        /\ rb # <<>> \/ messages # <<>>
        /\ server \in {"open", "lost"} /\ UNCHANGED <<sent, up, b, early, down, server>>
  BY DEF ReadMessage
<1>2. /\ Len(out) \in Nat /\ Len(rb) \in Nat /\ sent \in Nat /\ Len(messages) \in Nat
      /\ out \in Seq(1..MaxBytes) /\ rb \in Seq(1..MaxBytes) /\ messages \in Seq(Seq(1..MaxBytes))
  BY DEF DataType
<1>3. /\ data \in Seq(1..MaxBytes) /\ data # <<>> /\ Len(out) + Len(data) <= sent
      /\ \A i \in 1..Len(data) : data[i] = Len(out) + i
  <2>1. CASE rb # <<>>
    BY <1>1, <1>2, <2>1 DEF InFlight
  <2>2. CASE rb = <<>>
    <3>1. data = messages[1] /\ 1 \in 1..Len(messages) /\ Len(rb) = 0
      BY <1>1, <1>2, <2>2
    <3>2. data \in Seq(1..MaxBytes)
      BY <1>2, <3>1, Element
    <3>3. /\ data # <<>> /\ EndOf(1) <= sent /\ EndOf(0) = Len(out) /\ EndOf(1) = data[Len(data)]
          /\ \A j \in 1..Len(data) : data[j] = Len(out) + j
      BY <1>2, <3>1 DEF InFlight, Linked, EndOf
    <3>4. Len(data) \in 1..Len(data)
      BY <3>2, <3>3
    <3> QED
      BY <3>2, <3>3, <3>4
  <2> QED
    BY <2>1, <2>2
<1>4. Len(data) \in Nat /\ n \in 1..Len(data) /\ n \in 0..Len(data)
  BY <1>1, <1>3, SizesAssumption
<1>5. /\ SubSeq(data, 1, n) \in Seq(1..MaxBytes) /\ Len(SubSeq(data, 1, n)) = n
      /\ \A i \in 1..n : SubSeq(data, 1, n)[i] = data[i]
  BY <1>3, <1>4, FirstPart
<1>6. /\ rb' \in Seq(1..MaxBytes) /\ Len(rb') = Len(data) - n
      /\ \A i \in 1..(Len(data) - n) : rb'[i] = data[n + i]
  <2>1. /\ SubSeq(data, n + 1, Len(data)) \in Seq(1..MaxBytes)
        /\ Len(SubSeq(data, n + 1, Len(data))) = Len(data) - n
        /\ \A i \in 1..(Len(data) - n) : SubSeq(data, n + 1, Len(data))[i] = data[n + i]
    BY <1>3, <1>4, OtherPart
  <2> QED
    BY <1>1, <2>1
<1>7. /\ out' \in Seq(1..MaxBytes) /\ Len(out') = Len(out) + n
      /\ \A i \in 1..(Len(out) + n) : out'[i] = IF i <= Len(out) THEN out[i] ELSE SubSeq(data, 1, n)[i - Len(out)]
  <2>1. PICK head \in Seq(1..MaxBytes) : head = SubSeq(data, 1, n)
    BY <1>5
  <2>2. /\ out \o head \in Seq(1..MaxBytes) /\ Len(out \o head) = Len(out) + Len(head)
        /\ \A i \in 1..(Len(out) + Len(head)) :
              (out \o head)[i] = IF i <= Len(out) THEN out[i] ELSE head[i - Len(out)]
    BY <1>2, Joined
  <2>3. out' = out \o head /\ Len(head) = n
    BY <1>1, <1>5, <2>1
  <2> QED
    BY <2>1, <2>2, <2>3
<1>8. \A i \in 1..Len(out') : out'[i] = i
  <2> SUFFICES ASSUME NEW i \in 1..(Len(out) + n) PROVE out'[i] = i
    BY <1>7
  <2>1. CASE i <= Len(out)
    BY <1>2, <1>7, <2>1 DEF InFlight
  <2>2. CASE ~(i <= Len(out))
    <3>1. i - Len(out) \in 1..n /\ i - Len(out) \in 1..Len(data)
      BY <1>2, <1>4, <2>2
    <3>2. out'[i] = data[i - Len(out)]
      BY <1>5, <1>7, <2>2, <3>1
    <3> QED
      BY <1>2, <1>3, <3>1, <3>2
  <2> QED
    BY <2>1, <2>2
<1>9. \A i \in 1..Len(rb') : rb'[i] = Len(out') + i
  <2> SUFFICES ASSUME NEW i \in 1..(Len(data) - n) PROVE rb'[i] = Len(out) + n + i
    BY <1>6, <1>7
  <2>1. n + i \in 1..Len(data)
    BY <1>4
  <2> QED
    BY <1>2, <1>3, <1>4, <1>6, <2>1
<1>10. Len(out') + Len(rb') = Len(out) + Len(data)
  BY <1>2, <1>4, <1>6, <1>7
<1>11. CASE rb # <<>>
  <2>1. messages' = messages /\ Len(out') + Len(rb') = Len(out) + Len(rb)
    BY <1>1, <1>10, <1>11
  <2>2. \A i : EndOf(i)' = EndOf(i)
    BY <2>1 DEF EndOf
  <2> QED
    <3>1. DataType'
      BY <1>1, <1>6, <1>7, <2>1 DEF DataType, Writing
    <3>2. InFlight'
      <4>1. ASSUME NEW i \in 1..Len(messages) PROVE Linked(i)'
        <5>1. Linked(i)
          BY DEF InFlight
        <5> QED
          BY <1>1, <2>1, <2>2, <5>1 DEF Linked
      <4> QED
        BY <1>1, <1>3, <1>8, <1>9, <1>10, <2>1, <4>1 DEF InFlight
    <3>3. EndOf(Len(messages))' = EndOf(Len(messages))
      BY <2>1, <2>2
    <3>4. Held'
      BY <1>1, <3>3 DEF Held
    <3> QED
      BY <1>2, <1>4, <1>7, <3>1, <3>2, <3>4
<1>12. CASE rb = <<>>
  <2>1. PICK k \in Nat : Len(messages) = k + 1
    <3>1. Len(messages) - 1 \in Nat /\ Len(messages) = (Len(messages) - 1) + 1
      BY <1>1, <1>2, <1>12
    <3> QED
      BY <3>1
  <2>2. /\ messages' \in Seq(Seq(1..MaxBytes)) /\ Len(messages') = k
        /\ \A i \in 1..k : messages'[i] = messages[i + 1]
    BY <1>1, <1>2, <1>12, <2>1
  <2>3. EndOf(1) = Len(out) + Len(data)
    <3>1. data = messages[1] /\ Len(data) \in 1..Len(data)
      BY <1>1, <1>2, <1>3, <1>12
    <3> QED
      BY <1>3, <3>1 DEF EndOf
  <2>4. \A i \in 0..k : EndOf(i)' = EndOf(i + 1)
    <3> SUFFICES ASSUME NEW i \in 0..k PROVE EndOf(i)' = EndOf(i + 1)
      OBVIOUS
    <3>1. CASE i = 0
      BY <1>10, <2>3, <3>1 DEF EndOf
    <3>2. CASE i # 0
      BY <2>2, <3>2 DEF EndOf
    <3> QED
      BY <3>1, <3>2
  <2>5. ASSUME NEW i \in 1..k PROVE Linked(i)'
    <3>1. i + 1 \in 1..Len(messages) /\ i \in 0..k /\ i - 1 \in 0..k /\ i - 1 + 1 = i /\ i + 1 - 1 = i
      BY <2>1
    <3>2. Linked(i + 1)
      BY <3>1 DEF InFlight
    <3>3. EndOf(i)' = EndOf(i + 1) /\ EndOf(i - 1)' = EndOf(i) /\ messages'[i] = messages[i + 1]
      BY <2>2, <2>4, <3>1
    <3> QED
      BY <1>1, <3>1, <3>2, <3>3 DEF Linked
  <2>6. DataType'
    BY <1>1, <1>6, <1>7, <2>2 DEF DataType, Writing
  <2>7. InFlight'
    BY <1>1, <1>3, <1>8, <1>9, <1>10, <2>2, <2>5 DEF InFlight
  <2>8. EndOf(Len(messages))' = EndOf(Len(messages))
    BY <2>1, <2>2, <2>4
  <2>9. Held'
    BY <1>1, <2>8 DEF Held
  <2> QED
    BY <1>2, <1>4, <1>7, <2>6, <2>7, <2>9
<1> QED
  BY <1>11, <1>12

-----------------------------------------------------------------------------
(* The invariant *)

LEMMA InitIInv == Init => IInv
<1> SUFFICES ASSUME Init PROVE IInv
  OBVIOUS
<1>1. Control
  BY DEF Init, Control
<1>2. /\ sent = 0 /\ b = <<>> /\ early = <<>> /\ messages = <<>> /\ rb = <<>> /\ out = <<>>
      /\ Len(b) = 0 /\ Len(messages) = 0 /\ Len(rb) = 0 /\ Len(out) = 0 /\ server = "none" /\ up = "read"
  BY DEF Init
<1>3. DataType
  BY <1>2, SizesAssumption DEF DataType, Writing
<1>4. InFlight /\ Held
  BY <1>2 DEF InFlight, Held
<1> QED
  BY <1>1, <1>3, <1>4 DEF IInv

LEMMA NextIInv == IInv /\ [Next]_vars => IInv'
<1> SUFFICES ASSUME IInv, [Next]_vars PROVE IInv'
  OBVIOUS
<1>1. Control /\ DataType /\ InFlight /\ Held /\ Control'
  BY ControlStep DEF IInv
<1>2. CASE InboundEnds \/ UseConn \/ DialOK \/ CopyDown \/ DownWriteErr \/ Handler \/ ServerSeesEnd
             \/ Finish \/ UNCHANGED vars
  BY <1>1, <1>2, QuietStep DEF IInv
<1>3. CASE (\E n \in ChunkSizes : ReadInbound(n)) \/ WriteClosed \/ StartDial \/ Announce \/ PutErr
  BY <1>1, <1>3, WriteStepBytes DEF IInv
<1>4. CASE Put
  BY <1>1, <1>4, PutBytes DEF IInv
<1>5. CASE Upgrade \/ DialErr \/ Cut
  BY <1>1, <1>5, NetworkBytes DEF IInv
<1>6. CASE ReadMessage
  BY <1>1, <1>6, ReadBytes DEF IInv
<1> QED
  BY <1>2, <1>3, <1>4, <1>5, <1>6 DEF Next, CopyUp, WriteStep, DialStep, ServerStep

-----------------------------------------------------------------------------
(* The theorems *)

\* The state stays well typed: what goes into the header is what Write was given,
\* and no longer than "ed".
THEOREM TypeCorrect == Spec => []TypeOK
<1>1. IInv => TypeOK
  BY DEF IInv, Control, DataType, Writing, TypeOK
<1> QED
  BY <1>1, InitIInv, NextIInv, PTL DEF Spec

\* The relay leaves no websocket open and no dial under way behind it.
THEOREM NoSocketLeftHolds == Spec => []NoSocketLeft
<1>1. IInv => NoSocketLeft
  BY DEF IInv, Control, NoSocketLeft
<1> QED
  BY <1>1, InitIInv, NextIInv, PTL DEF Spec

Over == server \in {"ended", "gone"}
Disturbed == server \in {"lost", "gone"} \/ down = "failed"

\* What a step does to the stream.
LEMMA StreamStep ==
  ASSUME IInv, IInv', [Next]_vars
  PROVE  /\ Disturbed => Disturbed'
         /\ \/ /\ ~finished /\ sent' \in sent..MaxBytes
               /\ UNCHANGED <<finished, out>> /\ (Over' <=> Over)
            \/ ~finished /\ finished' = TRUE /\ UNCHANGED <<sent, out>> /\ (Over' <=> Over)
            \/ /\ ~Over /\ Len(out') \in Len(out)..sent /\ out' = [i \in 1..Len(out') |-> i]
               /\ UNCHANGED <<sent, finished>> /\ (Over' <=> Over)
            \/ /\ ~Over /\ Over' /\ (Disturbed \/ (finished /\ Len(out) = sent))
               /\ UNCHANGED <<sent, finished, out>>
            \/ UNCHANGED <<sent, finished, out>> /\ (Over' <=> Over)
<1> USE DEF dialVars, serverVars, Over, Disturbed
<1>1. CASE \E n \in ChunkSizes : ReadInbound(n)
  <2>1. /\ ~finished /\ \E n \in ChunkSizes : sent' = sent + n /\ sent + n <= MaxBytes
        /\ UNCHANGED <<finished, out, server, down>>
    BY <1>1 DEF ReadInbound
  <2>2. sent' \in sent..MaxBytes
    BY <2>1, SizesAssumption DEF IInv, DataType
  <2> QED
    BY <2>1, <2>2
<1>2. CASE Finish
  BY <1>2 DEF Finish
<1>3. CASE ReadMessage
  <2>1. server \in {"open", "lost"} /\ UNCHANGED <<sent, finished, server, down>>
    BY <1>3 DEF ReadMessage
  <2>2. Len(out) \in Nat /\ Len(out') \in Nat /\ Len(rb') \in Nat /\ sent \in Nat /\ out' \in Seq(1..MaxBytes)
    BY DEF IInv, DataType
  <2>3. Len(out) <= Len(out')
    BY <1>3, ReadBytes DEF IInv
  <2>4. Len(out') + Len(rb') <= sent /\ \A i \in 1..Len(out') : out'[i] = i
    BY <2>1 DEF IInv, InFlight
  <2>5. out' = [i \in 1..Len(out') |-> i]
    BY <2>2, <2>4
  <2>6. Len(out') \in Len(out)..sent
    BY <2>2, <2>3, <2>4
  <2> QED
    BY <2>1, <2>5, <2>6
<1>4. CASE ServerSeesEnd
  <2>1. /\ server = "lost" \/ (server = "open" /\ conn = "closed")
        /\ server' = (IF server = "lost" THEN "gone" ELSE "ended")
        /\ UNCHANGED <<sent, finished, out, down>>
    BY <1>4 DEF ServerSeesEnd
  <2>2. server' = "ended" /\ down # "failed" => finished
    BY <2>1 DEF IInv, Control
  <2>3. server' = "ended" /\ down # "failed" => Len(out) = sent
    BY <2>1 DEF IInv, Held
  <2> QED
    BY <2>1, <2>2, <2>3
<1>5. CASE WriteStep \/ InboundEnds
  BY <1>5 DEF WriteStep, InboundEnds, WriteClosed, StartDial, UseConn, Announce, Put, PutErr
<1>6. CASE DialStep
  BY <1>6 DEF DialStep, Upgrade, DialOK, DialErr, IInv, Control
<1>7. CASE CopyDown \/ DownWriteErr
  BY <1>7 DEF CopyDown, DialedSeen, DownEnds, DownWriteErr
<1>8. CASE Handler
  BY <1>8 DEF Handler, FirstCopyEnds, Close, CloseInbound
<1>9. CASE Cut
  BY <1>9 DEF Cut
<1>10. CASE UNCHANGED vars
  BY <1>10 DEF vars
<1> HIDE DEF Over, Disturbed
<1> QED
  BY <1>1, <1>2, <1>3, <1>4, <1>5, <1>6, <1>7, <1>8, <1>9, <1>10 DEF Next, CopyUp, ServerStep

\* For every "ed" and however the bytes are cut, the direction to the server is
\* the stream that Duplex promises.
THEOREM ImplementsDuplexHolds == Spec => ImplementsDuplex
<1>1. Init => Stream!Init
  <2> SUFFICES ASSUME Init PROVE Stream!Init
    OBVIOUS
  <2>1. sent = 0 /\ out = <<>> /\ ~finished /\ finished \in BOOLEAN
    BY DEF Init
  <2>2. ~(server \in {"ended", "gone"}) /\ ~(server \in {"lost", "gone"} \/ down = "failed")
    BY DEF Init
  <2>3. /\ [d \in {"up"} |-> sent] = [d \in {"up"} |-> 0]
        /\ [d \in {"up"} |-> out] = [d \in {"up"} |-> <<>>]
    BY <2>1
  <2>4. [d \in {"up"} |-> finished] = [d \in {"up"} |-> FALSE]
    BY <2>1
  <2>5. [d \in {"up"} |-> server \in {"ended", "gone"}] = [d \in {"up"} |-> FALSE]
    <3>1. (server \in {"ended", "gone"}) = FALSE
      BY <2>2
    <3> QED
      BY <3>1
  <2>6. [d \in {"up"} |-> server \in {"lost", "gone"} \/ down = "failed"] = [d \in {"up"} |-> FALSE]
    BY <2>2
  <2> QED
    BY <2>3, <2>4, <2>5, <2>6 DEF Stream!Init
<1>2. IInv /\ IInv' /\ [Next]_vars => [Stream!Next]_(Stream!dvars)
  <2> SUFFICES ASSUME IInv, IInv', [Next]_vars PROVE Stream!Next
    OBVIOUS
  <2>1. Stream!Disturb
    BY StreamStep DEF Stream!Disturb, Disturbed
  <2>2. CASE ~finished /\ sent' \in sent..MaxBytes /\ UNCHANGED <<finished, out>> /\ (Over' <=> Over)
    BY <2>1, <2>2 DEF Stream!Next, Stream!Send, Over
  <2>3. CASE ~finished /\ finished' = TRUE /\ UNCHANGED <<sent, out>> /\ (Over' <=> Over)
    <3>1. [d \in {"up"} |-> finished]' = [[d \in {"up"} |-> finished] EXCEPT !["up"] = TRUE]
      BY <2>3
    <3>2. Stream!Finish("up")
      BY <2>3, <3>1 DEF Stream!Finish, Over
    <3> QED
      BY <2>1, <3>2 DEF Stream!Next
  <2>4. CASE /\ ~Over /\ Len(out') \in Len(out)..sent /\ out' = [i \in 1..Len(out') |-> i]
             /\ UNCHANGED <<sent, finished>> /\ (Over' <=> Over)
    <3>1. [d \in {"up"} |-> out]' = [[d \in {"up"} |-> out] EXCEPT !["up"] = [i \in 1..Len(out') |-> i]]
      BY <2>4
    <3>2. \E n \in Len([d \in {"up"} |-> out]["up"])..[d \in {"up"} |-> sent]["up"] :
            [d \in {"up"} |-> out]' = [[d \in {"up"} |-> out] EXCEPT !["up"] = [i \in 1..n |-> i]]
      BY <2>4, <3>1
    <3>3. ~[d \in {"up"} |-> server \in {"ended", "gone"}]["up"]
      BY <2>4 DEF Over
    <3>4. /\ UNCHANGED <<[d \in {"up"} |-> sent], [d \in {"up"} |-> finished]>>
          /\ UNCHANGED [d \in {"up"} |-> server \in {"ended", "gone"}]
      BY <2>4 DEF Over
    <3>5. Stream!Deliver("up")
      BY <3>2, <3>3, <3>4 DEF Stream!Deliver
    <3> QED
      BY <2>1, <3>5 DEF Stream!Next
  <2>5. CASE /\ ~Over /\ Over' /\ (Disturbed \/ (finished /\ Len(out) = sent))
             /\ UNCHANGED <<sent, finished, out>>
    BY <2>1, <2>5 DEF Stream!Next, Stream!End, Over, Disturbed
  <2>6. CASE UNCHANGED <<sent, finished, out>> /\ (Over' <=> Over)
    BY <2>1, <2>6 DEF Stream!Next, Over
  <2> QED
    BY <2>2, <2>3, <2>4, <2>5, <2>6, StreamStep
<1> QED
  BY <1>1, <1>2, InitIInv, NextIInv, PTL DEF Spec, ImplementsDuplex, Stream!Spec
=============================================================================
