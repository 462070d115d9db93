----------------------------- MODULE TunnelProofs -----------------------------
(***************************************************************************)
(* For any number of chunks, any window and any wires that may break: the  *)
(* two plugins and the connections between them are two streams of Duplex. *)
(*                                                                         *)
(* The invariant, for each direction d:                                    *)
(*   InOrder    counted from the receiver, the chunks on the wires and in  *)
(*              the copies continue each other as far as anything still    *)
(*              passes;                                                    *)
(*   Empty      a direction that is not used stays empty, whatever ends;   *)
(*   EndsWell   while nothing disturbs d, a plugin begins to wind the      *)
(*              connection up only after all of d has passed it.           *)
(* Handlers ties the ends that are closed to the handler that closes them. *)
(***************************************************************************)
EXTENDS Tunnel, TLAPS
\* Direction d passes the plugin Near first and then Far.
Near(d) == IF d = "up" THEN 1 ELSE 2
Far(d) == IF d = "up" THEN 2 ELSE 1

Ended(n, d) == copier[n][d] \in {"send", "exited"}

-----------------------------------------------------------------------------
(* The chunks of a direction, from the receiver's end *)

Numbered(s, k) == \A i \in 1..Len(s) : s[i] = k + i

\* The chunks of b and then those of i continue the first k of s.
Follows(s, k, b, i) ==
  Numbered(b, k) /\ Numbered(i, k + Len(b)) /\ k + Len(b) + Len(i) <= s

\* The chunks up to Far's copy, up to Near's, and all of them.
AtFar(d) == Len(recvd[d]) + Len(inflight[Last(d)][d])
AtNear(d) == AtFar(d) + Len(buf[Far(d)][d]) + Len(inflight[2][d])
AtSender(d) == AtNear(d) + Len(buf[Near(d)][d]) + Len(inflight[First(d)][d])

FarPasses(d) == ~Ended(Far(d), d) /\ ~Deaf(Last(d), Opposite(d))
NearPasses(d) == ~Ended(Near(d), d) /\ ~Deaf(2, Opposite(d))
Hears(d) == ~Deaf(First(d), Opposite(d))

\* A copy that has ended passes nothing on, and what is sent to a deaf end is
\* lost, but then nothing comes after it.
InOrder(d) ==
  /\ Follows(sent[d], 0, recvd[d], inflight[Last(d)][d])
  /\ FarPasses(d) => Follows(sent[d], AtFar(d), buf[Far(d)][d], inflight[2][d])
  /\ FarPasses(d) /\ NearPasses(d) =>
       /\ Follows(sent[d], AtNear(d), buf[Near(d)][d], inflight[First(d)][d])
       /\ Hears(d) => AtSender(d) = sent[d]

\* A direction in which nothing was sent is empty.
Empty(d) ==
  sent[d] = 0 => /\ \A w \in Wires : inflight[w][d] = <<>>
                 /\ \A n \in Plugins : buf[n][d] = <<>>

-----------------------------------------------------------------------------
(* The ends of an undisturbed direction *)

\* All that was sent has passed the plugin, and its copy has ended.
NearDrained(d) ==
  /\ finished[d] /\ Ended(Near(d), d)
  /\ inflight[First(d)][d] = <<>> /\ buf[Near(d)][d] = <<>>
  /\ AtNear(d) = sent[d]
FarDrained(d) ==
  /\ NearDrained(d) /\ Ended(Far(d), d)
  /\ inflight[2][d] = <<>> /\ buf[Far(d)][d] = <<>>

\* The plugin gives the connection up, or is about to.
Winding(n) ==
  \/ relay[n] \in {"closeOut", "closeIn", "done"} \/ errs[n] > 0
  \/ \E d \in Directions : Ended(n, d)

EndsWell(d) ==
  ~Disturbed[d] => /\ Winding(Near(d)) => NearDrained(d)
                   /\ Winding(Far(d)) => FarDrained(d)

-----------------------------------------------------------------------------
(* The handlers *)

\* Before its dial a handler has no outbound connection and no copies.
Undialled ==
  \A n \in Plugins : relay[n] \in {"none", "dial"} =>
    wire[n + 1] = "none" /\ \A d \in Directions : copier[n][d] = "none"

\* It closes its ends of the two connections at its end.
Closers ==
  \A n \in Plugins :
    /\ closed[n]["down"] => relay[n] = "done"
    /\ closed[n + 1]["up"] => relay[n] \in {"closeIn", "done"}

Handlers == Undialled /\ Closers

IInv == TypeOK /\ Handlers /\ \A d \in Directions : InOrder(d) /\ Empty(d) /\ EndsWell(d)

-----------------------------------------------------------------------------
(* Sequences and functions *)

LEMMA Element ==
  ASSUME NEW S, NEW s \in Seq(S), NEW i \in 1..Len(s)
  PROVE  s[i] \in S
OBVIOUS

LEMMA Nonempty ==
  ASSUME NEW S, NEW s \in Seq(S)
  PROVE  Len(s) \in Nat /\ (s = <<>> <=> Len(s) = 0)
OBVIOUS

LEMMA Appended ==
  ASSUME NEW S, NEW s \in Seq(S), NEW e \in S
  PROVE  /\ Append(s, e) \in Seq(S) /\ Len(Append(s, e)) = Len(s) + 1
         /\ Append(s, e)[Len(s) + 1] = e /\ \A i \in 1..Len(s) : Append(s, e)[i] = s[i]
OBVIOUS

LEMMA Split ==
  ASSUME NEW S, NEW s \in Seq(S), s # <<>>
  PROVE  /\ Head(s) = s[1] /\ Head(s) \in S
         /\ Tail(s) \in Seq(S) /\ Len(Tail(s)) = Len(s) - 1
         /\ \A i \in 1..(Len(s) - 1) : Tail(s)[i] = s[i + 1]
OBVIOUS

LEMMA Single ==
  ASSUME NEW S, NEW e \in S
  PROVE  <<e>> \in Seq(S) /\ Len(<<e>>) = 1 /\ <<e>>[1] = e
OBVIOUS

LEMMA Updated ==
  ASSUME NEW A, NEW B, NEW S, NEW f \in [A -> [B -> S]], NEW a \in A, NEW b \in B, NEW v \in S
  PROVE  /\ [f EXCEPT ![a][b] = v] \in [A -> [B -> S]]
         /\ [f EXCEPT ![a][b] = v][a][b] = v
         /\ \A x \in A, y \in B : x # a \/ y # b => [f EXCEPT ![a][b] = v][x][y] = f[x][y]
OBVIOUS

-----------------------------------------------------------------------------
(* The way of a direction *)

LEMMA Route ==
  ASSUME NEW d \in Directions
  PROVE  /\ Opposite(d) \in Directions /\ Opposite(d) # d /\ Opposite(Opposite(d)) = d
         /\ \A e \in Directions : e = d \/ e = Opposite(d)
         /\ Near(d) \in Plugins /\ Far(d) \in Plugins /\ Near(d) # Far(d)
         /\ \A n \in Plugins : n = Near(d) \/ n = Far(d)
         /\ First(d) \in Wires /\ 2 \in Wires /\ Last(d) \in Wires
         /\ First(d) # 2 /\ Last(d) # 2 /\ First(d) # Last(d)
         /\ From(Near(d), d) = First(d) /\ To(Near(d), d) = 2
         /\ From(Far(d), d) = 2 /\ To(Far(d), d) = Last(d)
         /\ From(Far(d), Opposite(d)) = Last(d) /\ To(Far(d), Opposite(d)) = 2
         /\ From(Near(d), Opposite(d)) = 2 /\ To(Near(d), Opposite(d)) = First(d)
BY DEF Directions, Opposite, Near, Far, Plugins, Wires, First, Last, From, To

LEMMA Ways ==
  ASSUME NEW n \in Plugins, NEW d \in Directions
  PROVE  From(n, d) \in Wires /\ To(n, d) \in Wires /\ From(n, d) # To(n, d)
         /\ n \in Wires /\ n + 1 \in Wires /\ n # n + 1
BY DEF Directions, Plugins, Wires, From, To

-----------------------------------------------------------------------------
(* What Close and a write do *)

\* A wire stays as it is or breaks.
Wears == \A v \in Wires : wire'[v] = wire[v] \/ (wire[v] = "up" /\ wire'[v] = "broken")

LEMMA CloseEffect ==
  ASSUME TypeOK, NEW w \in Wires, NEW e \in Directions, Close(w, e)
  PROVE  /\ closed' \in [Wires -> [Directions -> BOOLEAN]]
         /\ wire' \in [Wires -> {"none", "up", "broken"}]
         /\ \A v \in Wires, x \in Directions : closed'[v][x] <=> closed[v][x] \/ (v = w /\ x = e)
         /\ Wears /\ \A v \in Wires : v # w => wire'[v] = wire[v]
<1>1. closed' = [closed EXCEPT ![w][e] = TRUE] /\ closed \in [Wires -> [Directions -> BOOLEAN]]
  BY DEF Close, TypeOK
<1>2. closed' \in [Wires -> [Directions -> BOOLEAN]]
  BY <1>1
<1>3. \A v \in Wires, x \in Directions : closed'[v][x] <=> closed[v][x] \/ (v = w /\ x = e)
  BY <1>1
<1>4. wire' = wire \/ (wire[w] = "up" /\ wire' = [wire EXCEPT ![w] = "broken"])
  BY DEF Close
<1>5. wire \in [Wires -> {"none", "up", "broken"}]
  BY DEF TypeOK
<1> QED
  BY <1>2, <1>3, <1>4, <1>5 DEF Wears

LEMMA PutEffect ==
  ASSUME TypeOK, NEW w \in Wires, NEW d \in Directions, NEW c \in 1..MaxChunks,
         wire[w] = "up", Put(w, d, c)
  PROVE  /\ inflight' \in [Wires -> [Directions -> Seq(1..MaxChunks)]]
         /\ \A v \in Wires, x \in Directions : Len(inflight'[v][x]) <= Window
         /\ IF Deaf(w, Opposite(d)) THEN inflight' = inflight
            ELSE inflight'[w][d] = Append(inflight[w][d], c)
         /\ \A v \in Wires, x \in Directions : v # w \/ x # d => inflight'[v][x] = inflight[v][x]
         /\ wire' \in [Wires -> {"none", "up", "broken"}]
         /\ Wears /\ \A v \in Wires : v # w => wire'[v] = wire[v]
<1>1. inflight \in [Wires -> [Directions -> Seq(1..MaxChunks)]] /\ wire \in [Wires -> {"none", "up", "broken"}]
  BY DEF TypeOK
<1>2. wire' = wire \/ wire' = [wire EXCEPT ![w] = "broken"]
  BY DEF Put
<1>3. wire' \in [Wires -> {"none", "up", "broken"}] /\ Wears /\ \A v \in Wires : v # w => wire'[v] = wire[v]
  BY <1>1, <1>2 DEF Wears
<1>4. CASE Deaf(w, Opposite(d))
  <2>1. inflight' = inflight
    BY <1>4 DEF Put
  <2> QED
    BY <1>1, <1>3, <1>4, <2>1 DEF TypeOK
<1>5. CASE ~Deaf(w, Opposite(d))
  <2>1. /\ Len(inflight[w][d]) < Window
        /\ inflight' = [inflight EXCEPT ![w][d] = Append(inflight[w][d], c)]
    BY <1>5 DEF Put
  <2>2. inflight[w][d] \in Seq(1..MaxChunks)
    BY <1>1
  <2>3. /\ Append(inflight[w][d], c) \in Seq(1..MaxChunks)
        /\ Len(Append(inflight[w][d], c)) = Len(inflight[w][d]) + 1 /\ Len(inflight[w][d]) \in Nat
    BY <2>2, Appended, Nonempty
  <2>4. /\ inflight' \in [Wires -> [Directions -> Seq(1..MaxChunks)]]
        /\ inflight'[w][d] = Append(inflight[w][d], c)
        /\ \A v \in Wires, x \in Directions : v # w \/ x # d => inflight'[v][x] = inflight[v][x]
    BY <1>1, <2>1, <2>3, Updated
  <2>5. \A v \in Wires, x \in Directions : Len(inflight'[v][x]) <= Window
    BY <2>1, <2>3, <2>4, BoundsAssumption DEF TypeOK
  <2> QED
    BY <1>3, <1>5, <2>4, <2>5
<1> QED
  BY <1>4, <1>5

LEMMA TakeEffect ==
  ASSUME TypeOK, NEW w \in Wires, NEW d \in Directions, inflight[w][d] # <<>>,
         inflight' = [inflight EXCEPT ![w][d] = Tail(@)]
  PROVE  /\ inflight' \in [Wires -> [Directions -> Seq(1..MaxChunks)]]
         /\ \A v \in Wires, x \in Directions : Len(inflight'[v][x]) <= Window
         /\ inflight[w][d] \in Seq(1..MaxChunks) /\ Head(inflight[w][d]) \in 1..MaxChunks
         /\ inflight'[w][d] = Tail(inflight[w][d])
         /\ \A v \in Wires, x \in Directions : v # w \/ x # d => inflight'[v][x] = inflight[v][x]
<1>1. inflight \in [Wires -> [Directions -> Seq(1..MaxChunks)]] /\ inflight[w][d] \in Seq(1..MaxChunks)
  BY DEF TypeOK
<1>2. /\ Head(inflight[w][d]) \in 1..MaxChunks /\ Tail(inflight[w][d]) \in Seq(1..MaxChunks)
      /\ Len(Tail(inflight[w][d])) = Len(inflight[w][d]) - 1 /\ Len(inflight[w][d]) \in Nat
  BY <1>1, Split, Nonempty
<1>3. /\ inflight' \in [Wires -> [Directions -> Seq(1..MaxChunks)]]
      /\ inflight'[w][d] = Tail(inflight[w][d])
      /\ \A v \in Wires, x \in Directions : v # w \/ x # d => inflight'[v][x] = inflight[v][x]
  BY <1>1, <1>2, Updated
<1>4. \A v \in Wires, x \in Directions : Len(inflight'[v][x]) <= Window
  BY <1>2, <1>3, BoundsAssumption DEF TypeOK
<1> QED
  BY <1>1, <1>2, <1>3, <1>4

-----------------------------------------------------------------------------
(* Types *)

LEMMA InitType == Init => TypeOK
<1> SUFFICES ASSUME Init PROVE TypeOK
  OBVIOUS
<1>1. <<>> \in Seq(1..MaxChunks) /\ Len(<<>>) = 0 /\ 0 \in 0..MaxChunks
  BY BoundsAssumption
<1>2. /\ recvd \in [Directions -> Seq(1..MaxChunks)]
      /\ inflight \in [Wires -> [Directions -> Seq(1..MaxChunks)]]
      /\ buf \in [Plugins -> [Directions -> Seq(1..MaxChunks)]]
      /\ sent \in [Directions -> 0..MaxChunks]
  BY <1>1 DEF Init
<1>3. \A w \in Wires, d \in Directions : Len(inflight[w][d]) <= Window
  BY <1>1, BoundsAssumption DEF Init
<1>4. \A n \in Plugins, d \in Directions :
        Len(buf[n][d]) = IF copier[n][d] \in {"write", "blocked"} THEN 1 ELSE 0
  BY <1>1 DEF Init
<1> QED
  BY <1>2, <1>3, <1>4 DEF Init, TypeOK

\* What a copy writes is a chunk.
LEMMA Held ==
  ASSUME TypeOK, NEW n \in Plugins, NEW d \in Directions, copier[n][d] \in {"write", "blocked"}
  PROVE  Len(buf[n][d]) = 1 /\ buf[n][d][1] \in 1..MaxChunks
<1>1. buf[n][d] \in Seq(1..MaxChunks)
  BY DEF TypeOK
<1>2. Len(buf[n][d]) = IF copier[n][d] \in {"write", "blocked"} THEN 1 ELSE 0
  BY DEF TypeOK
<1>3. Len(buf[n][d]) = 1
  BY <1>2
<1>4. 1 \in 1..Len(buf[n][d])
  BY <1>3
<1> QED
  BY <1>1, <1>3, <1>4, Element

\* A copy changes its state and what it holds.
LEMMA CopierType ==
  ASSUME TypeOK, NEW n \in Plugins, NEW d \in Directions,
         NEW s \in {"none", "read", "write", "blocked", "send", "exited"}, NEW b \in Seq(1..MaxChunks),
         copier' = [copier EXCEPT ![n][d] = s], buf' = [buf EXCEPT ![n][d] = b],
         IF s \in {"write", "blocked"} THEN Len(b) = 1 ELSE b = <<>>
  PROVE  /\ copier' \in [Plugins -> [Directions -> {"none", "read", "write", "blocked", "send", "exited"}]]
         /\ buf' \in [Plugins -> [Directions -> Seq(1..MaxChunks)]]
         /\ copier'[n][d] = s /\ buf'[n][d] = b
         /\ \A m \in Plugins, x \in Directions :
              m # n \/ x # d => copier'[m][x] = copier[m][x] /\ buf'[m][x] = buf[m][x]
         /\ \A m \in Plugins, x \in Directions :
              Len(buf'[m][x]) = IF copier'[m][x] \in {"write", "blocked"} THEN 1 ELSE 0
<1>1. /\ copier \in [Plugins -> [Directions -> {"none", "read", "write", "blocked", "send", "exited"}]]
      /\ buf \in [Plugins -> [Directions -> Seq(1..MaxChunks)]]
  BY DEF TypeOK
<1>2. /\ copier' \in [Plugins -> [Directions -> {"none", "read", "write", "blocked", "send", "exited"}]]
      /\ copier'[n][d] = s
      /\ \A m \in Plugins, x \in Directions : m # n \/ x # d => copier'[m][x] = copier[m][x]
  BY <1>1, Updated
<1>3. /\ buf' \in [Plugins -> [Directions -> Seq(1..MaxChunks)]]
      /\ buf'[n][d] = b
      /\ \A m \in Plugins, x \in Directions : m # n \/ x # d => buf'[m][x] = buf[m][x]
  BY <1>1, Updated
<1>4. ASSUME NEW m \in Plugins, NEW x \in Directions
      PROVE  Len(buf'[m][x]) = IF copier'[m][x] \in {"write", "blocked"} THEN 1 ELSE 0
  <2>1. CASE m = n /\ x = d
    <3>1. Len(b) = IF s \in {"write", "blocked"} THEN 1 ELSE 0
      BY Nonempty
    <3> QED
      BY <1>2, <1>3, <2>1, <3>1
  <2>2. CASE m # n \/ x # d
    BY <1>2, <1>3, <2>2 DEF TypeOK
  <2> QED
    BY <2>1, <2>2
<1> QED
  BY <1>2, <1>3, <1>4

\* A copy that holds on to what it has.
LEMMA StateType ==
  ASSUME TypeOK, NEW n \in Plugins, NEW d \in Directions,
         NEW s \in {"none", "read", "write", "blocked", "send", "exited"},
         copier' = [copier EXCEPT ![n][d] = s], UNCHANGED buf,
         copier[n][d] \in {"write", "blocked"} <=> s \in {"write", "blocked"}
  PROVE  /\ copier' \in [Plugins -> [Directions -> {"none", "read", "write", "blocked", "send", "exited"}]]
         /\ copier'[n][d] = s
         /\ \A m \in Plugins, x \in Directions : m # n \/ x # d => copier'[m][x] = copier[m][x]
         /\ \A m \in Plugins, x \in Directions :
              Len(buf'[m][x]) = IF copier'[m][x] \in {"write", "blocked"} THEN 1 ELSE 0
<1>1. copier \in [Plugins -> [Directions -> {"none", "read", "write", "blocked", "send", "exited"}]]
  BY DEF TypeOK
<1>2. /\ copier' \in [Plugins -> [Directions -> {"none", "read", "write", "blocked", "send", "exited"}]]
      /\ copier'[n][d] = s
      /\ \A m \in Plugins, x \in Directions : m # n \/ x # d => copier'[m][x] = copier[m][x]
  BY <1>1, Updated
<1>3. ASSUME NEW m \in Plugins, NEW x \in Directions
      PROVE  Len(buf'[m][x]) = IF copier'[m][x] \in {"write", "blocked"} THEN 1 ELSE 0
  <2>1. CASE m = n /\ x = d
    BY <1>2, <2>1 DEF TypeOK
  <2>2. CASE m # n \/ x # d
    BY <1>2, <2>2 DEF TypeOK
  <2> QED
    BY <2>1, <2>2
<1> QED
  BY <1>2, <1>3


-----------------------------------------------------------------------------
(* What each step does to the chunks *)

LEMMA SendEffect ==
  ASSUME TypeOK, NEW d \in Directions, Send(d)
  PROVE  /\ TypeOK' /\ Wears /\ \A v \in Wires : v # First(d) => wire'[v] = wire[v]
         /\ ~finished[d] /\ sent' = [sent EXCEPT ![d] = sent[d] + 1]
         /\ sent'[d] = sent[d] + 1 /\ \A x \in Directions : x # d => sent'[x] = sent[x]
         /\ IF Hears(d) THEN inflight'[First(d)][d] = Append(inflight[First(d)][d], sent[d] + 1)
            ELSE inflight' = inflight
         /\ \A v \in Wires, x \in Directions : v # First(d) \/ x # d => inflight'[v][x] = inflight[v][x]
<1>1. /\ ~finished[d] /\ wire[First(d)] = "up" /\ sent[d] < load.chunks[d]
      /\ sent' = [sent EXCEPT ![d] = sent[d] + 1] /\ Put(First(d), d, sent[d] + 1)
      /\ UNCHANGED <<kind, load, finished, recvd, over, closed, relayVars>>
  BY DEF Send
<1>2. First(d) \in Wires
  BY Route
<1>3. load.chunks[d] \in 0..MaxChunks /\ sent[d] \in 0..MaxChunks
  BY BoundsAssumption DEF TypeOK
<1>4. sent[d] + 1 \in 1..MaxChunks
  BY <1>1, <1>3, BoundsAssumption
<1>5. /\ inflight' \in [Wires -> [Directions -> Seq(1..MaxChunks)]]
      /\ \A v \in Wires, x \in Directions : Len(inflight'[v][x]) <= Window
      /\ IF Deaf(First(d), Opposite(d)) THEN inflight' = inflight
         ELSE inflight'[First(d)][d] = Append(inflight[First(d)][d], sent[d] + 1)
      /\ \A v \in Wires, x \in Directions : v # First(d) \/ x # d => inflight'[v][x] = inflight[v][x]
      /\ wire' \in [Wires -> {"none", "up", "broken"}]
      /\ Wears /\ \A v \in Wires : v # First(d) => wire'[v] = wire[v]
  BY <1>1, <1>2, <1>4, PutEffect
<1>6. sent' \in [Directions -> 0..MaxChunks] /\ sent'[d] = sent[d] + 1
      /\ \A x \in Directions : x # d => sent'[x] = sent[x]
  BY <1>1, <1>4 DEF TypeOK
<1>7. TypeOK'
  BY <1>1, <1>5, <1>6 DEF TypeOK, relayVars
<1> QED
  BY <1>1, <1>5, <1>6, <1>7 DEF Hears

LEMMA ReceiveEffect ==
  ASSUME TypeOK, NEW d \in Directions, Receive(d)
  PROVE  /\ TypeOK' /\ inflight[Last(d)][d] # <<>> /\ ~over[d]
         /\ recvd' = [recvd EXCEPT ![d] = Append(recvd[d], Head(inflight[Last(d)][d]))]
         /\ recvd'[d] = Append(recvd[d], Head(inflight[Last(d)][d]))
         /\ \A x \in Directions : x # d => recvd'[x] = recvd[x]
         /\ inflight'[Last(d)][d] = Tail(inflight[Last(d)][d])
         /\ \A v \in Wires, x \in Directions : v # Last(d) \/ x # d => inflight'[v][x] = inflight[v][x]
         /\ UNCHANGED <<kind, load, sent, finished, over, wire, closed, relayVars>>
<1>1. /\ ~over[d] /\ inflight[Last(d)][d] # <<>>
      /\ recvd' = [recvd EXCEPT ![d] = Append(recvd[d], Head(inflight[Last(d)][d]))]
      /\ inflight' = [inflight EXCEPT ![Last(d)][d] = Tail(@)]
      /\ UNCHANGED <<kind, load, sent, finished, over, wire, closed, relayVars>>
  BY DEF Receive
<1>2. Last(d) \in Wires
  BY Route
<1>3. /\ inflight' \in [Wires -> [Directions -> Seq(1..MaxChunks)]]
      /\ \A v \in Wires, x \in Directions : Len(inflight'[v][x]) <= Window
      /\ Head(inflight[Last(d)][d]) \in 1..MaxChunks
      /\ inflight'[Last(d)][d] = Tail(inflight[Last(d)][d])
      /\ \A v \in Wires, x \in Directions : v # Last(d) \/ x # d => inflight'[v][x] = inflight[v][x]
  BY <1>1, <1>2, TakeEffect
<1>4. recvd \in [Directions -> Seq(1..MaxChunks)] /\ recvd[d] \in Seq(1..MaxChunks)
  BY DEF TypeOK
<1>5. Append(recvd[d], Head(inflight[Last(d)][d])) \in Seq(1..MaxChunks)
  BY <1>3, <1>4, Appended
<1>6. /\ recvd' \in [Directions -> Seq(1..MaxChunks)]
      /\ recvd'[d] = Append(recvd[d], Head(inflight[Last(d)][d]))
      /\ \A x \in Directions : x # d => recvd'[x] = recvd[x]
  BY <1>1, <1>4, <1>5
<1>7. TypeOK'
  BY <1>1, <1>3, <1>6 DEF TypeOK, relayVars
<1> QED
  BY <1>1, <1>3, <1>6, <1>7

LEMMA ReadEffect ==
  ASSUME TypeOK, NEW n \in Plugins, NEW d \in Directions, Read(n, d)
  PROVE  /\ TypeOK' /\ inflight[From(n, d)][d] # <<>>
         /\ copier[n][d] = "read" /\ copier'[n][d] = "write" /\ buf[n][d] = <<>>
         /\ buf'[n][d] = <<Head(inflight[From(n, d)][d])>>
         /\ \A m \in Plugins, x \in Directions :
              m # n \/ x # d => copier'[m][x] = copier[m][x] /\ buf'[m][x] = buf[m][x]
         /\ inflight'[From(n, d)][d] = Tail(inflight[From(n, d)][d])
         /\ \A v \in Wires, x \in Directions : v # From(n, d) \/ x # d => inflight'[v][x] = inflight[v][x]
         /\ UNCHANGED <<kind, load, appVars, wire, closed, relay, errs>>
<1>1. /\ copier[n][d] = "read" /\ inflight[From(n, d)][d] # <<>>
      /\ buf' = [buf EXCEPT ![n][d] = <<Head(inflight[From(n, d)][d])>>]
      /\ inflight' = [inflight EXCEPT ![From(n, d)][d] = Tail(@)]
      /\ copier' = [copier EXCEPT ![n][d] = "write"]
      /\ UNCHANGED <<kind, load, appVars, wire, closed, relay, errs>>
  BY DEF Read
<1>2. From(n, d) \in Wires
  BY Ways
<1>3. /\ inflight' \in [Wires -> [Directions -> Seq(1..MaxChunks)]]
      /\ \A v \in Wires, x \in Directions : Len(inflight'[v][x]) <= Window
      /\ Head(inflight[From(n, d)][d]) \in 1..MaxChunks
      /\ inflight'[From(n, d)][d] = Tail(inflight[From(n, d)][d])
      /\ \A v \in Wires, x \in Directions : v # From(n, d) \/ x # d => inflight'[v][x] = inflight[v][x]
  BY <1>1, <1>2, TakeEffect
<1>4. /\ <<Head(inflight[From(n, d)][d])>> \in Seq(1..MaxChunks)
      /\ Len(<<Head(inflight[From(n, d)][d])>>) = 1
  BY <1>3, Single
<1>5. /\ copier' \in [Plugins -> [Directions -> {"none", "read", "write", "blocked", "send", "exited"}]]
      /\ buf' \in [Plugins -> [Directions -> Seq(1..MaxChunks)]]
      /\ copier'[n][d] = "write" /\ buf'[n][d] = <<Head(inflight[From(n, d)][d])>>
      /\ \A m \in Plugins, x \in Directions :
           m # n \/ x # d => copier'[m][x] = copier[m][x] /\ buf'[m][x] = buf[m][x]
      /\ \A m \in Plugins, x \in Directions :
           Len(buf'[m][x]) = IF copier'[m][x] \in {"write", "blocked"} THEN 1 ELSE 0
  BY <1>1, <1>4, CopierType
<1>6. buf[n][d] \in Seq(1..MaxChunks)
  BY DEF TypeOK
<1>7. Len(buf[n][d]) = IF copier[n][d] \in {"write", "blocked"} THEN 1 ELSE 0
  BY DEF TypeOK
<1>8. buf[n][d] = <<>>
  BY <1>1, <1>6, <1>7, Nonempty
<1>9. TypeOK'
  BY <1>1, <1>3, <1>5 DEF TypeOK, appVars
<1> QED
  BY <1>1, <1>3, <1>5, <1>8, <1>9

LEMMA WriteEffect ==
  ASSUME TypeOK, NEW n \in Plugins, NEW d \in Directions, Write(n, d)
  PROVE  /\ TypeOK' /\ Wears /\ \A v \in Wires : v # To(n, d) => wire'[v] = wire[v]
         /\ copier[n][d] \in {"write", "blocked"} /\ copier'[n][d] = "read"
         /\ Len(buf[n][d]) = 1 /\ buf[n][d][1] \in 1..MaxChunks /\ buf'[n][d] = <<>>
         /\ \A m \in Plugins, x \in Directions :
              m # n \/ x # d => copier'[m][x] = copier[m][x] /\ buf'[m][x] = buf[m][x]
         /\ IF Deaf(To(n, d), Opposite(d)) THEN inflight' = inflight
            ELSE inflight'[To(n, d)][d] = Append(inflight[To(n, d)][d], buf[n][d][1])
         /\ \A v \in Wires, x \in Directions : v # To(n, d) \/ x # d => inflight'[v][x] = inflight[v][x]
         /\ UNCHANGED <<kind, load, appVars, closed, relay, errs>>
<1>1. /\ copier[n][d] \in {"write", "blocked"} /\ wire[To(n, d)] = "up"
      /\ Put(To(n, d), d, buf[n][d][1])
      /\ buf' = [buf EXCEPT ![n][d] = <<>>] /\ copier' = [copier EXCEPT ![n][d] = "read"]
      /\ UNCHANGED <<kind, load, appVars, closed, relay, errs>>
  BY DEF Write
<1>2. To(n, d) \in Wires
  BY Ways
<1>3. Len(buf[n][d]) = 1 /\ buf[n][d][1] \in 1..MaxChunks
  BY <1>1, Held
<1>4. /\ inflight' \in [Wires -> [Directions -> Seq(1..MaxChunks)]]
      /\ \A v \in Wires, x \in Directions : Len(inflight'[v][x]) <= Window
      /\ IF Deaf(To(n, d), Opposite(d)) THEN inflight' = inflight
         ELSE inflight'[To(n, d)][d] = Append(inflight[To(n, d)][d], buf[n][d][1])
      /\ \A v \in Wires, x \in Directions : v # To(n, d) \/ x # d => inflight'[v][x] = inflight[v][x]
      /\ wire' \in [Wires -> {"none", "up", "broken"}]
      /\ Wears /\ \A v \in Wires : v # To(n, d) => wire'[v] = wire[v]
  BY <1>1, <1>2, <1>3, PutEffect
<1>5. <<>> \in Seq(1..MaxChunks)
  OBVIOUS
<1>6. /\ copier' \in [Plugins -> [Directions -> {"none", "read", "write", "blocked", "send", "exited"}]]
      /\ buf' \in [Plugins -> [Directions -> Seq(1..MaxChunks)]]
      /\ copier'[n][d] = "read" /\ buf'[n][d] = <<>>
      /\ \A m \in Plugins, x \in Directions :
           m # n \/ x # d => copier'[m][x] = copier[m][x] /\ buf'[m][x] = buf[m][x]
      /\ \A m \in Plugins, x \in Directions :
           Len(buf'[m][x]) = IF copier'[m][x] \in {"write", "blocked"} THEN 1 ELSE 0
  BY <1>1, <1>5, CopierType
<1>7. TypeOK'
  BY <1>1, <1>4, <1>6 DEF TypeOK, appVars
<1> QED
  BY <1>1, <1>3, <1>4, <1>6, <1>7

LEMMA WriteErrEffect ==
  ASSUME TypeOK, NEW n \in Plugins, NEW d \in Directions, WriteErr(n, d)
  PROVE  /\ TypeOK' /\ copier[n][d] \in {"write", "blocked"} /\ copier'[n][d] = "send"
         /\ Len(buf[n][d]) = 1 /\ buf'[n][d] = <<>>
         /\ \A m \in Plugins, x \in Directions :
              m # n \/ x # d => copier'[m][x] = copier[m][x] /\ buf'[m][x] = buf[m][x]
         /\ closed[To(n, d)][d] \/ wire[To(n, d)] = "broken" \/ Deaf(To(n, d), Opposite(d))
         /\ UNCHANGED <<kind, load, appVars, wireVars, relay, errs>>
<1>1. /\ copier[n][d] \in {"write", "blocked"}
      /\ closed[To(n, d)][d] \/ wire[To(n, d)] = "broken" \/ Deaf(To(n, d), Opposite(d))
      /\ buf' = [buf EXCEPT ![n][d] = <<>>] /\ copier' = [copier EXCEPT ![n][d] = "send"]
      /\ UNCHANGED <<kind, load, appVars, wireVars, relay, errs>>
  BY DEF WriteErr
<1>2. Len(buf[n][d]) = 1
  BY <1>1, Held
<1>3. <<>> \in Seq(1..MaxChunks)
  OBVIOUS
<1>4. /\ copier' \in [Plugins -> [Directions -> {"none", "read", "write", "blocked", "send", "exited"}]]
      /\ buf' \in [Plugins -> [Directions -> Seq(1..MaxChunks)]]
      /\ copier'[n][d] = "send" /\ buf'[n][d] = <<>>
      /\ \A m \in Plugins, x \in Directions :
           m # n \/ x # d => copier'[m][x] = copier[m][x] /\ buf'[m][x] = buf[m][x]
      /\ \A m \in Plugins, x \in Directions :
           Len(buf'[m][x]) = IF copier'[m][x] \in {"write", "blocked"} THEN 1 ELSE 0
  BY <1>1, <1>3, CopierType
<1>5. TypeOK'
  BY <1>1, <1>4 DEF TypeOK, appVars, wireVars
<1> QED
  BY <1>1, <1>2, <1>4, <1>5

\* The steps of the programs and of a handler that move no chunk.
LEMMA ProgramType ==
  ASSUME TypeOK, NEW d \in Directions, Finish(d) \/ Leave(d) \/ SeeEnd(d)
  PROVE  TypeOK'
<1>1. First(d) \in Wires
  BY Route
<1>2. CASE Finish(d)
  BY <1>2 DEF Finish, TypeOK, wireVars, relayVars
<1>3. CASE Leave(d)
  BY <1>1, <1>3, CloseEffect DEF Leave, TypeOK, relayVars
<1>4. CASE SeeEnd(d)
  BY <1>4 DEF SeeEnd, TypeOK, wireVars, relayVars
<1> QED
  BY <1>2, <1>3, <1>4

LEMMA HandlerType ==
  ASSUME TypeOK, Undialled, NEW n \in Plugins,
         Accept(n) \/ Refuse(n) \/ DialErr(n) \/ DialOK(n) \/ Handler(n)
  PROVE  TypeOK'
<1>1. n \in Wires /\ n + 1 \in Wires /\ "up" \in Directions /\ "down" \in Directions
  BY Ways DEF Directions
<1>2. CASE Accept(n)
  BY <1>2 DEF Accept, TypeOK, appVars, wireVars
<1>3. CASE Refuse(n)
  BY <1>1, <1>3, CloseEffect DEF Refuse, TypeOK, appVars
<1>4. CASE DialErr(n)
  BY <1>4 DEF DialErr, TypeOK, appVars, wireVars
<1>5. CASE DialOK(n)
  <2>1. /\ wire' = [wire EXCEPT ![n + 1] = "up"] /\ relay' = [relay EXCEPT ![n] = "wait"]
        /\ copier' = [copier EXCEPT ![n] = [d \in Directions |-> "read"]]
        /\ UNCHANGED <<kind, load, appVars, closed, inflight, buf, errs>>
    BY <1>5 DEF DialOK
  <2>2. \A d \in Directions : copier[n][d] = "none"
    BY <1>5 DEF DialOK, Undialled
  <2>3. /\ copier' \in [Plugins -> [Directions -> {"none", "read", "write", "blocked", "send", "exited"}]]
        /\ \A d \in Directions : copier'[n][d] = "read"
        /\ \A m \in Plugins : m # n => copier'[m] = copier[m]
    BY <2>1 DEF TypeOK
  <2>4. ASSUME NEW m \in Plugins, NEW d \in Directions
        PROVE  Len(buf'[m][d]) = IF copier'[m][d] \in {"write", "blocked"} THEN 1 ELSE 0
    <3>1. CASE m = n
      BY <2>1, <2>2, <2>3, <3>1 DEF TypeOK
    <3>2. CASE m # n
      BY <2>1, <2>3, <3>2 DEF TypeOK
    <3> QED
      BY <3>1, <3>2
  <2> QED
    BY <1>1, <2>1, <2>3, <2>4 DEF TypeOK, appVars
<1>6. CASE FirstCopyEnds(n)
  <2>1. errs[n] - 1 \in 0..2
    BY <1>6 DEF FirstCopyEnds, TypeOK
  <2> QED
    BY <1>6, <2>1 DEF FirstCopyEnds, TypeOK, appVars, wireVars
<1>7. CASE CloseOutbound(n)
  BY <1>1, <1>7, CloseEffect DEF CloseOutbound, TypeOK, appVars
<1>8. CASE CloseInbound(n)
  BY <1>1, <1>8, CloseEffect DEF CloseInbound, TypeOK, appVars
<1> QED
  BY <1>2, <1>3, <1>4, <1>5, <1>6, <1>7, <1>8 DEF Handler

\* A copy learns of an end, waits, or reports.
LEMMA CopyType ==
  ASSUME TypeOK, NEW n \in Plugins, NEW d \in Directions,
         ReadEnd(n, d) \/ Block(n, d) \/ SendErr(n, d)
  PROVE  /\ TypeOK'
         /\ \A m \in Plugins, x \in Directions : m # n \/ x # d => copier'[m][x] = copier[m][x]
         /\ ReadEnd(n, d) => copier'[n][d] = "send"
         /\ Block(n, d) => copier'[n][d] = "blocked"
         /\ SendErr(n, d) => copier'[n][d] = "exited"
<1>1. CASE ReadEnd(n, d)
  <2>1. /\ copier[n][d] = "read" /\ copier' = [copier EXCEPT ![n][d] = "send"]
        /\ UNCHANGED <<kind, load, appVars, wireVars, relay, buf, errs>>
    BY <1>1 DEF ReadEnd
  <2>2. /\ copier' \in [Plugins -> [Directions -> {"none", "read", "write", "blocked", "send", "exited"}]]
        /\ copier'[n][d] = "send"
        /\ \A m \in Plugins, x \in Directions : m # n \/ x # d => copier'[m][x] = copier[m][x]
        /\ \A m \in Plugins, x \in Directions :
             Len(buf'[m][x]) = IF copier'[m][x] \in {"write", "blocked"} THEN 1 ELSE 0
    BY <2>1, StateType
  <2>3. TypeOK'
    BY <2>1, <2>2 DEF TypeOK, appVars, wireVars
  <2> QED
    BY <1>1, <2>1, <2>2, <2>3 DEF Block, SendErr
<1>2. CASE Block(n, d)
  <2>1. /\ copier[n][d] = "write" /\ copier' = [copier EXCEPT ![n][d] = "blocked"]
        /\ UNCHANGED <<kind, load, appVars, wireVars, relay, buf, errs>>
    BY <1>2 DEF Block
  <2>2. /\ copier' \in [Plugins -> [Directions -> {"none", "read", "write", "blocked", "send", "exited"}]]
        /\ copier'[n][d] = "blocked"
        /\ \A m \in Plugins, x \in Directions : m # n \/ x # d => copier'[m][x] = copier[m][x]
        /\ \A m \in Plugins, x \in Directions :
             Len(buf'[m][x]) = IF copier'[m][x] \in {"write", "blocked"} THEN 1 ELSE 0
    BY <2>1, StateType
  <2>3. TypeOK'
    BY <2>1, <2>2 DEF TypeOK, appVars, wireVars
  <2> QED
    BY <1>2, <2>1, <2>2, <2>3 DEF ReadEnd, SendErr
<1>3. CASE SendErr(n, d)
  <2>1. /\ copier[n][d] = "send" /\ copier' = [copier EXCEPT ![n][d] = "exited"]
        /\ errs[n] < 2 /\ errs' = [errs EXCEPT ![n] = errs[n] + 1]
        /\ UNCHANGED <<kind, load, appVars, wireVars, relay, buf>>
    BY <1>3 DEF SendErr
  <2>2. /\ copier' \in [Plugins -> [Directions -> {"none", "read", "write", "blocked", "send", "exited"}]]
        /\ copier'[n][d] = "exited"
        /\ \A m \in Plugins, x \in Directions : m # n \/ x # d => copier'[m][x] = copier[m][x]
        /\ \A m \in Plugins, x \in Directions :
             Len(buf'[m][x]) = IF copier'[m][x] \in {"write", "blocked"} THEN 1 ELSE 0
    BY <2>1, StateType
  <2>3. errs' \in [Plugins -> 0..2]
    <3>1. errs \in [Plugins -> 0..2]
      BY DEF TypeOK
    <3>2. errs[n] + 1 \in 0..2
      BY <2>1, <3>1
    <3> QED
      BY <2>1, <3>1, <3>2
  <2>4. TypeOK'
    BY <2>1, <2>2, <2>3 DEF TypeOK, appVars, wireVars
  <2> QED
    BY <1>3, <2>1, <2>2, <2>4 DEF ReadEnd, Block
<1> QED
  BY <1>1, <1>2, <1>3

LEMMA BreakType ==
  ASSUME TypeOK, NEW w \in load.breakable, Break(w)
  PROVE  TypeOK' /\ w \in Wires
<1>1. w \in Wires
  BY BoundsAssumption DEF TypeOK
<1> QED
  BY <1>1 DEF Break, TypeOK, appVars, relayVars

LEMMA StepType == TypeOK /\ Undialled /\ [Next]_vars => TypeOK'
<1> SUFFICES ASSUME TypeOK, Undialled, [Next]_vars PROVE TypeOK'
  OBVIOUS
<1>1. ASSUME NEW d \in Directions, Send(d) \/ Finish(d) \/ Leave(d) \/ AppReads(d)
      PROVE  TypeOK'
  BY <1>1, SendEffect, ReceiveEffect, ProgramType DEF AppReads
<1>2. ASSUME NEW n \in Plugins, Accept(n) \/ Refuse(n) \/ DialErr(n) \/ DialOK(n) \/ Handler(n)
      PROVE  TypeOK'
  BY <1>2, HandlerType
<1>3. ASSUME NEW n \in Plugins, NEW d \in Directions, Copy(n, d) \/ Block(n, d)
      PROVE  TypeOK'
  BY <1>3, ReadEffect, WriteEffect, WriteErrEffect, CopyType DEF Copy
<1>4. ASSUME NEW w \in load.breakable, Break(w)
      PROVE  TypeOK'
  BY <1>4, BreakType
<1>5. CASE UNCHANGED vars
  BY <1>5 DEF vars, appVars, wireVars, relayVars, TypeOK
<1> QED
  BY <1>1, <1>2, <1>3, <1>4, <1>5 DEF Next

-----------------------------------------------------------------------------
(* What stays as it is *)

Steady ==
  /\ kind' = kind
  /\ \A w \in Wires, x \in Directions : closed[w][x] => closed'[w][x]
  /\ \A w \in Wires : wire[w] = "broken" => wire'[w] = "broken"
  /\ \A n \in Plugins, x \in Directions : Ended(n, x) => Ended(n, x)'
  /\ \A n \in Plugins : relay[n] \in {"closeIn", "done"} => relay'[n] \in {"closeIn", "done"}
  /\ \A n \in Plugins : relay[n] \in {"closeIn", "done"} /\ wire[n + 1] = "none" => wire'[n + 1] = "none"
  /\ \A x \in Directions : finished[x] => finished'[x]
  /\ \A x \in Directions : sent[x] > 0 => sent'[x] > 0

LEMMA WearsSteady ==
  ASSUME TypeOK, Wears
  PROVE  /\ \A w \in Wires : wire[w] = "broken" => wire'[w] = "broken"
         /\ \A n \in Plugins : wire[n + 1] = "none" => wire'[n + 1] = "none"
BY Ways DEF Wears, Directions, Plugins, Wires

\* A copy leaves the handlers alone.
LEMMA CopySteady ==
  ASSUME TypeOK, Handlers, UNCHANGED <<kind, appVars, closed, relay>>, Wears,
         NEW n \in Plugins, NEW d \in Directions, copier[n][d] # "none",
         Ended(n, d) => Ended(n, d)',
         \A m \in Plugins, x \in Directions : m # n \/ x # d => copier'[m][x] = copier[m][x]
  PROVE  Handlers' /\ Steady
<1>1. /\ \A w \in Wires : wire[w] = "broken" => wire'[w] = "broken"
      /\ \A m \in Plugins : wire[m + 1] = "none" => wire'[m + 1] = "none"
  BY WearsSteady
<1>2. \A m \in Plugins, x \in Directions : Ended(m, x) => Ended(m, x)'
  BY DEF Ended
<1>3. Steady
  BY <1>1, <1>2 DEF Steady, appVars
<1>4. Undialled'
  BY <1>1 DEF Handlers, Undialled
<1>5. Closers'
  BY DEF Handlers, Closers
<1> QED
  BY <1>3, <1>4, <1>5 DEF Handlers

LEMMA ProgramSteady ==
  ASSUME TypeOK, Handlers, NEW d \in Directions, Send(d) \/ Finish(d) \/ Leave(d) \/ AppReads(d)
  PROVE  Handlers' /\ Steady
<1>1. First(d) \in Wires
  BY Route
<1>2. CASE Send(d)
  <2>1. /\ Wears /\ sent'[d] = sent[d] + 1 /\ \A x \in Directions : x # d => sent'[x] = sent[x]
        /\ UNCHANGED <<kind, finished, closed, relay, copier>>
    BY <1>2, SendEffect DEF Send, relayVars
  <2>2. /\ \A w \in Wires : wire[w] = "broken" => wire'[w] = "broken"
        /\ \A m \in Plugins : wire[m + 1] = "none" => wire'[m + 1] = "none"
    BY <2>1, WearsSteady
  <2>3. \A x \in Directions : sent[x] > 0 => sent'[x] > 0
    <3>1. \A x \in Directions : sent[x] \in Nat
      BY BoundsAssumption DEF TypeOK
    <3> QED
      BY <2>1, <3>1
  <2>4. Steady
    BY <2>1, <2>2, <2>3 DEF Steady, Ended
  <2> QED
    BY <2>1, <2>2, <2>4 DEF Handlers, Undialled, Closers
<1>3. CASE Finish(d) \/ AppReads(d)
  <2>1. /\ finished' = [finished EXCEPT ![d] = TRUE] \/ finished' = finished
        /\ UNCHANGED <<kind, sent, wire, closed, relay, copier>>
    BY <1>3 DEF Finish, AppReads, Receive, SeeEnd, wireVars, relayVars
  <2>2. Steady
    BY <2>1 DEF Steady, Ended, TypeOK
  <2> QED
    BY <2>1, <2>2 DEF Handlers, Undialled, Closers
<1>4. CASE Leave(d)
  <2>1. /\ Close(First(d), d) /\ finished' = [finished EXCEPT ![d] = TRUE]
        /\ UNCHANGED <<kind, sent, relay, copier>>
    BY <1>4 DEF Leave, relayVars
  <2>2. Wears /\ \A v \in Wires, x \in Directions : closed'[v][x] <=> closed[v][x] \/ (v = First(d) /\ x = d)
    BY <1>1, <2>1, CloseEffect
  <2>3. /\ \A w \in Wires : wire[w] = "broken" => wire'[w] = "broken"
        /\ \A m \in Plugins : wire[m + 1] = "none" => wire'[m + 1] = "none"
    BY <2>2, WearsSteady
  <2>4. Steady
    BY <2>1, <2>2, <2>3 DEF Steady, Ended, TypeOK
  <2>5. Closers'
    BY <2>1, <2>2 DEF Handlers, Closers, First, Directions, Plugins, Wires
  <2> QED
    BY <2>1, <2>3, <2>4, <2>5 DEF Handlers, Undialled
<1> QED
  BY <1>2, <1>3, <1>4

LEMMA HandlerSteady ==
  ASSUME TypeOK, Handlers, NEW n \in Plugins,
         Accept(n) \/ Refuse(n) \/ DialErr(n) \/ DialOK(n) \/ Handler(n)
  PROVE  Handlers' /\ Steady
<1>1. n \in Wires /\ n + 1 \in Wires /\ n # n + 1 /\ "up" \in Directions /\ "down" \in Directions
  BY Ways DEF Directions
<1>2. CASE Accept(n) \/ DialErr(n) \/ FirstCopyEnds(n)
  <2>1. /\ UNCHANGED <<kind, appVars, wireVars, copier>>
        /\ \/ relay[n] = "none" /\ relay' = [relay EXCEPT ![n] = "dial"]
           \/ relay[n] = "dial" /\ relay' = [relay EXCEPT ![n] = "closeIn"]
           \/ relay[n] = "wait" /\ relay' = [relay EXCEPT ![n] = "closeOut"]
    BY <1>2 DEF Accept, DialErr, FirstCopyEnds
  <2>2. \A m \in Plugins : m # n => relay'[m] = relay[m]
    BY <2>1 DEF TypeOK
  <2>3. \/ relay[n] = "none" /\ relay'[n] = "dial"
        \/ relay[n] = "dial" /\ relay'[n] = "closeIn"
        \/ relay[n] = "wait" /\ relay'[n] = "closeOut"
    BY <2>1 DEF TypeOK
  <2>4. Steady
    BY <2>1, <2>2, <2>3 DEF Steady, Ended, appVars, wireVars
  <2> QED
    BY <2>1, <2>2, <2>3, <2>4 DEF Handlers, Undialled, Closers, wireVars
<1>3. CASE DialOK(n)
  <2>1. /\ relay[n] = "dial" /\ wire' = [wire EXCEPT ![n + 1] = "up"]
        /\ relay' = [relay EXCEPT ![n] = "wait"]
        /\ copier' = [copier EXCEPT ![n] = [d \in Directions |-> "read"]]
        /\ UNCHANGED <<kind, load, appVars, closed, inflight, buf, errs>>
    BY <1>3 DEF DialOK
  <2>2. wire[n + 1] = "none" /\ \A d \in Directions : ~Ended(n, d)
    BY <2>1 DEF Handlers, Undialled, Ended
  <2>3. \A m \in Plugins : m # n => wire'[m + 1] = wire[m + 1] /\ relay'[m] = relay[m] /\ copier'[m] = copier[m]
    BY <2>1 DEF TypeOK, Plugins
  <2>4. relay'[n] = "wait" /\ \A w \in Wires : w # n + 1 => wire'[w] = wire[w]
    BY <2>1 DEF TypeOK
  <2>5. Steady
    BY <2>1, <2>2, <2>3, <2>4 DEF Steady, Ended, appVars
  <2>6. Undialled'
    BY <2>3, <2>4 DEF Handlers, Undialled
  <2>7. Closers'
    BY <2>1, <2>3, <2>4 DEF Handlers, Closers
  <2> QED
    BY <2>5, <2>6, <2>7 DEF Handlers
<1>4. CASE Refuse(n) \/ CloseInbound(n)
  <2>1. /\ relay[n] \in {"none", "closeIn"} /\ relay' = [relay EXCEPT ![n] = "done"] /\ Close(n, "down")
        /\ UNCHANGED <<kind, appVars, copier>>
    BY <1>4 DEF Refuse, CloseInbound
  <2>2. Wears /\ \A v \in Wires, x \in Directions : closed'[v][x] <=> closed[v][x] \/ (v = n /\ x = "down")
    BY <1>1, <2>1, CloseEffect
  <2>3. /\ \A w \in Wires : wire[w] = "broken" => wire'[w] = "broken"
        /\ \A m \in Plugins : wire[m + 1] = "none" => wire'[m + 1] = "none"
    BY <2>2, WearsSteady
  <2>4. relay'[n] = "done" /\ \A m \in Plugins : m # n => relay'[m] = relay[m]
    BY <2>1 DEF TypeOK
  <2>5. Steady
    BY <2>1, <2>2, <2>3, <2>4 DEF Steady, Ended, appVars
  <2>6. Undialled'
    BY <2>1, <2>3, <2>4 DEF Handlers, Undialled
  <2>7. Closers'
    BY <2>2, <2>4, Ways DEF Handlers, Closers, Directions, Plugins, Wires
  <2> QED
    BY <2>5, <2>6, <2>7 DEF Handlers
<1>5. CASE CloseOutbound(n)
  <2>1. /\ relay[n] = "closeOut" /\ relay' = [relay EXCEPT ![n] = "closeIn"] /\ Close(n + 1, "up")
        /\ UNCHANGED <<kind, appVars, copier>>
    BY <1>5 DEF CloseOutbound
  <2>2. Wears /\ \A v \in Wires, x \in Directions : closed'[v][x] <=> closed[v][x] \/ (v = n + 1 /\ x = "up")
    BY <1>1, <2>1, CloseEffect
  <2>3. /\ \A w \in Wires : wire[w] = "broken" => wire'[w] = "broken"
        /\ \A m \in Plugins : wire[m + 1] = "none" => wire'[m + 1] = "none"
    BY <2>2, WearsSteady
  <2>4. relay'[n] = "closeIn" /\ \A m \in Plugins : m # n => relay'[m] = relay[m]
    BY <2>1 DEF TypeOK
  <2>5. Steady
    BY <2>1, <2>2, <2>3, <2>4 DEF Steady, Ended, appVars
  <2>6. Undialled'
    BY <2>1, <2>3, <2>4 DEF Handlers, Undialled
  <2>7. Closers'
    BY <2>1, <2>2, <2>4, Ways DEF Handlers, Closers, Directions, Plugins, Wires
  <2> QED
    BY <2>5, <2>6, <2>7 DEF Handlers
<1> QED
  BY <1>2, <1>3, <1>4, <1>5 DEF Handler

LEMMA StepSteady == TypeOK /\ Handlers /\ [Next]_vars => Handlers' /\ Steady
<1> SUFFICES ASSUME TypeOK, Handlers, [Next]_vars PROVE Handlers' /\ Steady
  OBVIOUS
<1>1. UNCHANGED wire => Wears
  BY DEF Wears
<1>2. ASSUME NEW n \in Plugins, NEW d \in Directions, Copy(n, d) \/ Block(n, d)
      PROVE  Handlers' /\ Steady
  <2>1. CASE Read(n, d)
    BY <1>1, <2>1, ReadEffect, CopySteady DEF Ended
  <2>2. CASE Write(n, d)
    BY <2>2, WriteEffect, CopySteady DEF Ended
  <2>3. CASE WriteErr(n, d)
    BY <1>1, <2>3, WriteErrEffect, CopySteady DEF Ended, wireVars
  <2>4. CASE ReadEnd(n, d)
    BY <1>1, <2>4, CopyType, CopySteady DEF ReadEnd, Ended, wireVars
  <2>5. CASE Block(n, d)
    BY <1>1, <2>5, CopyType, CopySteady DEF Block, Ended, wireVars
  <2>6. CASE SendErr(n, d)
    BY <1>1, <2>6, CopyType, CopySteady DEF SendErr, Ended, wireVars
  <2> QED
    BY <1>2, <2>1, <2>2, <2>3, <2>4, <2>5, <2>6 DEF Copy
<1>3. ASSUME NEW w \in load.breakable, Break(w)
      PROVE  Handlers' /\ Steady
  <2>1. wire[w] = "up" /\ wire' = [wire EXCEPT ![w] = "broken"] /\ UNCHANGED <<kind, appVars, closed, relayVars>>
    BY <1>3 DEF Break
  <2>2. Wears
    BY <2>1 DEF Wears, TypeOK
  <2>3. /\ \A v \in Wires : wire[v] = "broken" => wire'[v] = "broken"
        /\ \A m \in Plugins : wire[m + 1] = "none" => wire'[m + 1] = "none"
    BY <2>2, WearsSteady
  <2> QED
    BY <2>1, <2>3 DEF Handlers, Undialled, Closers, Steady, Ended, appVars, relayVars
<1>4. CASE UNCHANGED vars
  BY <1>4 DEF vars, appVars, wireVars, relayVars, Handlers, Undialled, Closers, Steady, Ended
<1> QED
  BY <1>2, <1>3, <1>4, ProgramSteady, HandlerSteady DEF Next

-----------------------------------------------------------------------------
(* The order of the chunks *)

LEMMA Taken ==
  ASSUME NEW S, NEW s \in Nat, NEW k \in Nat, NEW b \in Seq(S), NEW i \in Seq(S),
         Follows(s, k, b, i), i # <<>>
  PROVE  /\ Follows(s, k, Append(b, Head(i)), Tail(i))
         /\ Len(Append(b, Head(i))) + Len(Tail(i)) = Len(b) + Len(i)
<1>1. /\ Len(b) \in Nat /\ Len(i) \in Nat /\ Len(i) > 0 /\ Head(i) = i[1] /\ Head(i) \in S
      /\ Len(Tail(i)) = Len(i) - 1 /\ \A j \in 1..(Len(i) - 1) : Tail(i)[j] = i[j + 1]
  BY Split, Nonempty
<1>2. /\ Len(Append(b, Head(i))) = Len(b) + 1 /\ Append(b, Head(i))[Len(b) + 1] = Head(i)
      /\ \A j \in 1..Len(b) : Append(b, Head(i))[j] = b[j]
  BY <1>1, Appended
<1>3. /\ \A j \in 1..Len(b) : b[j] = k + j
      /\ \A j \in 1..Len(i) : i[j] = k + Len(b) + j
      /\ k + Len(b) + Len(i) <= s
  BY DEF Follows, Numbered
<1>4. Head(i) = k + Len(b) + 1
  BY <1>1, <1>3
<1>5. Numbered(Append(b, Head(i)), k)
  BY <1>1, <1>2, <1>3, <1>4 DEF Numbered
<1>6. ASSUME NEW j \in 1..Len(Tail(i)) PROVE Tail(i)[j] = k + (Len(b) + 1) + j
  <2>1. j \in 1..(Len(i) - 1) /\ j + 1 \in 1..Len(i)
    BY <1>1
  <2> QED
    BY <1>1, <1>3, <2>1
<1> QED
  BY <1>1, <1>2, <1>3, <1>5, <1>6 DEF Follows, Numbered

LEMMA Fetched ==
  ASSUME NEW S, NEW s \in Nat, NEW k \in Nat, NEW b \in Seq(S), NEW i \in Seq(S),
         Follows(s, k, b, i), b = <<>>, i # <<>>
  PROVE  /\ Follows(s, k, <<Head(i)>>, Tail(i))
         /\ Len(<<Head(i)>>) + Len(Tail(i)) = Len(b) + Len(i)
<1>1. Append(b, Head(i)) = <<Head(i)>>
  OBVIOUS
<1> QED
  BY <1>1, Taken

LEMMA Given ==
  ASSUME NEW s \in Nat, NEW k \in Nat, NEW b \in Seq(1..MaxChunks), NEW i \in Seq(1..MaxChunks),
         NEW c \in 1..MaxChunks, Follows(s, k, b, i), c = k + Len(b) + Len(i) + 1, c <= s
  PROVE  Follows(s, k, b, Append(i, c)) /\ Len(Append(i, c)) = Len(i) + 1
<1>1. /\ Len(b) \in Nat /\ Len(i) \in Nat
      /\ Len(Append(i, c)) = Len(i) + 1 /\ Append(i, c)[Len(i) + 1] = c
      /\ \A j \in 1..Len(i) : Append(i, c)[j] = i[j]
  BY Appended, Nonempty
<1>2. ASSUME NEW j \in 1..Len(Append(i, c)) PROVE Append(i, c)[j] = k + Len(b) + j
  <2>1. j \in 1..Len(i) \/ j = Len(i) + 1
    BY <1>1
  <2>2. \A x \in 1..Len(i) : i[x] = k + Len(b) + x
    BY DEF Follows, Numbered
  <2>3. CASE j \in 1..Len(i)
    BY <1>1, <2>2, <2>3
  <2>4. CASE j = Len(i) + 1
    BY <1>1, <2>4
  <2> QED
    BY <2>1, <2>3, <2>4
<1> QED
  BY <1>1, <1>2 DEF Follows, Numbered

LEMMA Passed ==
  ASSUME NEW s \in Nat, NEW k \in Nat, NEW b \in Seq(1..MaxChunks), NEW i \in Seq(1..MaxChunks),
         Follows(s, k, b, i), Len(b) = 1
  PROVE  b[1] = k + 1 /\ b[1] <= s /\ Follows(s, k + 1, <<>>, i)
<1>1. Len(i) \in Nat /\ Len(<<>>) = 0 /\ 1 \in 1..Len(b)
  BY Nonempty
<1>2. b[1] = k + 1 /\ k + 1 + Len(i) <= s /\ \A j \in 1..Len(i) : i[j] = k + 1 + j
  BY <1>1 DEF Follows, Numbered
<1> QED
  BY <1>1, <1>2 DEF Follows, Numbered

LEMMA Grown ==
  ASSUME NEW S, NEW s \in Nat, NEW k \in Nat, NEW b \in Seq(S), NEW i \in Seq(S),
         Follows(s, k, b, i)
  PROVE  Follows(s + 1, k, b, i)
<1>1. Len(b) \in Nat /\ Len(i) \in Nat
  BY Nonempty
<1> QED
  BY <1>1 DEF Follows

Typed ==
  /\ sent \in [Directions -> 0..MaxChunks]
  /\ recvd \in [Directions -> Seq(1..MaxChunks)]
  /\ inflight \in [Wires -> [Directions -> Seq(1..MaxChunks)]]
  /\ buf \in [Plugins -> [Directions -> Seq(1..MaxChunks)]]

\* The chunks of a direction and their number.
LEMMA Chunks ==
  ASSUME TypeOK, NEW d \in Directions
  PROVE  /\ sent[d] \in Nat /\ recvd[d] \in Seq(1..MaxChunks)
         /\ \A w \in Wires : inflight[w][d] \in Seq(1..MaxChunks)
         /\ \A n \in Plugins : buf[n][d] \in Seq(1..MaxChunks)
         /\ AtFar(d) \in Nat /\ AtNear(d) \in Nat /\ AtSender(d) \in Nat
<1>1. Typed /\ MaxChunks \in Nat
  BY BoundsAssumption DEF TypeOK, Typed
<1>2. First(d) \in Wires /\ 2 \in Wires /\ Last(d) \in Wires /\ Near(d) \in Plugins /\ Far(d) \in Plugins
  BY Route
<1>3. AtFar(d) \in Nat
  BY <1>1, <1>2 DEF AtFar, Typed
<1>4. AtNear(d) \in Nat
  BY <1>1, <1>2, <1>3 DEF AtNear, Typed
<1>5. AtSender(d) \in Nat
  BY <1>1, <1>2, <1>4 DEF AtSender, Typed
<1> QED
  BY <1>1, <1>3, <1>4, <1>5 DEF Typed

LEMMA FlagsStay ==
  ASSUME Steady, NEW d \in Directions
  PROVE  /\ FarPasses(d)' => FarPasses(d)
         /\ NearPasses(d)' => NearPasses(d)
         /\ Hears(d)' => Hears(d)
<1>1. ASSUME NEW w \in Wires, NEW e \in Directions, Deaf(w, e) PROVE Deaf(w, e)'
  BY <1>1 DEF Deaf, StopsReads, GunClient, Kind, Steady
<1>2. First(d) \in Wires /\ 2 \in Wires /\ Last(d) \in Wires /\ Opposite(d) \in Directions
      /\ Near(d) \in Plugins /\ Far(d) \in Plugins
  BY Route
<1> QED
  BY <1>1, <1>2 DEF FarPasses, NearPasses, Hears, Steady

\* Nothing moves in direction d.
Still(d) ==
  /\ sent'[d] = sent[d] /\ recvd'[d] = recvd[d]
  /\ \A w \in Wires : inflight'[w][d] = inflight[w][d]
  /\ \A n \in Plugins : buf'[n][d] = buf[n][d]

LEMMA InOrderStays ==
  ASSUME Steady, NEW d \in Directions, InOrder(d), Still(d)
  PROVE  InOrder(d)'
<1>1. First(d) \in Wires /\ 2 \in Wires /\ Last(d) \in Wires /\ Near(d) \in Plugins /\ Far(d) \in Plugins
  BY Route
<1>2. AtFar(d)' = AtFar(d) /\ AtNear(d)' = AtNear(d) /\ AtSender(d)' = AtSender(d)
  BY <1>1 DEF Still, AtFar, AtNear, AtSender
<1> QED
  BY <1>1, <1>2, FlagsStay DEF Still, InOrder

LEMMA SendInOrder ==
  ASSUME TypeOK, Steady, NEW d \in Directions, InOrder(d), Send(d)
  PROVE  InOrder(d)'
<1>1. /\ sent'[d] = sent[d] + 1 /\ UNCHANGED <<recvd, buf>> /\ sent'[d] \in 1..MaxChunks
      /\ IF Hears(d) THEN inflight'[First(d)][d] = Append(inflight[First(d)][d], sent[d] + 1)
         ELSE inflight' = inflight
      /\ inflight'[2][d] = inflight[2][d] /\ inflight'[Last(d)][d] = inflight[Last(d)][d]
  <2>1. sent'[d] = sent[d] + 1 /\ sent'[d] \in 0..MaxChunks /\ sent[d] \in Nat
    BY SendEffect, Chunks DEF TypeOK
  <2>2. sent'[d] \in 1..MaxChunks
    BY <2>1, BoundsAssumption
  <2>3. UNCHANGED <<recvd, buf>>
    BY DEF Send, relayVars
  <2> QED
    BY <2>1, <2>2, <2>3, SendEffect, Route
<1>2. /\ sent[d] \in Nat /\ recvd[d] \in Seq(1..MaxChunks)
      /\ \A w \in Wires : inflight[w][d] \in Seq(1..MaxChunks)
      /\ \A n \in Plugins : buf[n][d] \in Seq(1..MaxChunks)
      /\ AtFar(d) \in Nat /\ AtNear(d) \in Nat /\ Typed
  BY Chunks DEF TypeOK, Typed
<1>3. First(d) \in Wires /\ 2 \in Wires /\ Last(d) \in Wires /\ Near(d) \in Plugins /\ Far(d) \in Plugins
  BY Route
<1>4. AtFar(d)' = AtFar(d) /\ AtNear(d)' = AtNear(d)
  BY <1>1 DEF AtFar, AtNear
<1>5. Follows(sent'[d], 0, recvd'[d], inflight'[Last(d)][d])
  BY <1>1, <1>2, <1>3, Grown DEF InOrder
<1>6. FarPasses(d)' => Follows(sent'[d], AtFar(d)', buf'[Far(d)][d], inflight'[2][d])
  BY <1>1, <1>2, <1>3, <1>4, Grown, FlagsStay DEF InOrder
<1>7. ASSUME FarPasses(d)', NearPasses(d)'
      PROVE  /\ Follows(sent'[d], AtNear(d)', buf'[Near(d)][d], inflight'[First(d)][d])
             /\ Hears(d)' => AtSender(d)' = sent'[d]
  <2>1. Follows(sent[d], AtNear(d), buf[Near(d)][d], inflight[First(d)][d])
    BY <1>7, FlagsStay DEF InOrder
  <2>2. Follows(sent'[d], AtNear(d), buf[Near(d)][d], inflight[First(d)][d])
    BY <1>1, <1>2, <1>3, <2>1, Grown
  <2>3. CASE Hears(d)
    <3>1. sent[d] = AtNear(d) + Len(buf[Near(d)][d]) + Len(inflight[First(d)][d])
      BY <1>7, <2>3, FlagsStay DEF InOrder, AtSender
    <3>2. /\ Follows(sent'[d], AtNear(d), buf[Near(d)][d], inflight'[First(d)][d])
          /\ Len(inflight'[First(d)][d]) = Len(inflight[First(d)][d]) + 1
      <4>1. PICK s \in 1..MaxChunks, k \in Nat, b \in Seq(1..MaxChunks), i \in Seq(1..MaxChunks) :
              s = sent'[d] /\ k = AtNear(d) /\ b = buf[Near(d)][d] /\ i = inflight[First(d)][d]
        BY <1>1, <1>2, <1>3
      <4>2. Follows(s, k, b, i)
        BY <2>2, <4>1
      <4>3. s = k + Len(b) + Len(i) + 1 /\ s \in Nat /\ s <= s
        BY <1>1, <3>1, <4>1
      <4>4. Follows(s, k, b, Append(i, s)) /\ Len(Append(i, s)) = Len(i) + 1
        BY <4>2, <4>3, Given
      <4>5. inflight'[First(d)][d] = Append(i, s)
        BY <1>1, <2>3, <4>1
      <4> QED
        BY <4>1, <4>4, <4>5
    <3>3. AtSender(d)' = AtNear(d) + Len(buf[Near(d)][d]) + (Len(inflight[First(d)][d]) + 1)
      BY <1>1, <1>4, <3>2 DEF AtSender
    <3>4. AtSender(d)' = sent'[d]
      BY <1>1, <1>2, <1>3, <3>1, <3>3 DEF Typed
    <3> QED
      BY <1>1, <1>4, <3>2, <3>4
  <2>4. CASE ~Hears(d)
    BY <1>1, <1>4, <2>2, <2>4, FlagsStay
  <2> QED
    BY <2>3, <2>4
<1> QED
  BY <1>5, <1>6, <1>7 DEF InOrder

LEMMA ReceiveInOrder ==
  ASSUME TypeOK, Steady, NEW d \in Directions, InOrder(d), Receive(d)
  PROVE  InOrder(d)' /\ AtNear(d)' = AtNear(d)
<1>1. /\ UNCHANGED <<sent, buf>> /\ inflight[Last(d)][d] # <<>>
      /\ recvd'[d] = Append(recvd[d], Head(inflight[Last(d)][d]))
      /\ inflight'[Last(d)][d] = Tail(inflight[Last(d)][d])
      /\ inflight'[2][d] = inflight[2][d] /\ inflight'[First(d)][d] = inflight[First(d)][d]
  BY ReceiveEffect, Route DEF relayVars
<1>2. /\ sent[d] \in Nat /\ recvd[d] \in Seq(1..MaxChunks)
      /\ \A w \in Wires : inflight[w][d] \in Seq(1..MaxChunks)
  BY Chunks
<1>3. Last(d) \in Wires
  BY Route
<1>4. /\ Follows(sent'[d], 0, recvd'[d], inflight'[Last(d)][d])
      /\ Len(recvd'[d]) + Len(inflight'[Last(d)][d]) = Len(recvd[d]) + Len(inflight[Last(d)][d])
  BY <1>1, <1>2, <1>3, Taken DEF InOrder
<1>5. AtFar(d)' = AtFar(d)
  BY <1>4 DEF AtFar
<1>6. AtNear(d)' = AtNear(d) /\ AtSender(d)' = AtSender(d)
  BY <1>1, <1>5 DEF AtNear, AtSender
<1> QED
  BY <1>1, <1>4, <1>5, <1>6, FlagsStay DEF InOrder

LEMMA ReadInOrder ==
  ASSUME TypeOK, Steady, NEW n \in Plugins, NEW d \in Directions, InOrder(d), Read(n, d)
  PROVE  InOrder(d)' /\ AtNear(d)' = AtNear(d)
<1>1. /\ UNCHANGED <<sent, recvd>> /\ inflight[From(n, d)][d] # <<>> /\ buf[n][d] = <<>>
      /\ buf'[n][d] = <<Head(inflight[From(n, d)][d])>>
      /\ inflight'[From(n, d)][d] = Tail(inflight[From(n, d)][d])
      /\ \A m \in Plugins : m # n => buf'[m][d] = buf[m][d]
      /\ \A v \in Wires : v # From(n, d) => inflight'[v][d] = inflight[v][d]
  BY ReadEffect DEF appVars
<1>2. /\ sent[d] \in Nat
      /\ \A w \in Wires : inflight[w][d] \in Seq(1..MaxChunks)
      /\ \A m \in Plugins : buf[m][d] \in Seq(1..MaxChunks)
      /\ AtFar(d) \in Nat /\ AtNear(d) \in Nat
  BY Chunks
<1>3. /\ First(d) \in Wires /\ 2 \in Wires /\ Last(d) \in Wires /\ Near(d) \in Plugins /\ Far(d) \in Plugins
      /\ First(d) # 2 /\ Last(d) # 2 /\ First(d) # Last(d) /\ Near(d) # Far(d)
      /\ From(Near(d), d) = First(d) /\ From(Far(d), d) = 2 /\ (n = Near(d) \/ n = Far(d))
  BY Route
<1>4. AtFar(d)' = AtFar(d) /\ inflight'[Last(d)][d] = inflight[Last(d)][d]
  BY <1>1, <1>3 DEF AtFar
<1>5. CASE n = Far(d)
  <2>1. /\ inflight[2][d] # <<>> /\ buf[Far(d)][d] = <<>>
        /\ buf'[Far(d)][d] = <<Head(inflight[2][d])>> /\ inflight'[2][d] = Tail(inflight[2][d])
        /\ buf'[Near(d)][d] = buf[Near(d)][d] /\ inflight'[First(d)][d] = inflight[First(d)][d]
    BY <1>1, <1>3, <1>5
  <2>2. /\ Len(inflight[2][d]) \in Nat /\ Len(inflight'[2][d]) = Len(inflight[2][d]) - 1
        /\ Len(buf[Far(d)][d]) = 0 /\ Len(buf'[Far(d)][d]) = 1
    <3>1. inflight[2][d] \in Seq(1..MaxChunks)
      BY <1>2, <1>3
    <3>2. Head(inflight[2][d]) \in 1..MaxChunks /\ Len(Tail(inflight[2][d])) = Len(inflight[2][d]) - 1
      BY <2>1, <3>1, Split
    <3> QED
      BY <2>1, <3>1, <3>2, Nonempty, Single
  <2>3. AtNear(d)' = AtNear(d)
    BY <1>2, <1>4, <2>2 DEF AtNear
  <2>4. AtSender(d)' = AtSender(d)
    BY <2>1, <2>3 DEF AtSender
  <2>5. FarPasses(d)' => Follows(sent'[d], AtFar(d)', buf'[Far(d)][d], inflight'[2][d])
    BY <1>1, <1>2, <1>3, <1>4, <2>1, Fetched, FlagsStay DEF InOrder
  <2> QED
    BY <1>1, <1>4, <2>1, <2>3, <2>4, <2>5, FlagsStay DEF InOrder
<1>6. CASE n = Near(d)
  <2>1. /\ inflight[First(d)][d] # <<>> /\ buf[Near(d)][d] = <<>>
        /\ buf'[Near(d)][d] = <<Head(inflight[First(d)][d])>>
        /\ inflight'[First(d)][d] = Tail(inflight[First(d)][d])
        /\ buf'[Far(d)][d] = buf[Far(d)][d] /\ inflight'[2][d] = inflight[2][d]
    BY <1>1, <1>3, <1>6
  <2>2. /\ Len(inflight[First(d)][d]) \in Nat
        /\ Len(inflight'[First(d)][d]) = Len(inflight[First(d)][d]) - 1
        /\ Len(buf[Near(d)][d]) = 0 /\ Len(buf'[Near(d)][d]) = 1
    <3>1. inflight[First(d)][d] \in Seq(1..MaxChunks)
      BY <1>2, <1>3
    <3>2. /\ Head(inflight[First(d)][d]) \in 1..MaxChunks
          /\ Len(Tail(inflight[First(d)][d])) = Len(inflight[First(d)][d]) - 1
      BY <2>1, <3>1, Split
    <3> QED
      BY <2>1, <3>1, <3>2, Nonempty, Single
  <2>3. AtNear(d)' = AtNear(d)
    BY <1>4, <2>1 DEF AtNear
  <2>4. AtSender(d)' = AtSender(d)
    BY <1>2, <2>2, <2>3 DEF AtSender
  <2>5. FarPasses(d)' /\ NearPasses(d)' =>
          Follows(sent'[d], AtNear(d)', buf'[Near(d)][d], inflight'[First(d)][d])
    BY <1>1, <1>2, <1>3, <2>1, <2>3, Fetched, FlagsStay DEF InOrder
  <2> QED
    BY <1>1, <1>4, <2>1, <2>3, <2>4, <2>5, FlagsStay DEF InOrder
<1> QED
  BY <1>3, <1>5, <1>6

LEMMA FarWriteInOrder ==
  ASSUME TypeOK, Steady, NEW d \in Directions, InOrder(d), Write(Far(d), d)
  PROVE  InOrder(d)' /\ (FarPasses(d) => AtNear(d)' = AtNear(d))
<1>1. /\ First(d) \in Wires /\ 2 \in Wires /\ Last(d) \in Wires /\ Near(d) \in Plugins /\ Far(d) \in Plugins
      /\ First(d) # 2 /\ Last(d) # 2 /\ First(d) # Last(d) /\ Near(d) # Far(d) /\ To(Far(d), d) = Last(d)
  BY Route
<1>2. /\ UNCHANGED <<sent, recvd>> /\ copier[Far(d)][d] \in {"write", "blocked"}
      /\ Len(buf[Far(d)][d]) = 1 /\ buf[Far(d)][d][1] \in 1..MaxChunks
      /\ buf'[Far(d)][d] = <<>> /\ buf'[Near(d)][d] = buf[Near(d)][d]
      /\ IF Deaf(Last(d), Opposite(d)) THEN inflight' = inflight
         ELSE inflight'[Last(d)][d] = Append(inflight[Last(d)][d], buf[Far(d)][d][1])
      /\ inflight'[2][d] = inflight[2][d] /\ inflight'[First(d)][d] = inflight[First(d)][d]
  BY <1>1, WriteEffect DEF appVars
<1>3. FarPasses(d) <=> ~Deaf(Last(d), Opposite(d))
  BY <1>2 DEF FarPasses, Ended
<1>4. CASE ~FarPasses(d)
  BY <1>2, <1>3, <1>4, FlagsStay DEF InOrder
<1>5. CASE FarPasses(d)
  <2>1. PICK s \in Nat, k \in Nat, r \in Seq(1..MaxChunks), i3 \in Seq(1..MaxChunks),
             b2 \in Seq(1..MaxChunks), i2 \in Seq(1..MaxChunks), c \in 1..MaxChunks :
               /\ s = sent[d] /\ k = AtFar(d) /\ r = recvd[d] /\ i3 = inflight[Last(d)][d]
               /\ b2 = buf[Far(d)][d] /\ i2 = inflight[2][d] /\ c = buf[Far(d)][d][1]
    BY <1>1, <1>2, Chunks
  <2>2. Follows(s, 0, r, i3) /\ Follows(s, k, b2, i2) /\ k = Len(r) + Len(i3) /\ Len(b2) = 1
    BY <1>2, <1>5, <2>1 DEF InOrder, AtFar
  <2>3. c = k + 1 /\ c <= s /\ Follows(s, k + 1, <<>>, i2)
    <3>1. c = b2[1]
      BY <2>1
    <3>2. b2[1] = k + 1 /\ b2[1] <= s /\ Follows(s, k + 1, <<>>, i2)
      BY <2>2, Passed
    <3> QED
      BY <3>1, <3>2
  <2>4. 0 \in Nat /\ c = 0 + Len(r) + Len(i3) + 1
    BY <2>2, <2>3
  <2>5. Follows(s, 0, r, Append(i3, c)) /\ Len(Append(i3, c)) = Len(i3) + 1
    BY <2>2, <2>3, <2>4, Given
  <2>6. recvd'[d] = r /\ inflight'[Last(d)][d] = Append(i3, c)
    BY <1>2, <1>3, <1>5, <2>1
  <2>7. AtFar(d)' = k + 1
    <3>1. Len(recvd'[d]) = Len(r) /\ Len(inflight'[Last(d)][d]) = Len(i3) + 1
      BY <2>5, <2>6
    <3> QED
      BY <2>2, <3>1 DEF AtFar
  <2>8. AtNear(d)' = AtNear(d)
    <3>1. Len(buf'[Far(d)][d]) = 0 /\ Len(inflight'[2][d]) = Len(i2)
      BY <1>2, <2>1
    <3>2. AtNear(d)' = (k + 1) + 0 + Len(i2)
      BY <2>7, <3>1 DEF AtNear
    <3>3. AtNear(d) = k + 1 + Len(i2)
      BY <2>1, <2>2 DEF AtNear
    <3> QED
      BY <3>2, <3>3
  <2>9. AtSender(d)' = AtSender(d)
    BY <1>2, <2>8 DEF AtSender
  <2>10. Follows(sent'[d], 0, recvd'[d], inflight'[Last(d)][d])
    BY <1>2, <2>1, <2>5, <2>6
  <2>11. Follows(sent'[d], AtFar(d)', buf'[Far(d)][d], inflight'[2][d])
    BY <1>2, <2>1, <2>3, <2>7
  <2> QED
    BY <1>2, <2>8, <2>9, <2>10, <2>11, FlagsStay DEF InOrder
<1> QED
  BY <1>4, <1>5

LEMMA NearWriteInOrder ==
  ASSUME TypeOK, Steady, NEW d \in Directions, InOrder(d), Write(Near(d), d)
  PROVE  InOrder(d)'
<1>1. /\ First(d) \in Wires /\ 2 \in Wires /\ Last(d) \in Wires /\ Near(d) \in Plugins /\ Far(d) \in Plugins
      /\ First(d) # 2 /\ Last(d) # 2 /\ First(d) # Last(d) /\ Near(d) # Far(d) /\ To(Near(d), d) = 2
  BY Route
<1>2. /\ UNCHANGED <<sent, recvd>> /\ copier[Near(d)][d] \in {"write", "blocked"}
      /\ Len(buf[Near(d)][d]) = 1 /\ buf[Near(d)][d][1] \in 1..MaxChunks
      /\ buf'[Near(d)][d] = <<>> /\ buf'[Far(d)][d] = buf[Far(d)][d]
      /\ IF Deaf(2, Opposite(d)) THEN inflight' = inflight
         ELSE inflight'[2][d] = Append(inflight[2][d], buf[Near(d)][d][1])
      /\ inflight'[Last(d)][d] = inflight[Last(d)][d] /\ inflight'[First(d)][d] = inflight[First(d)][d]
  BY <1>1, WriteEffect DEF appVars
<1>3. NearPasses(d) <=> ~Deaf(2, Opposite(d))
  BY <1>2 DEF NearPasses, Ended
<1>4. AtFar(d)' = AtFar(d)
  BY <1>2 DEF AtFar
<1>5. CASE ~NearPasses(d)
  BY <1>2, <1>3, <1>4, <1>5, FlagsStay DEF InOrder
<1>6. CASE ~FarPasses(d)
  BY <1>2, <1>4, <1>6, FlagsStay DEF InOrder
<1>7. CASE FarPasses(d) /\ NearPasses(d)
  <2>1. PICK s \in Nat, k \in Nat, m \in Nat, b2 \in Seq(1..MaxChunks), i2 \in Seq(1..MaxChunks),
             b1 \in Seq(1..MaxChunks), i1 \in Seq(1..MaxChunks), c \in 1..MaxChunks :
               /\ s = sent[d] /\ k = AtFar(d) /\ m = AtNear(d) /\ b2 = buf[Far(d)][d] /\ i2 = inflight[2][d]
               /\ b1 = buf[Near(d)][d] /\ i1 = inflight[First(d)][d] /\ c = buf[Near(d)][d][1]
    BY <1>1, <1>2, Chunks
  <2>2. Follows(s, k, b2, i2) /\ Follows(s, m, b1, i1) /\ m = k + Len(b2) + Len(i2) /\ Len(b1) = 1
    BY <1>2, <1>7, <2>1 DEF InOrder, AtNear
  <2>3. c = b1[1] /\ c = m + 1 /\ c <= s /\ Follows(s, m + 1, <<>>, i1)
    BY <2>1, <2>2, Passed
  <2>4. c = k + Len(b2) + Len(i2) + 1
    BY <2>2, <2>3
  <2>5. Follows(s, k, b2, Append(i2, c)) /\ Len(Append(i2, c)) = Len(i2) + 1
    BY <2>2, <2>3, <2>4, Given
  <2>6. buf'[Far(d)][d] = b2 /\ inflight'[2][d] = Append(i2, c)
    BY <1>2, <1>3, <1>7, <2>1
  <2>7. AtNear(d)' = m + 1
    <3>1. Len(buf'[Far(d)][d]) = Len(b2) /\ Len(inflight'[2][d]) = Len(i2) + 1 /\ AtFar(d)' = k
      BY <1>4, <2>1, <2>5, <2>6
    <3>2. AtNear(d)' = k + Len(b2) + (Len(i2) + 1)
      BY <3>1 DEF AtNear
    <3> QED
      BY <2>2, <3>2
  <2>8. AtSender(d)' = AtSender(d)
    <3>1. Len(buf'[Near(d)][d]) = 0 /\ Len(inflight'[First(d)][d]) = Len(i1)
      BY <1>2, <2>1
    <3>2. AtSender(d)' = (m + 1) + 0 + Len(i1)
      BY <2>7, <3>1 DEF AtSender
    <3>3. AtSender(d) = m + 1 + Len(i1)
      BY <2>1, <2>2 DEF AtSender
    <3> QED
      BY <3>2, <3>3
  <2>9. Follows(sent'[d], 0, recvd'[d], inflight'[Last(d)][d])
    BY <1>2 DEF InOrder
  <2>10. Follows(sent'[d], AtFar(d)', buf'[Far(d)][d], inflight'[2][d])
    BY <1>2, <1>4, <2>1, <2>5, <2>6
  <2>11. Follows(sent'[d], AtNear(d)', buf'[Near(d)][d], inflight'[First(d)][d])
    BY <1>2, <2>1, <2>3, <2>7
  <2>12. Hears(d)' => AtSender(d)' = sent'[d]
    BY <1>2, <1>7, <2>8, FlagsStay DEF InOrder
  <2> QED
    BY <2>9, <2>10, <2>11, <2>12 DEF InOrder
<1> QED
  BY <1>5, <1>6, <1>7

\* A copy that gives up drops what it holds, and is the last to pass anything on.
LEMMA WriteErrInOrder ==
  ASSUME TypeOK, Steady, NEW n \in Plugins, NEW d \in Directions, InOrder(d), WriteErr(n, d)
  PROVE  InOrder(d)'
<1>1. /\ UNCHANGED <<sent, recvd, inflight>> /\ copier'[n][d] = "send"
      /\ \A m \in Plugins : m # n => buf'[m][d] = buf[m][d]
  BY WriteErrEffect DEF appVars, wireVars
<1>2. Near(d) \in Plugins /\ Far(d) \in Plugins /\ Near(d) # Far(d) /\ (n = Near(d) \/ n = Far(d))
  BY Route
<1>3. AtFar(d)' = AtFar(d)
  BY <1>1 DEF AtFar
<1>4. CASE n = Far(d)
  <2>1. ~FarPasses(d)'
    BY <1>1, <1>4 DEF FarPasses, Ended
  <2> QED
    BY <1>1, <2>1 DEF InOrder
<1>5. CASE n = Near(d)
  <2>1. ~NearPasses(d)' /\ buf'[Far(d)][d] = buf[Far(d)][d]
    BY <1>1, <1>2, <1>5 DEF NearPasses, Ended
  <2> QED
    BY <1>1, <1>3, <2>1, FlagsStay DEF InOrder
<1> QED
  BY <1>2, <1>4, <1>5

LEMMA Moves ==
  ASSUME TypeOK, [Next]_vars, NEW d \in Directions
  PROVE  \/ Still(d) \/ Send(d) \/ Receive(d)
         \/ \E n \in Plugins : Read(n, d) \/ Write(n, d) \/ WriteErr(n, d)
<1>1. UNCHANGED <<sent, recvd, inflight, buf>> => Still(d)
  BY DEF Still
<1>2. ASSUME NEW x \in Directions, Send(x) \/ Finish(x) \/ Leave(x) \/ AppReads(x)
      PROVE  Still(d) \/ Send(d) \/ Receive(d)
  <2>1. CASE Send(x) /\ x # d
    BY <2>1, SendEffect DEF Send, relayVars, Still
  <2>2. CASE Receive(x) /\ x # d
    BY <2>2, ReceiveEffect DEF relayVars, Still
  <2>3. CASE Finish(x) \/ Leave(x) \/ SeeEnd(x)
    BY <1>1, <2>3 DEF Finish, Leave, SeeEnd, wireVars, relayVars
  <2> QED
    BY <1>2, <2>1, <2>2, <2>3 DEF AppReads
<1>3. ASSUME NEW n \in Plugins, Accept(n) \/ Refuse(n) \/ DialErr(n) \/ DialOK(n) \/ Handler(n)
      PROVE  Still(d)
  BY <1>1, <1>3 DEF Accept, Refuse, DialErr, DialOK, Handler, FirstCopyEnds, CloseOutbound, CloseInbound,
                    appVars, wireVars
<1>4. ASSUME NEW n \in Plugins, NEW x \in Directions, Copy(n, x) \/ Block(n, x)
      PROVE  Still(d) \/ Read(n, d) \/ Write(n, d) \/ WriteErr(n, d)
  <2>1. CASE Read(n, x) /\ x # d
    BY <2>1, ReadEffect DEF appVars, Still
  <2>2. CASE Write(n, x) /\ x # d
    BY <2>2, WriteEffect DEF appVars, Still
  <2>3. CASE WriteErr(n, x) /\ x # d
    BY <2>3, WriteErrEffect DEF appVars, wireVars, Still
  <2>4. CASE ReadEnd(n, x) \/ SendErr(n, x) \/ Block(n, x)
    BY <1>1, <2>4 DEF ReadEnd, SendErr, Block, appVars, wireVars
  <2> QED
    BY <1>4, <2>1, <2>2, <2>3, <2>4 DEF Copy
<1>5. ASSUME NEW w \in load.breakable, Break(w) PROVE Still(d)
  BY <1>1, <1>5 DEF Break, appVars, relayVars
<1>6. CASE UNCHANGED vars
  BY <1>1, <1>6 DEF vars, appVars, wireVars, relayVars
<1> QED
  BY <1>2, <1>3, <1>4, <1>5, <1>6 DEF Next

LEMMA StepInOrder ==
  ASSUME TypeOK, Steady, [Next]_vars, NEW d \in Directions, InOrder(d)
  PROVE  InOrder(d)'
<1>1. CASE Still(d)
  BY <1>1, InOrderStays
<1>2. ASSUME NEW n \in Plugins, Write(n, d) PROVE InOrder(d)'
  <2>1. n = Near(d) \/ n = Far(d)
    BY Route
  <2> QED
    BY <1>2, <2>1, FarWriteInOrder, NearWriteInOrder
<1> QED
  BY <1>1, <1>2, Moves, SendInOrder, ReceiveInOrder, ReadInOrder, WriteErrInOrder

LEMMA StepEmpty ==
  ASSUME TypeOK, Steady, [Next]_vars, NEW d \in Directions, Empty(d)
  PROVE  Empty(d)'
<1> SUFFICES ASSUME sent'[d] = 0 PROVE Empty(d)'
  BY DEF Empty
<1>1. sent[d] = 0
  BY Chunks DEF Steady
<1>2. /\ \A w \in Wires : inflight[w][d] = <<>>
      /\ \A n \in Plugins : buf[n][d] = <<>>
  BY <1>1 DEF Empty
<1>3. ~Send(d)
  BY <1>1, SendEffect
<1>4. ~Receive(d)
  BY <1>2, Route DEF Receive
<1>5. ASSUME NEW n \in Plugins PROVE ~Read(n, d) /\ ~Write(n, d) /\ ~WriteErr(n, d)
  <2>1. Len(buf[n][d]) = 0
    BY <1>2
  <2> QED
    BY <1>2, <2>1, Ways, WriteEffect, WriteErrEffect DEF Read
<1>6. Still(d)
  BY <1>3, <1>4, <1>5, Moves
<1> QED
  BY <1>2, <1>6 DEF Still, Empty

-----------------------------------------------------------------------------
(* The ends *)

LEMMA DisturbedStays ==
  ASSUME Steady, NEW d \in Directions, Disturbed[d]
  PROVE  (Disturbed[d])'
<1>1. Opposite(d) \in Directions /\ First("up") \in Wires /\ First("down") \in Wires
      /\ "up" \in Directions /\ "down" \in Directions
  BY Route DEF Directions
<1>2. \/ \E w \in Wires : wire[w] = "broken"
      \/ \E n \in Plugins : relay[n] \in {"closeIn", "done"} /\ wire[n + 1] = "none"
      \/ Left("up") \/ Left("down")
      \/ sent[Opposite(d)] > 0 \/ finished[Opposite(d)]
  BY DEF Disturbed
<1>3. \/ \E w \in Wires : wire'[w] = "broken"
      \/ \E n \in Plugins : relay'[n] \in {"closeIn", "done"} /\ wire'[n + 1] = "none"
      \/ Left("up")' \/ Left("down")'
      \/ sent'[Opposite(d)] > 0 \/ finished'[Opposite(d)]
  BY <1>1, <1>2 DEF Steady, Left
<1> QED
  BY <1>3 DEF Disturbed

\* A direction is undisturbed while the connection is whole and the other
\* direction unused.  Then a plugin that closed something winds the connection up.
LEMMA Calm ==
  ASSUME TypeOK, Handlers, NEW d \in Directions, Empty(Opposite(d)), ~Disturbed[d]
  PROVE  /\ \A w \in Wires : wire[w] # "broken"
         /\ \A n \in Plugins : relay[n] \in {"closeIn", "done"} => wire[n + 1] # "none"
         /\ ~closed[First(d)][d] /\ ~closed[Last(d)][Opposite(d)] /\ ~finished[Opposite(d)]
         /\ \A n \in Plugins : buf[n][Opposite(d)] = <<>>
         /\ closed[First(d)][Opposite(d)] \/ closed[2][d] => Winding(Near(d))
         /\ closed[2][Opposite(d)] \/ closed[Last(d)][d] => Winding(Far(d))
<1>1. /\ \A w \in Wires : wire[w] # "broken"
      /\ \A n \in Plugins : relay[n] \in {"closeIn", "done"} => wire[n + 1] # "none"
      /\ ~Left("up") /\ ~Left("down")
      /\ ~(sent[Opposite(d)] > 0) /\ ~finished[Opposite(d)]
  BY DEF Disturbed
<1>2. ~closed[First(d)][d] /\ ~closed[Last(d)][Opposite(d)]
  BY <1>1 DEF Left, Last, Opposite, Directions
<1>3. \A n \in Plugins : buf[n][Opposite(d)] = <<>>
  <2>1. sent[Opposite(d)] \in Nat
    BY Route, Chunks
  <2> QED
    BY <1>1, <2>1 DEF Empty
<1>4. \A n \in Plugins : /\ closed[n]["down"] => Winding(n)
                         /\ closed[n + 1]["up"] => Winding(n)
  BY DEF Handlers, Closers, Winding
<1>5. /\ closed[First(d)][Opposite(d)] \/ closed[2][d] => Winding(Near(d))
      /\ closed[2][Opposite(d)] \/ closed[Last(d)][d] => Winding(Far(d))
  <2>1. /\ closed[1]["down"] \/ closed[2]["up"] => Winding(1)
        /\ closed[2]["down"] \/ closed[3]["up"] => Winding(2)
    BY <1>4 DEF Plugins
  <2>2. CASE d = "up"
    BY <2>1, <2>2 DEF First, Last, Opposite, Near, Far
  <2>3. CASE d = "down"
    BY <2>1, <2>3 DEF First, Last, Opposite, Near, Far
  <2> QED
    BY <2>2, <2>3 DEF Directions
<1> QED
  BY <1>1, <1>2, <1>3, <1>5

\* The ends of an undisturbed direction at the plugins, in terms of the facts above.
LEMMA CalmEnds ==
  ASSUME TypeOK, Handlers, NEW d \in Directions, Empty(Opposite(d)), EndsWell(d), ~Disturbed[d]
  PROVE  /\ Winding(Near(d)) => NearDrained(d)
         /\ Winding(Far(d)) => FarDrained(d) /\ Winding(Near(d))
         /\ \A n \in Plugins, x \in Directions : ~WriteErr(n, x)
<1>1. /\ Winding(Near(d)) => NearDrained(d)
      /\ Winding(Far(d)) => FarDrained(d) /\ NearDrained(d)
  BY DEF EndsWell, FarDrained
<1>2. NearDrained(d) => Winding(Near(d))
  BY DEF NearDrained, Winding
<1>3. ~WriteErr(Near(d), d)
  <2>1. ASSUME WriteErr(Near(d), d) PROVE FALSE
    <3>1. ~Ended(Near(d), d) /\ (closed[2][d] \/ wire[2] = "broken" \/ closed[2][Opposite(d)])
      BY <2>1, Route, WriteErrEffect DEF Ended, Deaf
    <3>2. Winding(Near(d))
      BY <1>1, <1>2, <3>1, Calm, Route
    <3> QED
      BY <1>1, <3>1, <3>2 DEF NearDrained
  <2> QED
    BY <2>1
<1>4. ~WriteErr(Far(d), d)
  <2>1. ASSUME WriteErr(Far(d), d) PROVE FALSE
    <3>1. ~Ended(Far(d), d) /\ (closed[Last(d)][d] \/ wire[Last(d)] = "broken" \/ closed[Last(d)][Opposite(d)])
      BY <2>1, Route, WriteErrEffect DEF Ended, Deaf
    <3>2. Winding(Far(d))
      BY <3>1, Calm, Route
    <3> QED
      BY <1>1, <3>1, <3>2 DEF FarDrained
  <2> QED
    BY <2>1
<1>5. ASSUME NEW n \in Plugins, WriteErr(n, Opposite(d)) PROVE FALSE
  <2>1. Len(buf[n][Opposite(d)]) = 1 /\ buf[n][Opposite(d)] = <<>>
    BY <1>5, Calm, WriteErrEffect, Route
  <2> QED
    BY <2>1
<1>6. ASSUME NEW n \in Plugins, NEW x \in Directions PROVE ~WriteErr(n, x)
  <2>1. (n = Near(d) \/ n = Far(d)) /\ (x = d \/ x = Opposite(d))
    BY Route
  <2> QED
    BY <1>3, <1>4, <1>5, <2>1
<1> QED
  BY <1>1, <1>2, <1>6

LEMMA DrainedStays ==
  ASSUME TypeOK, Handlers, Steady, [Next]_vars, NEW d \in Directions, InOrder(d),
         Empty(Opposite(d)), EndsWell(d), ~Disturbed[d], NearDrained(d)
  PROVE  NearDrained(d)' /\ (FarDrained(d) => FarDrained(d)')
<1>1. /\ First(d) \in Wires /\ 2 \in Wires /\ Last(d) \in Wires /\ Near(d) \in Plugins /\ Far(d) \in Plugins
      /\ First(d) # 2 /\ Last(d) # 2 /\ First(d) # Last(d) /\ Near(d) # Far(d)
      /\ From(Near(d), d) = First(d) /\ To(Near(d), d) = 2 /\ From(Far(d), d) = 2 /\ To(Far(d), d) = Last(d)
      /\ \A n \in Plugins : n = Near(d) \/ n = Far(d)
  BY Route
<1>2. /\ finished'[d] /\ Ended(Near(d), d)' /\ (Ended(Far(d), d) => Ended(Far(d), d)')
  BY <1>1 DEF Steady, NearDrained
<1>3. Ended(Near(d), d) /\ finished[d]
  BY DEF NearDrained
<1>4. /\ ~Send(d) /\ ~Read(Near(d), d) /\ ~Write(Near(d), d)
      /\ Ended(Far(d), d) => ~Read(Far(d), d) /\ ~Write(Far(d), d)
  BY <1>1, <1>3, SendEffect, ReadEffect, WriteEffect DEF Ended
<1>5. \A n \in Plugins : ~WriteErr(n, d)
  BY CalmEnds
<1>6. CASE Still(d)
  <2>1. AtNear(d)' = AtNear(d)
    BY <1>1, <1>6 DEF Still, AtNear, AtFar
  <2> QED
    BY <1>1, <1>2, <1>6, <2>1 DEF Still, NearDrained, FarDrained
<1>7. CASE Receive(d)
  <2>1. /\ AtNear(d)' = AtNear(d) /\ UNCHANGED <<sent, buf>>
        /\ \A w \in Wires : w # Last(d) => inflight'[w][d] = inflight[w][d]
    BY <1>1, <1>7, ReceiveInOrder, ReceiveEffect DEF relayVars
  <2> QED
    BY <1>1, <1>2, <2>1 DEF NearDrained, FarDrained
<1>8. CASE Read(Far(d), d)
  <2>1. /\ AtNear(d)' = AtNear(d) /\ UNCHANGED sent /\ buf'[Near(d)][d] = buf[Near(d)][d]
        /\ inflight'[First(d)][d] = inflight[First(d)][d]
    BY <1>1, <1>8, ReadInOrder, ReadEffect DEF appVars
  <2> QED
    BY <1>1, <1>2, <1>4, <1>8, <2>1 DEF NearDrained, FarDrained
<1>9. CASE Write(Far(d), d)
  <2>1. FarPasses(d)
    BY <1>1, <1>9, WriteEffect, Calm DEF FarPasses, Ended, Deaf
  <2>2. /\ AtNear(d)' = AtNear(d) /\ UNCHANGED sent /\ buf'[Near(d)][d] = buf[Near(d)][d]
        /\ inflight'[First(d)][d] = inflight[First(d)][d]
    BY <1>1, <1>9, <2>1, FarWriteInOrder, WriteEffect DEF appVars
  <2> QED
    BY <1>1, <1>2, <1>4, <1>9, <2>2 DEF NearDrained, FarDrained
<1> QED
  BY <1>1, <1>4, <1>5, <1>6, <1>7, <1>8, <1>9, Moves

\* How a plugin comes to wind the connection up.
LEMMA Winds ==
  ASSUME TypeOK, Handlers, [Next]_vars, NEW n \in Plugins, ~Winding(n), Winding(n)'
  PROVE  \/ \E x \in Directions : ReadEnd(n, x) \/ WriteErr(n, x)
         \/ relay'[n] \in {"closeIn", "done"} /\ wire'[n + 1] = "none"
<1>1. /\ relay[n] \notin {"closeOut", "closeIn", "done"} /\ ~(errs[n] > 0)
      /\ \A x \in Directions : ~Ended(n, x)
  BY DEF Winding
<1>2. /\ relay'[n] = relay[n] /\ errs'[n] = errs[n] /\ (\A x \in Directions : copier'[n][x] = copier[n][x])
        => FALSE
  BY <1>1 DEF Winding, Ended
<1>3. ASSUME NEW x \in Directions, Send(x) \/ Finish(x) \/ Leave(x) \/ AppReads(x) PROVE FALSE
  BY <1>2, <1>3 DEF Send, Finish, Leave, AppReads, Receive, SeeEnd, relayVars
<1>4. ASSUME NEW w \in load.breakable, Break(w) PROVE FALSE
  BY <1>2, <1>4 DEF Break, relayVars
<1>5. CASE UNCHANGED vars
  BY <1>2, <1>5 DEF vars, relayVars
<1>6. ASSUME NEW m \in Plugins, Accept(m) \/ Refuse(m) \/ DialErr(m) \/ DialOK(m) \/ Handler(m)
      PROVE  relay'[n] \in {"closeIn", "done"} /\ wire'[n + 1] = "none"
  <2>1. \/ /\ relay' = [relay EXCEPT ![m] = "dial"] /\ UNCHANGED <<copier, errs>>
        \/ /\ relay[m] = "none" /\ relay' = [relay EXCEPT ![m] = "done"] /\ Close(m, "down") /\ UNCHANGED <<copier, errs>>
        \/ /\ relay[m] = "dial" /\ relay' = [relay EXCEPT ![m] = "closeIn"] /\ UNCHANGED <<copier, errs, wire>>
        \/ /\ relay' = [relay EXCEPT ![m] = "wait"] /\ UNCHANGED errs
           /\ copier' = [copier EXCEPT ![m] = [d \in Directions |-> "read"]]
        \/ /\ relay[m] = "wait" /\ errs[m] > 0 /\ UNCHANGED copier
           /\ relay' = [relay EXCEPT ![m] = "closeOut"] /\ errs' = [errs EXCEPT ![m] = @ - 1]
        \/ /\ relay[m] = "closeOut" /\ relay' = [relay EXCEPT ![m] = "closeIn"] /\ UNCHANGED <<copier, errs>>
        \/ /\ relay[m] = "closeIn" /\ relay' = [relay EXCEPT ![m] = "done"] /\ UNCHANGED <<copier, errs>>
    BY <1>6 DEF Accept, Refuse, DialErr, DialOK, Handler, FirstCopyEnds, CloseOutbound, CloseInbound, wireVars
  <2>2. relay \in [Plugins -> {"none", "dial", "wait", "closeOut", "closeIn", "done"}]
        /\ errs \in [Plugins -> 0..2]
        /\ copier \in [Plugins -> [Directions -> {"none", "read", "write", "blocked", "send", "exited"}]]
    BY DEF TypeOK
  <2>3. m = n
    <3>1. CASE m # n
      <4>1. relay'[n] = relay[n] /\ errs'[n] = errs[n] /\ copier'[n] = copier[n]
        BY <2>1, <2>2, <3>1
      <4> QED
        BY <1>2, <4>1
    <3> QED
      BY <3>1
  <2>4. CASE relay' = [relay EXCEPT ![m] = "dial"] /\ UNCHANGED <<copier, errs>>
    <3>1. relay'[n] = "dial"
      BY <2>2, <2>3, <2>4
    <3> QED
      BY <1>1, <2>4, <3>1 DEF Winding, Ended
  <2>5. CASE relay[m] = "none" /\ relay' = [relay EXCEPT ![m] = "done"] /\ Close(m, "down")
    <3>1. relay'[n] = "done" /\ wire[n + 1] = "none" /\ n \in Wires /\ n + 1 \in Wires /\ n + 1 # n
      BY <2>2, <2>3, <2>5, Ways DEF Handlers, Undialled, Directions
    <3>2. wire'[n + 1] = wire[n + 1]
      BY <2>3, <2>5, <3>1, CloseEffect DEF Directions
    <3> QED
      BY <3>1, <3>2
  <2>6. CASE relay[m] = "dial" /\ relay' = [relay EXCEPT ![m] = "closeIn"] /\ UNCHANGED wire
    BY <2>2, <2>3, <2>6 DEF Handlers, Undialled
  <2>7. CASE /\ relay' = [relay EXCEPT ![m] = "wait"] /\ UNCHANGED errs
             /\ copier' = [copier EXCEPT ![m] = [d \in Directions |-> "read"]]
    <3>1. relay'[n] = "wait" /\ \A x \in Directions : copier'[n][x] = "read"
      BY <2>2, <2>3, <2>7
    <3> QED
      BY <1>1, <2>7, <3>1 DEF Winding, Ended
  <2> QED
    BY <1>1, <2>1, <2>3, <2>4, <2>5, <2>6, <2>7
<1>7. ASSUME NEW m \in Plugins, NEW y \in Directions, Copy(m, y) \/ Block(m, y),
             ~\E x \in Directions : ReadEnd(n, x) \/ WriteErr(n, x)
      PROVE  FALSE
  <2>1. UNCHANGED relay
    BY <1>7 DEF Copy, Read, ReadEnd, Write, WriteErr, SendErr, Block
  <2>2. errs'[n] = errs[n]
    <3>1. CASE SendErr(m, y)
      <4>1. m # n
        BY <1>1, <3>1 DEF SendErr, Ended
      <4> QED
        BY <3>1, <4>1 DEF SendErr, TypeOK
    <3> QED
      BY <1>7, <3>1 DEF Copy, Read, ReadEnd, Write, WriteErr, Block
  <2>3. ASSUME NEW x \in Directions PROVE ~Ended(n, x)'
    <3>1. CASE m # n \/ y # x
      BY <1>1, <1>7, <3>1, ReadEffect, WriteEffect, WriteErrEffect, CopyType DEF Copy, Ended
    <3>2. CASE m = n /\ y = x
      <4>1. ~ReadEnd(n, x) /\ ~WriteErr(n, x) /\ ~SendErr(n, x)
        BY <1>1, <1>7 DEF SendErr, Ended
      <4> QED
        BY <1>7, <3>2, <4>1, ReadEffect, WriteEffect, CopyType DEF Copy, Ended
    <3> QED
      BY <3>1, <3>2
  <2> QED
    BY <1>1, <2>1, <2>2, <2>3 DEF Winding
<1> QED
  BY <1>3, <1>4, <1>5, <1>6, <1>7 DEF Next

\* A plugin of an undisturbed direction winds the connection up only when its
\* copy has come to the end of the stream.
LEMMA EndsDrained ==
  ASSUME TypeOK, Handlers, NEW d \in Directions, InOrder(d), Empty(Opposite(d)), EndsWell(d),
         ~Disturbed[d], NEW n \in Plugins, NEW x \in Directions, ReadEnd(n, x), ~Winding(n)
  PROVE  IF n = Near(d) THEN NearDrained(d)' ELSE FarDrained(d)'
<1>1. /\ From(Near(d), d) = First(d) /\ From(Far(d), d) = 2 /\ First(d) # 2 /\ Last(d) # 2 /\ Last(d) # First(d)
      /\ From(Near(d), Opposite(d)) = 2 /\ From(Far(d), Opposite(d)) = Last(d) /\ Opposite(Opposite(d)) = d
      /\ First(Opposite(d)) = Last(d) /\ Near(d) # Far(d) /\ (n = Near(d) \/ n = Far(d))
      /\ (x = d \/ x = Opposite(d)) /\ Opposite(d) \in Directions /\ Last(d) \in Wires /\ First(d) \in Wires
      /\ Near(d) \in Plugins /\ Far(d) \in Plugins /\ 2 \in Wires
  BY Route DEF Last
<1>2. /\ copier[n][x] = "read" /\ UNCHANGED <<appVars, wireVars, buf>>
      /\ \/ wire[From(n, x)] = "broken" \/ closed[From(n, x)][Opposite(x)]
         \/ closed[From(n, x)][x] /\ inflight[From(n, x)][x] = <<>>
         \/ From(n, x) = First(x) /\ finished[x] /\ inflight[From(n, x)][x] = <<>>
  BY DEF ReadEnd, Deaf, EndsAt
<1>3. /\ \A w \in Wires : wire[w] # "broken"
      /\ ~closed[First(d)][d] /\ ~closed[Last(d)][Opposite(d)] /\ ~finished[Opposite(d)]
      /\ closed[First(d)][Opposite(d)] \/ closed[2][d] => Winding(Near(d))
      /\ closed[2][Opposite(d)] \/ closed[Last(d)][d] => Winding(Far(d))
      /\ Winding(Near(d)) => NearDrained(d)
      /\ Winding(Far(d)) => FarDrained(d) /\ Winding(Near(d))
  BY Calm, CalmEnds
<1>4. Ended(n, x)' /\ buf[n][x] = <<>>
  <2>1. copier'[n][x] = "send"
    BY CopyType
  <2>2. buf[n][x] \in Seq(1..MaxChunks) /\ Len(buf[n][x]) = 0
    <3>1. \A m \in Plugins, e \in Directions :
            Len(buf[m][e]) = IF copier[m][e] \in {"write", "blocked"} THEN 1 ELSE 0
      BY DEF TypeOK
    <3>2. Len(buf[n][x]) = 0
      BY <1>2, <3>1
    <3> QED
      BY <3>2 DEF TypeOK
  <2> QED
    BY <2>1, <2>2, Nonempty DEF Ended
<1>5. /\ finished' = finished /\ inflight' = inflight /\ buf' = buf /\ sent' = sent
      /\ AtNear(d)' = AtNear(d)
  BY <1>2 DEF appVars, wireVars, AtNear, AtFar
<1>6. CASE n = Near(d)
  <2>1. ~Winding(Near(d)) /\ ~Winding(Far(d))
    BY <1>3, <1>6
  <2>2. x = d
    BY <1>1, <1>2, <1>3, <1>6, <2>1
  <2>3. finished[d] /\ inflight[First(d)][d] = <<>>
    BY <1>1, <1>2, <1>3, <1>6, <2>1, <2>2
  <2>4. FarPasses(d) /\ NearPasses(d) /\ Hears(d)
    BY <1>1, <1>3, <2>1 DEF FarPasses, NearPasses, Hears, Deaf, Winding
  <2>5. AtNear(d) + 0 + 0 = sent[d] /\ AtNear(d) \in Nat
    BY <1>4, <1>6, <2>2, <2>3, <2>4, Chunks DEF InOrder, AtSender
  <2> QED
    BY <1>4, <1>5, <1>6, <2>2, <2>3, <2>5 DEF NearDrained
<1>7. CASE n = Far(d)
  <2>1. ~Winding(Far(d))
    BY <1>7
  <2>2. x = d
    BY <1>1, <1>2, <1>3, <1>7, <2>1
  <2>3. closed[2][d] /\ inflight[2][d] = <<>>
    BY <1>1, <1>2, <1>3, <1>7, <2>1, <2>2
  <2>4. NearDrained(d)
    BY <1>3, <2>3
  <2>5. Ended(Near(d), d)'
    <3>1. Near(d) # n /\ copier'[Near(d)][d] = copier[Near(d)][d]
      BY <1>1, <1>7, CopyType
    <3> QED
      BY <2>4, <3>1 DEF NearDrained, Ended
  <2>6. NearDrained(d)'
    BY <1>5, <2>4, <2>5 DEF NearDrained
  <2> QED
    BY <1>1, <1>4, <1>5, <1>7, <2>2, <2>3, <2>6 DEF FarDrained
<1> QED
  BY <1>1, <1>6, <1>7

LEMMA StepEndsWell ==
  ASSUME TypeOK, Handlers, Steady, [Next]_vars, NEW d \in Directions, InOrder(d),
         Empty(Opposite(d)), EndsWell(d)
  PROVE  EndsWell(d)'
<1> SUFFICES ASSUME ~(Disturbed[d])'
             PROVE  /\ Winding(Near(d))' => NearDrained(d)'
                    /\ Winding(Far(d))' => FarDrained(d)'
  BY DEF EndsWell
<1>1. Near(d) \in Plugins /\ Far(d) \in Plugins /\ Near(d) # Far(d)
  BY Route
<1>2. ~Disturbed[d]
  BY DisturbedStays
<1>3. /\ Winding(Near(d)) => NearDrained(d)
      /\ Winding(Far(d)) => FarDrained(d) /\ NearDrained(d)
      /\ \A n \in Plugins, x \in Directions : ~WriteErr(n, x)
  BY <1>2, CalmEnds
<1>4. \A n \in Plugins : ~(relay'[n] \in {"closeIn", "done"} /\ wire'[n + 1] = "none")
  BY DEF Disturbed
<1>5. ASSUME NEW n \in Plugins, Winding(n)', ~Winding(n)
      PROVE  IF n = Near(d) THEN NearDrained(d)' ELSE FarDrained(d)'
  <2>1. \E x \in Directions : ReadEnd(n, x)
    BY <1>3, <1>4, <1>5, Winds
  <2> QED
    BY <1>2, <1>5, <2>1, EndsDrained
<1>6. NearDrained(d) => NearDrained(d)' /\ (FarDrained(d) => FarDrained(d)')
  BY <1>2, DrainedStays
<1>7. Winding(Near(d))' => NearDrained(d)'
  BY <1>1, <1>3, <1>5, <1>6
<1>8. Winding(Far(d))' => FarDrained(d)'
  BY <1>1, <1>3, <1>5, <1>6
<1> QED
  BY <1>7, <1>8

-----------------------------------------------------------------------------
(* The invariant *)

LEMMA InitInv == Init => IInv
<1> SUFFICES ASSUME Init PROVE IInv
  OBVIOUS
<1>1. TypeOK
  BY InitType
<1>2. Handlers
  BY DEF Init, Handlers, Undialled, Closers, Plugins, Wires, Directions
<1>3. ASSUME NEW d \in Directions PROVE InOrder(d) /\ Empty(d) /\ EndsWell(d)
  <2>1. First(d) \in Wires /\ 2 \in Wires /\ Last(d) \in Wires /\ Near(d) \in Plugins /\ Far(d) \in Plugins
    BY Route
  <2>2. /\ sent[d] = 0 /\ recvd[d] = <<>>
        /\ \A w \in Wires : inflight[w][d] = <<>>
        /\ \A n \in Plugins : buf[n][d] = <<>>
    BY DEF Init
  <2>6. ASSUME NEW n \in Plugins PROVE ~Winding(n)
    <3>1. relay[n] = "none" /\ errs[n] = 0 /\ \A x \in Directions : copier[n][x] = "none"
      BY DEF Init
    <3> QED
      BY <3>1 DEF Winding, Ended
  <2>3. AtFar(d) = 0 /\ AtNear(d) = 0 /\ AtSender(d) = 0
    <3>1. /\ recvd[d] = <<>> /\ inflight[Last(d)][d] = <<>> /\ inflight[2][d] = <<>>
          /\ inflight[First(d)][d] = <<>> /\ buf[Near(d)][d] = <<>> /\ buf[Far(d)][d] = <<>>
          /\ Len(<<>>) = 0
      BY <2>1, <2>2
    <3>2. AtFar(d) = 0
      BY <3>1 DEF AtFar
    <3>3. AtNear(d) = 0
      BY <3>1, <3>2 DEF AtNear
    <3> QED
      BY <3>1, <3>2, <3>3 DEF AtSender
  <2>4. Follows(0, 0, <<>>, <<>>)
    BY DEF Follows, Numbered
  <2>5. InOrder(d)
    BY <2>1, <2>2, <2>3, <2>4 DEF InOrder
  <2> QED
    BY <2>1, <2>2, <2>5, <2>6 DEF Empty, EndsWell
<1> QED
  BY <1>1, <1>2, <1>3 DEF IInv

LEMMA StepInv == IInv /\ [Next]_vars => IInv'
<1> SUFFICES ASSUME IInv, [Next]_vars PROVE IInv'
  OBVIOUS
<1>1. TypeOK /\ Handlers /\ \A d \in Directions : InOrder(d) /\ Empty(d) /\ EndsWell(d)
  BY DEF IInv
<1>2. TypeOK'
  BY <1>1, StepType DEF Handlers
<1>3. Handlers' /\ Steady
  BY <1>1, StepSteady
<1>4. ASSUME NEW d \in Directions PROVE InOrder(d)' /\ Empty(d)' /\ EndsWell(d)'
  BY <1>1, <1>3, Route, StepInOrder, StepEmpty, StepEndsWell
<1> QED
  BY <1>2, <1>3, <1>4 DEF IInv

LEMMA InvHolds == Spec => []IInv
<1> QED
  BY InitInv, StepInv, PTL DEF Spec

\* Every counter and queue keeps its bound: errChan never holds more than its
\* two errors, a wire not more than its window, and a copy one chunk while it writes.
THEOREM TypeCorrect == Spec => []TypeOK
<1>1. IInv => TypeOK
  BY DEF IInv
<1> QED
  BY <1>1, InvHolds, PTL

-----------------------------------------------------------------------------
(* The streams *)

\* The chunks that a program received are the first ones sent.
LEMMA Prefix ==
  ASSUME NEW s \in Nat, NEW r \in Seq(1..MaxChunks), NEW i \in Seq(1..MaxChunks), Follows(s, 0, r, i)
  PROVE  Len(r) <= s /\ r = [j \in 1..Len(r) |-> j]
<1>1. Len(r) \in Nat /\ Len(i) \in Nat
  BY Nonempty
<1>2. Len(r) <= s /\ \A j \in 1..Len(r) : r[j] = j
  BY <1>1 DEF Follows, Numbered
<1> QED
  BY <1>2

\* It sees the end of an undisturbed direction after all of them.
LEMMA SeesAll ==
  ASSUME IInv, NEW d \in Directions, SeeEnd(d), ~Disturbed[d]
  PROVE  finished[d] /\ Len(recvd[d]) = sent[d]
<1>1. /\ First(d) \in Wires /\ 2 \in Wires /\ Last(d) \in Wires /\ Far(d) \in Plugins
      /\ First(d) # Last(d) /\ Opposite(d) \in Directions
  BY Route
<1>2. /\ TypeOK /\ Handlers /\ Empty(Opposite(d)) /\ EndsWell(d)
  BY <1>1 DEF IInv
<1>3. /\ \A w \in Wires : wire[w] # "broken"
      /\ closed[Last(d)][d] => Winding(Far(d))
      /\ Winding(Far(d)) => FarDrained(d)
  BY <1>2, Calm, CalmEnds
<1>4. closed[Last(d)][d] /\ inflight[Last(d)][d] = <<>>
  BY <1>1, <1>3 DEF SeeEnd, EndsAt
<1>5. finished[d] /\ AtNear(d) = sent[d] /\ inflight[2][d] = <<>> /\ buf[Far(d)][d] = <<>>
  BY <1>3, <1>4 DEF FarDrained, NearDrained
<1>6. AtNear(d) = Len(recvd[d]) + 0 + 0 + 0 /\ Len(recvd[d]) \in Nat
  BY <1>2, <1>4, <1>5, Chunks, Nonempty DEF AtNear, AtFar
<1> QED
  BY <1>5, <1>6

LEMMA StreamStep ==
  ASSUME IInv, IInv', [Next]_vars
  PROVE  Streams!Next
<1>1. Streams!Disturb
  <2>1. Steady
    BY StepSteady DEF IInv
  <2> QED
    BY <2>1, DisturbedStays DEF Streams!Disturb
<1>2. ASSUME NEW d \in Directions, Send(d) PROVE Streams!Next
  <2>1. /\ ~finished[d] /\ sent' = [sent EXCEPT ![d] = sent[d] + 1] /\ sent[d] + 1 = sent'[d]
        /\ UNCHANGED <<finished, recvd, over>>
    BY <1>2, SendEffect DEF Send, IInv
  <2>2. sent[d] + 1 \in sent[d]..MaxChunks
    <3>1. sent[d] \in 0..MaxChunks /\ sent'[d] \in 0..MaxChunks
      BY DEF IInv, TypeOK
    <3> QED
      BY <2>1, <3>1, BoundsAssumption
  <2>3. Streams!Send(d)
    BY <2>1, <2>2 DEF Streams!Send
  <2> QED
    BY <1>1, <2>3 DEF Streams!Next
<1>3. ASSUME NEW d \in Directions, Finish(d) \/ Leave(d) PROVE Streams!Next
  <2>1. finished' = [finished EXCEPT ![d] = TRUE] /\ UNCHANGED <<sent, recvd, over>>
    BY <1>3 DEF Finish, Leave
  <2>2. CASE finished[d]
    <3>1. finished' = finished
      BY <2>1, <2>2 DEF IInv, TypeOK
    <3> QED
      BY <1>1, <2>1, <3>1 DEF Streams!Next
  <2>3. CASE ~finished[d]
    BY <1>1, <2>1, <2>3 DEF Streams!Next, Streams!Finish
  <2> QED
    BY <2>2, <2>3
<1>4. ASSUME NEW d \in Directions, Receive(d) PROVE Streams!Next
  <2>1. /\ ~over[d] /\ inflight[Last(d)][d] # <<>>
        /\ recvd' = [recvd EXCEPT ![d] = Append(recvd[d], Head(inflight[Last(d)][d]))]
        /\ recvd'[d] = Append(recvd[d], Head(inflight[Last(d)][d]))
        /\ UNCHANGED <<sent, finished, over>>
    BY <1>4, ReceiveEffect DEF IInv
  <2>2. /\ recvd[d] \in Seq(1..MaxChunks) /\ Last(d) \in Wires
        /\ inflight[Last(d)][d] \in Seq(1..MaxChunks)
    BY Route, Chunks DEF IInv
  <2>3. Len(recvd'[d]) = Len(recvd[d]) + 1
    BY <2>1, <2>2, Split, Appended
  <2>4. Len(recvd'[d]) <= sent[d] /\ recvd'[d] = [i \in 1..Len(recvd'[d]) |-> i]
    <3>1. /\ sent[d] \in Nat /\ recvd'[d] \in Seq(1..MaxChunks) /\ inflight'[Last(d)][d] \in Seq(1..MaxChunks)
      BY <2>2, Chunks DEF IInv, TypeOK
    <3>2. Follows(sent[d], 0, recvd'[d], inflight'[Last(d)][d])
      BY <2>1 DEF IInv, InOrder
    <3> QED
      BY <3>1, <3>2, Prefix
  <2>5. Len(recvd'[d]) \in Len(recvd[d])..sent[d]
    BY <2>2, <2>3, <2>4, Chunks, Nonempty DEF IInv
  <2>6. recvd' = [recvd EXCEPT ![d] = [i \in 1..Len(recvd'[d]) |-> i]]
    BY <2>1, <2>4
  <2>7. Streams!Deliver(d)
    BY <2>1, <2>5, <2>6 DEF Streams!Deliver
  <2> QED
    BY <1>1, <2>7 DEF Streams!Next
<1>5. ASSUME NEW d \in Directions, SeeEnd(d) PROVE Streams!Next
  <2>1. /\ ~over[d] /\ over' = [over EXCEPT ![d] = TRUE] /\ UNCHANGED <<sent, finished, recvd>>
    BY <1>5 DEF SeeEnd
  <2>2. Streams!End(d)
    BY <1>5, <2>1, SeesAll DEF Streams!End
  <2> QED
    BY <1>1, <2>2 DEF Streams!Next
<1>6. CASE UNCHANGED appVars
  BY <1>1, <1>6 DEF appVars, Streams!Next
<1>7. ASSUME NEW n \in Plugins, Accept(n) \/ Refuse(n) \/ DialErr(n) \/ DialOK(n) \/ Handler(n)
      PROVE  UNCHANGED appVars
  BY <1>7 DEF Accept, Refuse, DialErr, DialOK, Handler, FirstCopyEnds, CloseOutbound, CloseInbound
<1>8. ASSUME NEW n \in Plugins, NEW d \in Directions, Copy(n, d) \/ Block(n, d)
      PROVE  UNCHANGED appVars
  BY <1>8 DEF Copy, Read, ReadEnd, Write, WriteErr, SendErr, Block
<1>9. ASSUME NEW w \in load.breakable, Break(w) PROVE UNCHANGED appVars
  BY <1>9 DEF Break
<1>10. CASE UNCHANGED vars
  BY <1>6, <1>10 DEF vars
<1> QED
  BY <1>2, <1>3, <1>4, <1>5, <1>6, <1>7, <1>8, <1>9, <1>10 DEF Next, AppReads

\* For every mode, any number of chunks and whatever fails, the two directions are
\* the streams that Duplex promises: in order, nothing twice, and an undisturbed
\* one ends only when all of it has arrived.
THEOREM ImplementsDuplexHolds == Spec => ImplementsDuplex
<1>1. Init => Streams!Init
  <2> SUFFICES ASSUME Init PROVE Streams!Init
    OBVIOUS
  <2>1. ASSUME NEW d \in Directions PROVE ~Disturbed[d] /\ Disturbed[d] \in BOOLEAN
    <3>1. /\ \A w \in Wires : wire[w] # "broken"
          /\ \A n \in Plugins : relay[n] \notin {"closeIn", "done"}
          /\ ~Left("up") /\ ~Left("down")
          /\ sent[Opposite(d)] = 0 /\ ~finished[Opposite(d)]
      BY Route DEF Init, Left, First, Wires, Directions
    <3> QED
      BY <3>1 DEF Disturbed
  <2>2. Disturbed = [d \in Directions |-> FALSE]
    BY <2>1 DEF Disturbed
  <2> QED
    BY <2>2 DEF Init, Streams!Init
<1>2. IInv /\ IInv' /\ [Next]_vars => [Streams!Next]_(Streams!dvars)
  BY StreamStep
<1> QED
  BY <1>1, <1>2, InvHolds, PTL DEF Spec, ImplementsDuplex, Streams!Spec
=============================================================================
