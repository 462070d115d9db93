------------------------------ MODULE ClientDial ------------------------------
(***************************************************************************)
(* DialConn of the client's transporters, from the call to a connection    *)
(* that can be relayed or an error (src/gost/proxy/client/tls.go, ws.go,   *)
(* h2.go, gun.go, grpc_tls.go, the dial hooks of src/hook).                *)
(*                                                                         *)
(* In the modes "tls", "ws" and "wss" each call dials a connection of its  *)
(* own; mtls and mws do so too, under smux.  In "h2" and "grpc" all calls  *)
(* share one, Shared, that is dialled by the first request or by the       *)
(* channel: its failure is the failure of every call that waits for it.    *)
(*                                                                         *)
(* An address is a name that stands for itself; "remote" is remoteAddr.    *)
(***************************************************************************)
EXTENDS Integers

CONSTANTS
  Dialers,     \* connections that the client relays, each with one DialConn
  Shared,      \* the dial of the connection that requests share
  Cases,       \* how the client is set up and what it meets: pairs setup, peer
  MaxAttempts  \* bound: dials of the shared connection

ASSUME SharedAssumption == Shared \notin Dialers
ASSUME AttemptsAssumption == MaxAttempts \in Nat \ {0}

Setups ==
  [mode : {"tls", "ws", "wss", "h2", "grpc"},
   serverName : {"", "front"},                \* the option, unset or set
   remoteIP : BOOLEAN,                        \* remoteAddr is an address, not a name
   insecure : BOOLEAN,
   fingerprint : {"", "chrome"},
   vpn : {"off", "answers", "silent"}]        \* Android's protector of sockets
Peers ==
  [names : SUBSET {"front", "remote"},        \* what its certificate is good for
   alpn : SUBSET {"h2", "http/1.1"},          \* none: it does not negotiate
   manner : {"serves", "rejects",             \* it rejects the upgrade or the request
             "silentInHandshake", "silentAfter"}]

ASSUME CasesAssumption == Cases \subseteq [setup : Setups, peer : Peers]

VARIABLES
  setup, peer,
  stage,      \* of the call of each dialer, and of the dial of Shared
  proto,      \* the protocol its TLS handshake agreed on
  channel,    \* what requests find: "none", "dialing", "ready", "failing"
  attempt,    \* number of the dial of Shared
  expired,    \* grpc: the deadline of this attempt has passed
  handshake,  \* grpc: the goroutine that runs the handshake of each attempt
  outcome,    \* and what Handshake returned to it
  errChannel  \* len(errChannel) of each attempt

caseVars == <<setup, peer>>
grpcVars == <<expired, handshake, outcome, errChannel>>
vars == <<caseVars, stage, proto, channel, attempt, grpcVars>>

Attempts == 1..MaxAttempts
Goroutines == Dialers \cup {Shared}
Mode == setup.mode
Shares == Mode \in {"h2", "grpc"}

-----------------------------------------------------------------------------
(* What TLS agrees on *)

NextProto == IF Shares THEN "h2" ELSE "http/1.1"

\* buildClientTLSConfig leaves the name open for an address without the option.
ConfiguredName ==
  IF setup.serverName # "" THEN setup.serverName ELSE IF setup.remoteIP THEN "" ELSE "remote"

\* http2 fills it in.  ClientHandshake of grpcTLS does so in a copy of the
\* configuration that it does not use.
ServerName == IF ConfiguredName = "" /\ Mode = "h2" THEN "remote" ELSE ConfiguredName

HelloProtosOfPreset == IF setup.fingerprint = "" THEN {NextProto} ELSE {"h2", "http/1.1"}

\* The presets of utls bring an ALPN extension of their own or none; the wrapper
\* puts NextProtos in its place.
HelloProtos == {NextProto}

\* Neither crypto/tls nor utls starts without a name to verify.
Nameless == ServerName = "" /\ ~setup.insecure

Verified == setup.insecure \/ ServerName \in peer.names

\* The protocols that a handshake may end with; if there is none it is refused
\* by one side.  Only h2 insists on the negotiation.
Agreed ==
  IF Nameless \/ ~Verified THEN {}
  ELSE {p \in IF peer.alpn = {} THEN {""} ELSE HelloProtos \cap peer.alpn : Mode = "h2" => p = "h2"}

\* The handshake comes to an end by itself.
Answered == Nameless \/ peer.manner # "silentInHandshake"

-----------------------------------------------------------------------------
(* Ends of a dial *)

FailSparesWaiters(g, how) ==
  /\ stage' = [stage EXCEPT ![g] = how]
  /\ channel' = IF g # Shared THEN channel ELSE IF Mode = "grpc" THEN "failing" ELSE "none"

\* What fails the shared dial fails the calls that wait for it.  A channel that
\* has failed stays so until it is ready, though it redials.
Fail(g, how) ==
  /\ stage' = [h \in Goroutines |-> IF h = g \/ (g = Shared /\ stage[h] = "wait") THEN how ELSE stage[h]]
  /\ channel' = IF g # Shared THEN channel ELSE IF Mode = "grpc" THEN "failing" ELSE "none"

\* The connection is there: requests are sent over it.  NewStream does not wait
\* for the server's answer, http.Client.Do does.
Ready ==
  /\ stage' = [h \in Goroutines |->
                 IF h = Shared THEN "up"
                 ELSE IF stage[h] # "wait" THEN stage[h]
                 ELSE IF Mode = "grpc" THEN "up" ELSE "answer"]
  /\ channel' = "ready"

Go(g, where) == stage' = [stage EXCEPT ![g] = where] /\ UNCHANGED channel

-----------------------------------------------------------------------------
(* DialConn is called *)

DialOwn(d) ==
  /\ ~Shares
  /\ stage[d] = "idle"
  /\ Go(d, "control")
  /\ UNCHANGED <<caseVars, proto, attempt, grpcVars>>

\* Without a connection a call starts the dial; one is under way for all of them.
AwaitShared(d) ==
  \/ channel = "dialing" /\ Go(d, "wait") /\ UNCHANGED <<attempt, expired>>
  \/ /\ channel = "none" /\ attempt < MaxAttempts
     /\ stage' = [stage EXCEPT ![d] = "wait", ![Shared] = "control"]
     /\ channel' = "dialing"
     /\ attempt' = attempt + 1
     /\ expired' = FALSE

RoundTrip(d) ==
  /\ Mode = "h2"
  /\ stage[d] = "idle"
  /\ AwaitShared(d) \/ (channel = "ready" /\ Go(d, "answer") /\ UNCHANGED <<attempt, expired>>)
  /\ UNCHANGED <<caseVars, proto, handshake, outcome, errChannel>>

TunCustomName(d) ==
  /\ Mode = "grpc"
  /\ stage[d] = "idle"
  /\ \/ AwaitShared(d)
     \/ channel = "ready" /\ Go(d, "up") /\ UNCHANGED <<attempt, expired>>
     \/ channel = "failing" /\ Go(d, "failed") /\ UNCHANGED <<attempt, expired>>
  /\ UNCHANGED <<caseVars, proto, handshake, outcome, errChannel>>

-----------------------------------------------------------------------------
(* TCPTransporter.DialConn *)

ControlOnConnSetup(g) ==
  /\ stage[g] = "control"
  /\ setup.vpn # "silent"
  /\ Go(g, "connect")
  /\ UNCHANGED <<caseVars, proto, attempt, grpcVars>>

\* The protector is not there, or does not answer within three seconds: an
\* error of a controller is logged and the dial goes on.
ControlErr(g) ==
  /\ stage[g] = "control"
  /\ setup.vpn # "off"
  /\ Go(g, "connect")
  /\ UNCHANGED <<caseVars, proto, attempt, grpcVars>>

\* For grpc ClientHandshake starts the goroutine of the handshake.
ConnectOK(g) ==
  /\ stage[g] = "connect"
  /\ Go(g, IF Mode = "ws" THEN "upgrade" ELSE "handshake")
  /\ handshake' = IF Mode = "grpc" THEN [handshake EXCEPT ![attempt] = "run"] ELSE handshake
  /\ UNCHANGED <<caseVars, proto, attempt, expired, outcome, errChannel>>

\* Refused, or the 16 seconds are over.
ConnectErr(g) ==
  /\ stage[g] = "connect"
  /\ Fail(g, "failed")
  /\ UNCHANGED <<caseVars, proto, attempt, grpcVars>>

-----------------------------------------------------------------------------
(* Handshake, in the goroutine that dials: tls, wss, h2.  It has no deadline. *)

HandshakeOK(g) ==
  /\ stage[g] = "handshake" /\ Mode # "grpc"
  /\ Answered
  /\ \E p \in Agreed : proto' = [proto EXCEPT ![g] = p]
  /\ IF g = Shared THEN Ready ELSE Go(g, IF Mode = "wss" THEN "upgrade" ELSE "up")
  /\ UNCHANGED <<caseVars, attempt, grpcVars>>

HandshakeErr(g) ==
  /\ stage[g] = "handshake" /\ Mode # "grpc"
  /\ Answered /\ Agreed = {}
  /\ Fail(g, "refused")
  /\ UNCHANGED <<caseVars, proto, attempt, grpcVars>>

-----------------------------------------------------------------------------
(* ClientHandshake of grpcTLS: a goroutine and a select *)

\* When ClientHandshake has failed the connection is closed, and grpc closes it
\* at the deadline as well.
Current(k) == k = attempt /\ stage[Shared] = "handshake"
Closed(k) == ~Current(k) \/ expired

Handshake(k) ==
  /\ handshake[k] = "run"
  /\ \/ Closed(k) /\ outcome' = [outcome EXCEPT ![k] = "failed"]
     \/ /\ Current(k) /\ Answered
        /\ outcome' = [outcome EXCEPT ![k] = IF Agreed = {} THEN "refused" ELSE "up"]
  /\ handshake' = [handshake EXCEPT ![k] = "send"]
  /\ UNCHANGED <<caseVars, stage, proto, channel, attempt, expired, errChannel>>

SendResultUnbuffered(k) ==
  /\ handshake[k] = "send"
  /\ Current(k)
  /\ errChannel' = [errChannel EXCEPT ![k] = @ + 1]
  /\ handshake' = [handshake EXCEPT ![k] = "ended"]
  /\ UNCHANGED <<caseVars, stage, proto, channel, attempt, expired, outcome>>

\* errChannel <- cn.Handshake(), into a buffer of one.
SendResult(k) ==
  /\ handshake[k] = "send"
  /\ errChannel[k] < 1
  /\ errChannel' = [errChannel EXCEPT ![k] = @ + 1]
  /\ handshake' = [handshake EXCEPT ![k] = "ended"]
  /\ UNCHANGED <<caseVars, stage, proto, channel, attempt, expired, outcome>>

\* err := <-errChannel
ReceiveResult ==
  /\ stage[Shared] = "handshake" /\ Mode = "grpc"
  /\ errChannel[attempt] > 0
  /\ errChannel' = [errChannel EXCEPT ![attempt] = @ - 1]
  /\ IF outcome[attempt] = "up"
     THEN Go(Shared, "settings") /\ \E p \in Agreed : proto' = [proto EXCEPT ![Shared] = p]
     ELSE Fail(Shared, outcome[attempt]) /\ UNCHANGED proto
  /\ UNCHANGED <<caseVars, attempt, expired, handshake, outcome>>

\* The channel gives an attempt five seconds, of which the TCP dial knows nothing.
Expire ==
  /\ Mode = "grpc"
  /\ stage[Shared] \in {"connect", "handshake", "settings"} /\ ~expired
  /\ expired' = TRUE
  /\ UNCHANGED <<caseVars, stage, proto, channel, attempt, handshake, outcome, errChannel>>

\* <-ctx.Done(), and grpc's own wait for the server's SETTINGS.
GiveUp ==
  /\ stage[Shared] \in {"handshake", "settings"} /\ expired
  /\ Fail(Shared, "failed")
  /\ UNCHANGED <<caseVars, proto, attempt, grpcVars>>

SettingsReceived ==
  /\ stage[Shared] = "settings"
  /\ peer.manner \in {"serves", "rejects"}
  /\ Ready
  /\ UNCHANGED <<caseVars, proto, attempt, grpcVars>>

\* The backoff is over.
Redial ==
  /\ channel = "failing"
  /\ stage[Shared] \in {"failed", "refused"} /\ attempt < MaxAttempts
  /\ Go(Shared, "control")
  /\ attempt' = attempt + 1
  /\ expired' = FALSE
  /\ UNCHANGED <<caseVars, proto, handshake, outcome, errChannel>>

-----------------------------------------------------------------------------
(* The websocket's handshake; the response to an h2 request *)

UpgradeOK(d) ==
  /\ stage[d] = "upgrade"
  /\ peer.manner = "serves" /\ proto[d] # "h2"
  /\ Go(d, "up")
  /\ UNCHANGED <<caseVars, proto, attempt, grpcVars>>

UpgradeErrUntimed(d) ==
  /\ stage[d] = "upgrade"
  /\ peer.manner \in {"serves", "rejects"}
  /\ Fail(d, "failed")
  /\ UNCHANGED <<caseVars, proto, attempt, grpcVars>>

\* Another status than 101, or HandshakeTimeout has passed.
UpgradeErr(d) ==
  /\ stage[d] = "upgrade"
  /\ Fail(d, "failed")
  /\ UNCHANGED <<caseVars, proto, attempt, grpcVars>>

\* http.Client has no Timeout.
Response(d) ==
  /\ stage[d] = "answer"
  /\ \/ peer.manner = "serves" /\ Go(d, "up")
     \/ peer.manner = "rejects" /\ Fail(d, "failed")
  /\ UNCHANGED <<caseVars, proto, attempt, grpcVars>>

-----------------------------------------------------------------------------
(* The network *)

\* A connection is lost under its handshake.
HandshakeLost(g) ==
  /\ stage[g] = "handshake" /\ Mode # "grpc"
  /\ Fail(g, "failed")
  /\ UNCHANGED <<caseVars, proto, attempt, grpcVars>>

\* The shared connection is lost, with the requests that wait for a response.
\* http2 and the channel dial again for the next call.
SharedLost ==
  /\ stage[Shared] = "up"
  /\ stage' = [h \in Goroutines |-> IF h = Shared \/ stage[h] = "answer" THEN "failed" ELSE stage[h]]
  /\ channel' = "none"
  /\ UNCHANGED <<caseVars, proto, attempt, grpcVars>>

-----------------------------------------------------------------------------
\* grpc.Dial starts to connect, without waiting for it.
Init ==
  /\ \E c \in Cases : setup = c.setup /\ peer = c.peer
  /\ stage = [g \in Goroutines |-> IF g = Shared /\ Mode = "grpc" THEN "control" ELSE "idle"]
  /\ proto = [g \in Goroutines |-> ""]
  /\ channel = IF Mode = "grpc" THEN "dialing" ELSE "none"
  /\ attempt = IF Mode = "grpc" THEN 1 ELSE 0
  /\ expired = FALSE
  /\ handshake = [k \in Attempts |-> "none"]
  /\ outcome = [k \in Attempts |-> "none"]
  /\ errChannel = [k \in Attempts |-> 0]

Call(d) == DialOwn(d) \/ RoundTrip(d) \/ TunCustomName(d)
DialStep(g) ==
  \/ ControlOnConnSetup(g) \/ ControlErr(g) \/ ConnectOK(g) \/ ConnectErr(g)
  \/ HandshakeOK(g) \/ HandshakeErr(g)
RequestStep(d) == UpgradeOK(d) \/ UpgradeErr(d) \/ Response(d)
HandshakeStep(k) == Handshake(k) \/ SendResult(k)
ChannelStep == ReceiveResult \/ GiveUp \/ SettingsReceived

Next ==
  \/ \E d \in Dialers : Call(d) \/ RequestStep(d)
  \/ \E g \in Goroutines : DialStep(g) \/ HandshakeLost(g)
  \/ \E k \in Attempts : HandshakeStep(k)
  \/ ChannelStep \/ Expire \/ Redial \/ SharedLost

Spec == Init /\ [][Next]_vars

(***************************************************************************)
(* Goroutines run on and timers fire; a peer that is not silent answers.   *)
(* Nothing makes the network fail, a dialer call or the channel redial.    *)
(***************************************************************************)
Fairness ==
  /\ \A g \in Goroutines : WF_vars(DialStep(g))
  /\ \A d \in Dialers : WF_vars(RequestStep(d))
  /\ \A k \in Attempts : WF_vars(HandshakeStep(k))
  /\ WF_vars(ChannelStep) /\ WF_vars(Expire)

FairSpec == Spec /\ Fairness

-----------------------------------------------------------------------------
(* Properties *)

\* A call waits only while the shared connection is dialled, and requests find
\* a connection exactly when there is one.
TypeOK ==
  /\ setup \in Setups /\ peer \in Peers
  /\ stage \in [Goroutines -> {"idle", "wait", "control", "connect", "handshake", "settings",
                               "upgrade", "answer", "up", "failed", "refused"}]
  /\ proto \in [Goroutines -> {"", "h2", "http/1.1"}]
  /\ channel \in {"none", "dialing", "ready", "failing"}
  /\ channel = "ready" <=> stage[Shared] = "up"
  /\ \A d \in Dialers : stage[d] = "wait" => channel = "dialing"
  /\ attempt \in 0..MaxAttempts
  /\ expired \in BOOLEAN
  /\ handshake \in [Attempts -> {"none", "run", "send", "ended"}]
  /\ outcome \in [Attempts -> {"none", "up", "failed", "refused"}]
  /\ errChannel \in [Attempts -> 0..1]

\* The peer that the options ask for: known by serverName, else by remoteAddr,
\* unless insecure waives it, and it speaks what the mode needs.
Wanted == IF setup.serverName # "" THEN setup.serverName ELSE "remote"
Trusted == setup.insecure \/ Wanted \in peer.names
Speaks(p) == p = (IF Mode \in {"h2", "grpc"} THEN "h2" ELSE "http/1.1") \/ (p = "" /\ Mode # "h2")

\* In every mode over TLS, with or without a fingerprint, a connection comes out
\* of a dial only to the peer that the options ask for, and over it both sides
\* speak the mode's protocol.  TLS turns no such peer away, but for a remoteAddr
\* that is an IP address, without serverName: h2 alone can verify that.
AsConfigured ==
  \A g \in Goroutines : Mode # "ws" =>
    /\ stage[g] = "up" => Trusted /\ Speaks(proto[IF Shares THEN Shared ELSE g])
    /\ stage[g] = "refused" =>
         \/ ~Trusted
         \/ ~\E p \in IF peer.alpn = {} THEN {""} ELSE peer.alpn : Speaks(p)
         \/ setup.remoteIP /\ setup.serverName = "" /\ Mode # "h2"

\* DialConn returns, whether the server, its protector or the network fails or
\* only says nothing, except: the TLS handshake of tls, wss and h2 and the
\* response in h2 are waited for without end, by every call that shares them.
DialReturns ==
  \A d \in Dialers :
    stage[d] # "idle" ~>
      \/ stage[d] \in {"up", "failed", "refused"}
      \/ peer.manner = "silentInHandshake" /\ Mode \in {"tls", "wss", "h2"}
      \/ peer.manner = "silentAfter" /\ Mode = "h2"

\* The goroutine that runs a handshake for grpc ends, also when the deadline
\* came first and nobody reads its result.
HandshakeEnds == \A k \in Attempts : handshake[k] # "none" ~> handshake[k] = "ended"
=============================================================================
