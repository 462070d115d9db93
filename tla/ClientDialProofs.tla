-------------------------- MODULE ClientDialProofs --------------------------
(***************************************************************************)
(* For any number of calls, attempts and cases: a dial of ClientDial ends  *)
(* with the peer that the options ask for, and only such a peer.           *)
(***************************************************************************)
EXTENDS ClientDial, TLAPS

\* Whose handshake decided about g's connection.
Owner(g) == IF Shares THEN Shared ELSE g

\* A call waits for Shared or dials by itself, never both.
Separate ==
  /\ stage[Shared] # "idle" => Shares
  /\ \A d \in Dialers :
       /\ stage[d] \in {"control", "connect", "handshake"} => ~Shares
       /\ stage[d] = "wait" => Shares
       /\ stage[d] # "settings"
  /\ Mode = "grpc" => attempt > 0

\* What came out of a handshake is what the configuration and the peer agree on.
Decided ==
  /\ \A g \in Goroutines :
       /\ Mode # "ws" /\ stage[g] \in {"settings", "upgrade", "answer", "up"} => proto[Owner(g)] \in Agreed
       /\ stage[g] = "refused" => Agreed = {}
  /\ \A k \in Attempts :
       /\ outcome[k] = "up" => Agreed # {}
       /\ outcome[k] = "refused" => Agreed = {}
       /\ handshake[k] \in {"send", "ended"} => outcome[k] # "none"
       /\ errChannel[k] > 0 => outcome[k] # "none"

IInv == TypeOK /\ Separate /\ Decided

-----------------------------------------------------------------------------
(* TLS *)

\* What a handshake agrees on is the peer that was asked for, and its protocol.
LEMMA AgreedIsWanted ==
  ASSUME setup \in Setups, peer \in Peers, Mode # "ws", NEW p \in Agreed
  PROVE  Trusted /\ Speaks(p)
  BY DEF Agreed, Nameless, Verified, ServerName, ConfiguredName, HelloProtos, NextProto,
         Trusted, Wanted, Speaks, Setups, Peers, Mode, Shares

\* And a peer with which nothing can be agreed on was not, but for one case.
LEMMA WantedIsAgreed ==
  ASSUME setup \in Setups, peer \in Peers, Mode # "ws", Agreed = {}
  PROVE  \/ ~Trusted
         \/ ~\E p \in IF peer.alpn = {} THEN {""} ELSE peer.alpn : Speaks(p)
         \/ setup.remoteIP /\ setup.serverName = "" /\ Mode # "h2"
  BY DEF Agreed, Nameless, Verified, ServerName, ConfiguredName, HelloProtos, NextProto,
         Trusted, Wanted, Speaks, Setups, Peers, Mode, Shares

\* It is decided by what does not change.
LEMMA AgreedStays == UNCHANGED caseVars => Agreed' = Agreed /\ Mode' = Mode /\ Shares' = Shares
  BY DEF caseVars, Agreed, Nameless, Verified, ServerName, ConfiguredName, HelloProtos, NextProto, Mode, Shares

\* A protocol is one of three.
LEMMA AgreedType == ASSUME setup \in Setups, peer \in Peers PROVE Agreed \subseteq {"", "h2", "http/1.1"}
  BY DEF Agreed, Setups, Peers, HelloProtos, NextProto

-----------------------------------------------------------------------------
(* The invariant *)

LEMMA InitIInv == Init => IInv
<1> SUFFICES ASSUME Init PROVE IInv
  OBVIOUS
<1>1. setup \in Setups /\ peer \in Peers
  BY CasesAssumption DEF Init
<1>2. attempt \in 0..MaxAttempts /\ (Mode = "grpc" => attempt > 0)
  <2>1. attempt = IF Mode = "grpc" THEN 1 ELSE 0
    BY DEF Init
  <2> QED
    BY <2>1, AttemptsAssumption
<1>3. TypeOK
  <2>1. stage \in [Goroutines -> {"idle", "wait", "control", "connect", "handshake", "settings",
                                  "upgrade", "answer", "up", "failed", "refused"}]
    BY DEF Init
  <2>2. proto \in [Goroutines -> {"", "h2", "http/1.1"}]
    BY DEF Init
  <2>3. channel \in {"none", "dialing"} /\ stage[Shared] # "up"
    BY DEF Init, Goroutines
  <2>4. \A d \in Dialers : stage[d] = "idle"
    BY SharedAssumption DEF Init, Goroutines
  <2>5. /\ expired \in BOOLEAN
        /\ handshake \in [Attempts -> {"none", "run", "send", "ended"}]
        /\ outcome \in [Attempts -> {"none", "up", "failed", "refused"}]
        /\ errChannel \in [Attempts -> 0..1]
    <3>1. expired \in BOOLEAN /\ handshake \in [Attempts -> {"none", "run", "send", "ended"}]
      BY DEF Init
    <3>2. outcome \in [Attempts -> {"none", "up", "failed", "refused"}]
      BY DEF Init
    <3>3. errChannel = [k \in Attempts |-> 0]
      BY DEF Init
    <3>4. errChannel \in [Attempts -> 0..1]
      BY <3>3
    <3> QED
      BY <3>1, <3>2, <3>4
  <2> QED
    BY <1>1, <1>2, <2>1, <2>2, <2>3, <2>4, <2>5 DEF TypeOK
<1>4. Separate
  BY <1>2, SharedAssumption DEF Init, Separate, Goroutines, Mode, Shares
<1>5. Decided
  <2>1. \A g \in Goroutines : stage[g] \in {"idle", "control"}
    BY DEF Init
  <2>2. \A k \in Attempts : outcome[k] = "none" /\ handshake[k] = "none" /\ errChannel[k] = 0
    BY DEF Init
  <2> QED
    BY <2>1, <2>2 DEF Decided
<1> QED
  BY <1>3, <1>4, <1>5 DEF IInv

LEMMA NextIInv == IInv /\ [Next]_vars => IInv'
<1> SUFFICES ASSUME IInv, [Next]_vars PROVE IInv'
  OBVIOUS
<1>1. ASSUME NEW d \in Dialers, DialOwn(d) PROVE IInv'
  <2>1. caseVars' = caseVars
    BY <1>1 DEF DialOwn
  <2>2. Agreed' = Agreed /\ Mode' = Mode /\ Shares' = Shares
    BY <2>1, AgreedStays
  <2>3. TypeOK'
    BY <1>1, <2>1, <2>2, AgreedType, SharedAssumption, AttemptsAssumption DEF DialOwn, Go, IInv, TypeOK, Separate, Decided, Owner, caseVars, grpcVars, Goroutines, Attempts, Mode, Shares
  <2>4. Separate'
    BY <1>1, <2>1, <2>2, AgreedType, SharedAssumption, AttemptsAssumption DEF DialOwn, Go, IInv, TypeOK, Separate, Decided, Owner, caseVars, grpcVars, Goroutines, Attempts, Mode, Shares
  <2>5. Decided'
    BY <1>1, <2>1, <2>2, AgreedType, SharedAssumption, AttemptsAssumption DEF DialOwn, Go, IInv, TypeOK, Separate, Decided, Owner, caseVars, grpcVars, Goroutines, Attempts, Mode, Shares
  <2> QED
    BY <2>3, <2>4, <2>5 DEF IInv
<1>2. ASSUME NEW d \in Dialers, RoundTrip(d) PROVE IInv'
  <2>1. caseVars' = caseVars
    BY <1>2 DEF RoundTrip
  <2>2. Agreed' = Agreed /\ Mode' = Mode /\ Shares' = Shares
    BY <2>1, AgreedStays
  <2>3. attempt' \in 0..MaxAttempts /\ (Mode = "grpc" => attempt' > 0)
    <3>1. attempt \in 0..MaxAttempts /\ (Mode = "grpc" => attempt > 0)
      BY DEF IInv, TypeOK, Separate
    <3>2. attempt' = attempt \/ (attempt < MaxAttempts /\ attempt' = attempt + 1)
      BY <1>2 DEF RoundTrip, AwaitShared
    <3> QED
      BY <3>1, <3>2, AttemptsAssumption
  <2>4. CASE channel = "dialing" /\ Go(d, "wait") /\ UNCHANGED <<attempt, expired>>
    <3>1. TypeOK'
      BY <1>2, <2>1, <2>2, <2>3, <2>4, AgreedType, SharedAssumption, AttemptsAssumption DEF RoundTrip, Go, AwaitShared, IInv, TypeOK, Separate, Decided, Owner, caseVars, grpcVars, Goroutines, Attempts, Mode, Shares
    <3>2. Separate'
      BY <1>2, <2>1, <2>2, <2>3, <2>4, AgreedType, SharedAssumption, AttemptsAssumption DEF RoundTrip, Go, AwaitShared, IInv, TypeOK, Separate, Decided, Owner, caseVars, grpcVars, Goroutines, Attempts, Mode, Shares
    <3>3. Decided'
      BY <1>2, <2>1, <2>2, <2>3, <2>4, AgreedType, SharedAssumption, AttemptsAssumption DEF RoundTrip, Go, AwaitShared, IInv, TypeOK, Separate, Decided, Owner, caseVars, grpcVars, Goroutines, Attempts, Mode, Shares
    <3> QED
      BY <3>1, <3>2, <3>3 DEF IInv
  <2>5. CASE channel = "none" /\ AwaitShared(d)
    <3>1. TypeOK'
      BY <1>2, <2>1, <2>2, <2>3, <2>5, AgreedType, SharedAssumption, AttemptsAssumption DEF RoundTrip, Go, AwaitShared, IInv, TypeOK, Separate, Decided, Owner, caseVars, grpcVars, Goroutines, Attempts, Mode, Shares
    <3>2. Separate'
      BY <1>2, <2>1, <2>2, <2>3, <2>5, AgreedType, SharedAssumption, AttemptsAssumption DEF RoundTrip, Go, AwaitShared, IInv, TypeOK, Separate, Decided, Owner, caseVars, grpcVars, Goroutines, Attempts, Mode, Shares
    <3>3. Decided'
      BY <1>2, <2>1, <2>2, <2>3, <2>5, AgreedType, SharedAssumption, AttemptsAssumption DEF RoundTrip, Go, AwaitShared, IInv, TypeOK, Separate, Decided, Owner, caseVars, grpcVars, Goroutines, Attempts, Mode, Shares
    <3> QED
      BY <3>1, <3>2, <3>3 DEF IInv
  <2>6. CASE channel = "ready" /\ Go(d, "answer") /\ UNCHANGED <<attempt, expired>>
    <3>1. TypeOK'
      BY <1>2, <2>1, <2>2, <2>3, <2>6, AgreedType, SharedAssumption, AttemptsAssumption DEF RoundTrip, Go, AwaitShared, IInv, TypeOK, Separate, Decided, Owner, caseVars, grpcVars, Goroutines, Attempts, Mode, Shares
    <3>2. Separate'
      BY <1>2, <2>1, <2>2, <2>3, <2>6, AgreedType, SharedAssumption, AttemptsAssumption DEF RoundTrip, Go, AwaitShared, IInv, TypeOK, Separate, Decided, Owner, caseVars, grpcVars, Goroutines, Attempts, Mode, Shares
    <3>3. Decided'
      BY <1>2, <2>1, <2>2, <2>3, <2>6, AgreedType, SharedAssumption, AttemptsAssumption DEF RoundTrip, Go, AwaitShared, IInv, TypeOK, Separate, Decided, Owner, caseVars, grpcVars, Goroutines, Attempts, Mode, Shares
    <3> QED
      BY <3>1, <3>2, <3>3 DEF IInv
  <2> QED
    BY <1>2, <2>3, <2>4, <2>5, <2>6 DEF RoundTrip, AwaitShared
<1>3. ASSUME NEW d \in Dialers, TunCustomName(d) PROVE IInv'
  <2>1. caseVars' = caseVars
    BY <1>3 DEF TunCustomName
  <2>2. Agreed' = Agreed /\ Mode' = Mode /\ Shares' = Shares
    BY <2>1, AgreedStays
  <2>3. attempt' \in 0..MaxAttempts /\ (Mode = "grpc" => attempt' > 0)
    <3>1. attempt \in 0..MaxAttempts /\ (Mode = "grpc" => attempt > 0)
      BY DEF IInv, TypeOK, Separate
    <3>2. attempt' = attempt \/ (attempt < MaxAttempts /\ attempt' = attempt + 1)
      BY <1>3 DEF TunCustomName, AwaitShared
    <3> QED
      BY <3>1, <3>2, AttemptsAssumption
  <2>4. CASE channel = "dialing" /\ Go(d, "wait") /\ UNCHANGED <<attempt, expired>>
    <3>1. TypeOK'
      BY <1>3, <2>1, <2>2, <2>3, <2>4, AgreedType, SharedAssumption, AttemptsAssumption DEF TunCustomName, Go, AwaitShared, IInv, TypeOK, Separate, Decided, Owner, caseVars, grpcVars, Goroutines, Attempts, Mode, Shares
    <3>2. Separate'
      BY <1>3, <2>1, <2>2, <2>3, <2>4, AgreedType, SharedAssumption, AttemptsAssumption DEF TunCustomName, Go, AwaitShared, IInv, TypeOK, Separate, Decided, Owner, caseVars, grpcVars, Goroutines, Attempts, Mode, Shares
    <3>3. Decided'
      BY <1>3, <2>1, <2>2, <2>3, <2>4, AgreedType, SharedAssumption, AttemptsAssumption DEF TunCustomName, Go, AwaitShared, IInv, TypeOK, Separate, Decided, Owner, caseVars, grpcVars, Goroutines, Attempts, Mode, Shares
    <3> QED
      BY <3>1, <3>2, <3>3 DEF IInv
  <2>5. CASE channel = "none" /\ AwaitShared(d)
    <3>1. TypeOK'
      BY <1>3, <2>1, <2>2, <2>3, <2>5, AgreedType, SharedAssumption, AttemptsAssumption DEF TunCustomName, Go, AwaitShared, IInv, TypeOK, Separate, Decided, Owner, caseVars, grpcVars, Goroutines, Attempts, Mode, Shares
    <3>2. Separate'
      BY <1>3, <2>1, <2>2, <2>3, <2>5, AgreedType, SharedAssumption, AttemptsAssumption DEF TunCustomName, Go, AwaitShared, IInv, TypeOK, Separate, Decided, Owner, caseVars, grpcVars, Goroutines, Attempts, Mode, Shares
    <3>3. Decided'
      BY <1>3, <2>1, <2>2, <2>3, <2>5, AgreedType, SharedAssumption, AttemptsAssumption DEF TunCustomName, Go, AwaitShared, IInv, TypeOK, Separate, Decided, Owner, caseVars, grpcVars, Goroutines, Attempts, Mode, Shares
    <3> QED
      BY <3>1, <3>2, <3>3 DEF IInv
  <2>6. CASE channel = "ready" /\ Go(d, "up") /\ UNCHANGED <<attempt, expired>>
    <3>1. TypeOK'
      BY <1>3, <2>1, <2>2, <2>3, <2>6, AgreedType, SharedAssumption, AttemptsAssumption DEF TunCustomName, Go, AwaitShared, IInv, TypeOK, Separate, Decided, Owner, caseVars, grpcVars, Goroutines, Attempts, Mode, Shares
    <3>2. Separate'
      BY <1>3, <2>1, <2>2, <2>3, <2>6, AgreedType, SharedAssumption, AttemptsAssumption DEF TunCustomName, Go, AwaitShared, IInv, TypeOK, Separate, Decided, Owner, caseVars, grpcVars, Goroutines, Attempts, Mode, Shares
    <3>3. Decided'
      BY <1>3, <2>1, <2>2, <2>3, <2>6, AgreedType, SharedAssumption, AttemptsAssumption DEF TunCustomName, Go, AwaitShared, IInv, TypeOK, Separate, Decided, Owner, caseVars, grpcVars, Goroutines, Attempts, Mode, Shares
    <3> QED
      BY <3>1, <3>2, <3>3 DEF IInv
  <2>7. CASE channel = "failing" /\ Go(d, "failed") /\ UNCHANGED <<attempt, expired>>
    <3>1. TypeOK'
      BY <1>3, <2>1, <2>2, <2>3, <2>7, AgreedType, SharedAssumption, AttemptsAssumption DEF TunCustomName, Go, AwaitShared, IInv, TypeOK, Separate, Decided, Owner, caseVars, grpcVars, Goroutines, Attempts, Mode, Shares
    <3>2. Separate'
      BY <1>3, <2>1, <2>2, <2>3, <2>7, AgreedType, SharedAssumption, AttemptsAssumption DEF TunCustomName, Go, AwaitShared, IInv, TypeOK, Separate, Decided, Owner, caseVars, grpcVars, Goroutines, Attempts, Mode, Shares
    <3>3. Decided'
      BY <1>3, <2>1, <2>2, <2>3, <2>7, AgreedType, SharedAssumption, AttemptsAssumption DEF TunCustomName, Go, AwaitShared, IInv, TypeOK, Separate, Decided, Owner, caseVars, grpcVars, Goroutines, Attempts, Mode, Shares
    <3> QED
      BY <3>1, <3>2, <3>3 DEF IInv
  <2> QED
    BY <1>3, <2>3, <2>4, <2>5, <2>6, <2>7 DEF TunCustomName, AwaitShared
<1>4. ASSUME NEW d \in Dialers, UpgradeOK(d) PROVE IInv'
  <2>1. caseVars' = caseVars
    BY <1>4 DEF UpgradeOK
  <2>2. Agreed' = Agreed /\ Mode' = Mode /\ Shares' = Shares
    BY <2>1, AgreedStays
  <2>3. TypeOK'
    BY <1>4, <2>1, <2>2, AgreedType, SharedAssumption, AttemptsAssumption DEF UpgradeOK, Go, IInv, TypeOK, Separate, Decided, Owner, caseVars, grpcVars, Goroutines, Attempts, Mode, Shares
  <2>4. Separate'
    BY <1>4, <2>1, <2>2, AgreedType, SharedAssumption, AttemptsAssumption DEF UpgradeOK, Go, IInv, TypeOK, Separate, Decided, Owner, caseVars, grpcVars, Goroutines, Attempts, Mode, Shares
  <2>5. Decided'
    BY <1>4, <2>1, <2>2, AgreedType, SharedAssumption, AttemptsAssumption DEF UpgradeOK, Go, IInv, TypeOK, Separate, Decided, Owner, caseVars, grpcVars, Goroutines, Attempts, Mode, Shares
  <2> QED
    BY <2>3, <2>4, <2>5 DEF IInv
<1>5. ASSUME NEW d \in Dialers, UpgradeErr(d) PROVE IInv'
  <2>1. caseVars' = caseVars
    BY <1>5 DEF UpgradeErr
  <2>2. Agreed' = Agreed /\ Mode' = Mode /\ Shares' = Shares
    BY <2>1, AgreedStays
  <2>3. TypeOK'
    BY <1>5, <2>1, <2>2, AgreedType, SharedAssumption, AttemptsAssumption DEF UpgradeErr, Fail, IInv, TypeOK, Separate, Decided, Owner, caseVars, grpcVars, Goroutines, Attempts, Mode, Shares
  <2>4. Separate'
    BY <1>5, <2>1, <2>2, AgreedType, SharedAssumption, AttemptsAssumption DEF UpgradeErr, Fail, IInv, TypeOK, Separate, Decided, Owner, caseVars, grpcVars, Goroutines, Attempts, Mode, Shares
  <2>5. Decided'
    BY <1>5, <2>1, <2>2, AgreedType, SharedAssumption, AttemptsAssumption DEF UpgradeErr, Fail, IInv, TypeOK, Separate, Decided, Owner, caseVars, grpcVars, Goroutines, Attempts, Mode, Shares
  <2> QED
    BY <2>3, <2>4, <2>5 DEF IInv
<1>6. ASSUME NEW d \in Dialers, Response(d) PROVE IInv'
  <2>1. caseVars' = caseVars
    BY <1>6 DEF Response
  <2>2. Agreed' = Agreed /\ Mode' = Mode /\ Shares' = Shares
    BY <2>1, AgreedStays
  <2>3. CASE Go(d, "up")
    <3>1. TypeOK'
      BY <1>6, <2>1, <2>2, <2>3, AgreedType, SharedAssumption, AttemptsAssumption DEF Response, Go, Fail, IInv, TypeOK, Separate, Decided, Owner, caseVars, grpcVars, Goroutines, Attempts, Mode, Shares
    <3>2. Separate'
      BY <1>6, <2>1, <2>2, <2>3, AgreedType, SharedAssumption, AttemptsAssumption DEF Response, Go, Fail, IInv, TypeOK, Separate, Decided, Owner, caseVars, grpcVars, Goroutines, Attempts, Mode, Shares
    <3>3. Decided'
      BY <1>6, <2>1, <2>2, <2>3, AgreedType, SharedAssumption, AttemptsAssumption DEF Response, Go, Fail, IInv, TypeOK, Separate, Decided, Owner, caseVars, grpcVars, Goroutines, Attempts, Mode, Shares
    <3> QED
      BY <3>1, <3>2, <3>3 DEF IInv
  <2>4. CASE Fail(d, "failed")
    <3>1. TypeOK'
      BY <1>6, <2>1, <2>2, <2>4, AgreedType, SharedAssumption, AttemptsAssumption DEF Response, Go, Fail, IInv, TypeOK, Separate, Decided, Owner, caseVars, grpcVars, Goroutines, Attempts, Mode, Shares
    <3>2. Separate'
      BY <1>6, <2>1, <2>2, <2>4, AgreedType, SharedAssumption, AttemptsAssumption DEF Response, Go, Fail, IInv, TypeOK, Separate, Decided, Owner, caseVars, grpcVars, Goroutines, Attempts, Mode, Shares
    <3>3. Decided'
      BY <1>6, <2>1, <2>2, <2>4, AgreedType, SharedAssumption, AttemptsAssumption DEF Response, Go, Fail, IInv, TypeOK, Separate, Decided, Owner, caseVars, grpcVars, Goroutines, Attempts, Mode, Shares
    <3> QED
      BY <3>1, <3>2, <3>3 DEF IInv
  <2> QED
    BY <1>6, <2>3, <2>4 DEF Response
<1>7. ASSUME NEW g \in Goroutines, ControlOnConnSetup(g) PROVE IInv'
  <2>1. caseVars' = caseVars
    BY <1>7 DEF ControlOnConnSetup
  <2>2. Agreed' = Agreed /\ Mode' = Mode /\ Shares' = Shares
    BY <2>1, AgreedStays
  <2>3. TypeOK'
    BY <1>7, <2>1, <2>2, AgreedType, SharedAssumption, AttemptsAssumption DEF ControlOnConnSetup, Go, IInv, TypeOK, Separate, Decided, Owner, caseVars, grpcVars, Goroutines, Attempts, Mode, Shares
  <2>4. Separate'
    BY <1>7, <2>1, <2>2, AgreedType, SharedAssumption, AttemptsAssumption DEF ControlOnConnSetup, Go, IInv, TypeOK, Separate, Decided, Owner, caseVars, grpcVars, Goroutines, Attempts, Mode, Shares
  <2>5. Decided'
    BY <1>7, <2>1, <2>2, AgreedType, SharedAssumption, AttemptsAssumption DEF ControlOnConnSetup, Go, IInv, TypeOK, Separate, Decided, Owner, caseVars, grpcVars, Goroutines, Attempts, Mode, Shares
  <2> QED
    BY <2>3, <2>4, <2>5 DEF IInv
<1>8. ASSUME NEW g \in Goroutines, ControlErr(g) PROVE IInv'
  <2>1. caseVars' = caseVars
    BY <1>8 DEF ControlErr
  <2>2. Agreed' = Agreed /\ Mode' = Mode /\ Shares' = Shares
    BY <2>1, AgreedStays
  <2>3. TypeOK'
    BY <1>8, <2>1, <2>2, AgreedType, SharedAssumption, AttemptsAssumption DEF ControlErr, Go, IInv, TypeOK, Separate, Decided, Owner, caseVars, grpcVars, Goroutines, Attempts, Mode, Shares
  <2>4. Separate'
    BY <1>8, <2>1, <2>2, AgreedType, SharedAssumption, AttemptsAssumption DEF ControlErr, Go, IInv, TypeOK, Separate, Decided, Owner, caseVars, grpcVars, Goroutines, Attempts, Mode, Shares
  <2>5. Decided'
    BY <1>8, <2>1, <2>2, AgreedType, SharedAssumption, AttemptsAssumption DEF ControlErr, Go, IInv, TypeOK, Separate, Decided, Owner, caseVars, grpcVars, Goroutines, Attempts, Mode, Shares
  <2> QED
    BY <2>3, <2>4, <2>5 DEF IInv
<1>9. ASSUME NEW g \in Goroutines, ConnectOK(g) PROVE IInv'
  <2>1. caseVars' = caseVars
    BY <1>9 DEF ConnectOK
  <2>2. Agreed' = Agreed /\ Mode' = Mode /\ Shares' = Shares
    BY <2>1, AgreedStays
  <2>3. TypeOK'
    BY <1>9, <2>1, <2>2, AgreedType, SharedAssumption, AttemptsAssumption DEF ConnectOK, Go, IInv, TypeOK, Separate, Decided, Owner, caseVars, grpcVars, Goroutines, Attempts, Mode, Shares
  <2>4. Separate'
    BY <1>9, <2>1, <2>2, AgreedType, SharedAssumption, AttemptsAssumption DEF ConnectOK, Go, IInv, TypeOK, Separate, Decided, Owner, caseVars, grpcVars, Goroutines, Attempts, Mode, Shares
  <2>5. Decided'
    BY <1>9, <2>1, <2>2, AgreedType, SharedAssumption, AttemptsAssumption DEF ConnectOK, Go, IInv, TypeOK, Separate, Decided, Owner, caseVars, grpcVars, Goroutines, Attempts, Mode, Shares
  <2> QED
    BY <2>3, <2>4, <2>5 DEF IInv
<1>10. ASSUME NEW g \in Goroutines, ConnectErr(g) PROVE IInv'
  <2>1. caseVars' = caseVars
    BY <1>10 DEF ConnectErr
  <2>2. Agreed' = Agreed /\ Mode' = Mode /\ Shares' = Shares
    BY <2>1, AgreedStays
  <2>3. TypeOK'
    BY <1>10, <2>1, <2>2, AgreedType, SharedAssumption, AttemptsAssumption DEF ConnectErr, Fail, IInv, TypeOK, Separate, Decided, Owner, caseVars, grpcVars, Goroutines, Attempts, Mode, Shares
  <2>4. Separate'
    BY <1>10, <2>1, <2>2, AgreedType, SharedAssumption, AttemptsAssumption DEF ConnectErr, Fail, IInv, TypeOK, Separate, Decided, Owner, caseVars, grpcVars, Goroutines, Attempts, Mode, Shares
  <2>5. Decided'
    BY <1>10, <2>1, <2>2, AgreedType, SharedAssumption, AttemptsAssumption DEF ConnectErr, Fail, IInv, TypeOK, Separate, Decided, Owner, caseVars, grpcVars, Goroutines, Attempts, Mode, Shares
  <2> QED
    BY <2>3, <2>4, <2>5 DEF IInv
<1>11. ASSUME NEW g \in Goroutines, HandshakeOK(g) PROVE IInv'
  <2>1. caseVars' = caseVars
    BY <1>11 DEF HandshakeOK
  <2>2. Agreed' = Agreed /\ Mode' = Mode /\ Shares' = Shares
    BY <2>1, AgreedStays
  <2>3. proto' \in [Goroutines -> {"", "h2", "http/1.1"}] /\ proto'[g] \in Agreed
    BY <1>11, AgreedType DEF HandshakeOK, IInv, TypeOK, Goroutines
  <2>4. CASE g = Shared /\ Ready
    <3>1. TypeOK'
      BY <1>11, <2>1, <2>2, <2>3, <2>4, AgreedType, SharedAssumption, AttemptsAssumption DEF HandshakeOK, Go, Ready, IInv, TypeOK, Separate, Decided, Owner, caseVars, grpcVars, Goroutines, Attempts, Mode, Shares
    <3>2. Separate'
      BY <1>11, <2>1, <2>2, <2>3, <2>4, AgreedType, SharedAssumption, AttemptsAssumption DEF HandshakeOK, Go, Ready, IInv, TypeOK, Separate, Decided, Owner, caseVars, grpcVars, Goroutines, Attempts, Mode, Shares
    <3>3. Decided'
      BY <1>11, <2>1, <2>2, <2>3, <2>4, AgreedType, SharedAssumption, AttemptsAssumption DEF HandshakeOK, Go, Ready, IInv, TypeOK, Separate, Decided, Owner, caseVars, grpcVars, Goroutines, Attempts, Mode, Shares
    <3> QED
      BY <3>1, <3>2, <3>3 DEF IInv
  <2>5. CASE g # Shared /\ Go(g, IF Mode = "wss" THEN "upgrade" ELSE "up")
    <3>1. TypeOK'
      BY <1>11, <2>1, <2>2, <2>3, <2>5, AgreedType, SharedAssumption, AttemptsAssumption DEF HandshakeOK, Go, Ready, IInv, TypeOK, Separate, Decided, Owner, caseVars, grpcVars, Goroutines, Attempts, Mode, Shares
    <3>2. Separate'
      BY <1>11, <2>1, <2>2, <2>3, <2>5, AgreedType, SharedAssumption, AttemptsAssumption DEF HandshakeOK, Go, Ready, IInv, TypeOK, Separate, Decided, Owner, caseVars, grpcVars, Goroutines, Attempts, Mode, Shares
    <3>3. Decided'
      BY <1>11, <2>1, <2>2, <2>3, <2>5, AgreedType, SharedAssumption, AttemptsAssumption DEF HandshakeOK, Go, Ready, IInv, TypeOK, Separate, Decided, Owner, caseVars, grpcVars, Goroutines, Attempts, Mode, Shares
    <3> QED
      BY <3>1, <3>2, <3>3 DEF IInv
  <2> QED
    BY <1>11, <2>3, <2>4, <2>5 DEF HandshakeOK
<1>12. ASSUME NEW g \in Goroutines, HandshakeErr(g) PROVE IInv'
  <2>1. caseVars' = caseVars
    BY <1>12 DEF HandshakeErr
  <2>2. Agreed' = Agreed /\ Mode' = Mode /\ Shares' = Shares
    BY <2>1, AgreedStays
  <2>3. TypeOK'
    BY <1>12, <2>1, <2>2, AgreedType, SharedAssumption, AttemptsAssumption DEF HandshakeErr, Fail, IInv, TypeOK, Separate, Decided, Owner, caseVars, grpcVars, Goroutines, Attempts, Mode, Shares
  <2>4. Separate'
    BY <1>12, <2>1, <2>2, AgreedType, SharedAssumption, AttemptsAssumption DEF HandshakeErr, Fail, IInv, TypeOK, Separate, Decided, Owner, caseVars, grpcVars, Goroutines, Attempts, Mode, Shares
  <2>5. Decided'
    BY <1>12, <2>1, <2>2, AgreedType, SharedAssumption, AttemptsAssumption DEF HandshakeErr, Fail, IInv, TypeOK, Separate, Decided, Owner, caseVars, grpcVars, Goroutines, Attempts, Mode, Shares
  <2> QED
    BY <2>3, <2>4, <2>5 DEF IInv
<1>13. ASSUME NEW g \in Goroutines, HandshakeLost(g) PROVE IInv'
  <2>1. caseVars' = caseVars
    BY <1>13 DEF HandshakeLost
  <2>2. Agreed' = Agreed /\ Mode' = Mode /\ Shares' = Shares
    BY <2>1, AgreedStays
  <2>3. TypeOK'
    BY <1>13, <2>1, <2>2, AgreedType, SharedAssumption, AttemptsAssumption DEF HandshakeLost, Fail, IInv, TypeOK, Separate, Decided, Owner, caseVars, grpcVars, Goroutines, Attempts, Mode, Shares
  <2>4. Separate'
    BY <1>13, <2>1, <2>2, AgreedType, SharedAssumption, AttemptsAssumption DEF HandshakeLost, Fail, IInv, TypeOK, Separate, Decided, Owner, caseVars, grpcVars, Goroutines, Attempts, Mode, Shares
  <2>5. Decided'
    BY <1>13, <2>1, <2>2, AgreedType, SharedAssumption, AttemptsAssumption DEF HandshakeLost, Fail, IInv, TypeOK, Separate, Decided, Owner, caseVars, grpcVars, Goroutines, Attempts, Mode, Shares
  <2> QED
    BY <2>3, <2>4, <2>5 DEF IInv
<1>14. ASSUME NEW k \in Attempts, Handshake(k) PROVE IInv'
  <2>1. caseVars' = caseVars
    BY <1>14 DEF Handshake
  <2>2. Agreed' = Agreed /\ Mode' = Mode /\ Shares' = Shares
    BY <2>1, AgreedStays
  <2>3. TypeOK'
    BY <1>14, <2>1, <2>2, AgreedType, SharedAssumption, AttemptsAssumption DEF Handshake, Current, Closed, IInv, TypeOK, Separate, Decided, Owner, caseVars, grpcVars, Goroutines, Attempts, Mode, Shares
  <2>4. Separate'
    BY <1>14, <2>1, <2>2, AgreedType, SharedAssumption, AttemptsAssumption DEF Handshake, Current, Closed, IInv, TypeOK, Separate, Decided, Owner, caseVars, grpcVars, Goroutines, Attempts, Mode, Shares
  <2>5. Decided'
    BY <1>14, <2>1, <2>2, AgreedType, SharedAssumption, AttemptsAssumption DEF Handshake, Current, Closed, IInv, TypeOK, Separate, Decided, Owner, caseVars, grpcVars, Goroutines, Attempts, Mode, Shares
  <2> QED
    BY <2>3, <2>4, <2>5 DEF IInv
<1>15. ASSUME NEW k \in Attempts, SendResult(k) PROVE IInv'
  <2>1. caseVars' = caseVars
    BY <1>15 DEF SendResult
  <2>2. Agreed' = Agreed /\ Mode' = Mode /\ Shares' = Shares
    BY <2>1, AgreedStays
  <2>3. errChannel' \in [Attempts -> 0..1]
    <3>1. errChannel \in [Attempts -> 0..1]
      BY DEF IInv, TypeOK
    <3>2. errChannel[k] < 1 /\ errChannel' = [errChannel EXCEPT ![k] = @ + 1]
      BY <1>15 DEF SendResult
    <3> QED
      BY <3>1, <3>2
  <2>4. TypeOK'
    BY <1>15, <2>1, <2>2, <2>3, AgreedType, SharedAssumption, AttemptsAssumption DEF SendResult, IInv, TypeOK, Separate, Decided, Owner, caseVars, grpcVars, Goroutines, Attempts, Mode, Shares
  <2>5. Separate'
    BY <1>15, <2>1, <2>2, <2>3, AgreedType, SharedAssumption, AttemptsAssumption DEF SendResult, IInv, TypeOK, Separate, Decided, Owner, caseVars, grpcVars, Goroutines, Attempts, Mode, Shares
  <2>6. Decided'
    BY <1>15, <2>1, <2>2, <2>3, AgreedType, SharedAssumption, AttemptsAssumption DEF SendResult, IInv, TypeOK, Separate, Decided, Owner, caseVars, grpcVars, Goroutines, Attempts, Mode, Shares
  <2> QED
    BY <2>4, <2>5, <2>6 DEF IInv
<1>16. ASSUME ReceiveResult PROVE IInv'
  <2>1. caseVars' = caseVars
    BY <1>16 DEF ReceiveResult
  <2>2. Agreed' = Agreed /\ Mode' = Mode /\ Shares' = Shares
    BY <2>1, AgreedStays
  <2>3. attempt \in Attempts
    <3>1. attempt \in 0..MaxAttempts /\ attempt > 0
      BY <1>16 DEF ReceiveResult, IInv, TypeOK, Separate
    <3> QED
      BY <3>1, AttemptsAssumption DEF Attempts
  <2>4. errChannel' \in [Attempts -> 0..1] /\ \A k \in Attempts : errChannel'[k] > 0 => errChannel[k] > 0
    <3>1. errChannel \in [Attempts -> 0..1]
      BY DEF IInv, TypeOK
    <3>2. errChannel[attempt] > 0 /\ errChannel' = [errChannel EXCEPT ![attempt] = @ - 1]
      BY <1>16 DEF ReceiveResult
    <3> QED
      BY <2>3, <3>1, <3>2
  <2>5. outcome[attempt] \in {"up", "failed", "refused"}
    BY <1>16, <2>3 DEF ReceiveResult, IInv, TypeOK, Decided
  <2>6. CASE /\ outcome[attempt] = "up" /\ Go(Shared, "settings")
             /\ \E p \in Agreed : proto' = [proto EXCEPT ![Shared] = p]
    <3>1. TypeOK'
      BY <1>16, <2>1, <2>2, <2>3, <2>4, <2>5, <2>6, AgreedType, SharedAssumption, AttemptsAssumption DEF ReceiveResult, Go, Fail, IInv, TypeOK, Separate, Decided, Owner, caseVars, grpcVars, Goroutines, Attempts, Mode, Shares
    <3>2. Separate'
      BY <1>16, <2>1, <2>2, <2>3, <2>4, <2>5, <2>6, AgreedType, SharedAssumption, AttemptsAssumption DEF ReceiveResult, Go, Fail, IInv, TypeOK, Separate, Decided, Owner, caseVars, grpcVars, Goroutines, Attempts, Mode, Shares
    <3>3. Decided'
      BY <1>16, <2>1, <2>2, <2>3, <2>4, <2>5, <2>6, AgreedType, SharedAssumption, AttemptsAssumption DEF ReceiveResult, Go, Fail, IInv, TypeOK, Separate, Decided, Owner, caseVars, grpcVars, Goroutines, Attempts, Mode, Shares
    <3> QED
      BY <3>1, <3>2, <3>3 DEF IInv
  <2>7. CASE outcome[attempt] # "up" /\ Fail(Shared, outcome[attempt]) /\ UNCHANGED proto
    <3>1. TypeOK'
      BY <1>16, <2>1, <2>2, <2>3, <2>4, <2>5, <2>7, AgreedType, SharedAssumption, AttemptsAssumption DEF ReceiveResult, Go, Fail, IInv, TypeOK, Separate, Decided, Owner, caseVars, grpcVars, Goroutines, Attempts, Mode, Shares
    <3>2. Separate'
      BY <1>16, <2>1, <2>2, <2>3, <2>4, <2>5, <2>7, AgreedType, SharedAssumption, AttemptsAssumption DEF ReceiveResult, Go, Fail, IInv, TypeOK, Separate, Decided, Owner, caseVars, grpcVars, Goroutines, Attempts, Mode, Shares
    <3>3. Decided'
      BY <1>16, <2>1, <2>2, <2>3, <2>4, <2>5, <2>7, AgreedType, SharedAssumption, AttemptsAssumption DEF ReceiveResult, Go, Fail, IInv, TypeOK, Separate, Decided, Owner, caseVars, grpcVars, Goroutines, Attempts, Mode, Shares
    <3> QED
      BY <3>1, <3>2, <3>3 DEF IInv
  <2> QED
    BY <1>16, <2>3, <2>4, <2>5, <2>6, <2>7 DEF ReceiveResult
<1>17. ASSUME GiveUp PROVE IInv'
  <2>1. caseVars' = caseVars
    BY <1>17 DEF GiveUp
  <2>2. Agreed' = Agreed /\ Mode' = Mode /\ Shares' = Shares
    BY <2>1, AgreedStays
  <2>3. TypeOK'
    BY <1>17, <2>1, <2>2, AgreedType, SharedAssumption, AttemptsAssumption DEF GiveUp, Fail, IInv, TypeOK, Separate, Decided, Owner, caseVars, grpcVars, Goroutines, Attempts, Mode, Shares
  <2>4. Separate'
    BY <1>17, <2>1, <2>2, AgreedType, SharedAssumption, AttemptsAssumption DEF GiveUp, Fail, IInv, TypeOK, Separate, Decided, Owner, caseVars, grpcVars, Goroutines, Attempts, Mode, Shares
  <2>5. Decided'
    BY <1>17, <2>1, <2>2, AgreedType, SharedAssumption, AttemptsAssumption DEF GiveUp, Fail, IInv, TypeOK, Separate, Decided, Owner, caseVars, grpcVars, Goroutines, Attempts, Mode, Shares
  <2> QED
    BY <2>3, <2>4, <2>5 DEF IInv
<1>18. ASSUME SettingsReceived PROVE IInv'
  <2>1. caseVars' = caseVars
    BY <1>18 DEF SettingsReceived
  <2>2. Agreed' = Agreed /\ Mode' = Mode /\ Shares' = Shares
    BY <2>1, AgreedStays
  <2>3. TypeOK'
    BY <1>18, <2>1, <2>2, AgreedType, SharedAssumption, AttemptsAssumption DEF SettingsReceived, Ready, IInv, TypeOK, Separate, Decided, Owner, caseVars, grpcVars, Goroutines, Attempts, Mode, Shares
  <2>4. Separate'
    BY <1>18, <2>1, <2>2, AgreedType, SharedAssumption, AttemptsAssumption DEF SettingsReceived, Ready, IInv, TypeOK, Separate, Decided, Owner, caseVars, grpcVars, Goroutines, Attempts, Mode, Shares
  <2>5. Decided'
    BY <1>18, <2>1, <2>2, AgreedType, SharedAssumption, AttemptsAssumption DEF SettingsReceived, Ready, IInv, TypeOK, Separate, Decided, Owner, caseVars, grpcVars, Goroutines, Attempts, Mode, Shares
  <2> QED
    BY <2>3, <2>4, <2>5 DEF IInv
<1>19. ASSUME Expire PROVE IInv'
  <2>1. caseVars' = caseVars
    BY <1>19 DEF Expire
  <2>2. Agreed' = Agreed /\ Mode' = Mode /\ Shares' = Shares
    BY <2>1, AgreedStays
  <2>3. TypeOK'
    BY <1>19, <2>1, <2>2, AgreedType, SharedAssumption, AttemptsAssumption DEF Expire, IInv, TypeOK, Separate, Decided, Owner, caseVars, grpcVars, Goroutines, Attempts, Mode, Shares
  <2>4. Separate'
    BY <1>19, <2>1, <2>2, AgreedType, SharedAssumption, AttemptsAssumption DEF Expire, IInv, TypeOK, Separate, Decided, Owner, caseVars, grpcVars, Goroutines, Attempts, Mode, Shares
  <2>5. Decided'
    BY <1>19, <2>1, <2>2, AgreedType, SharedAssumption, AttemptsAssumption DEF Expire, IInv, TypeOK, Separate, Decided, Owner, caseVars, grpcVars, Goroutines, Attempts, Mode, Shares
  <2> QED
    BY <2>3, <2>4, <2>5 DEF IInv
<1>20. ASSUME Redial PROVE IInv'
  <2>1. caseVars' = caseVars
    BY <1>20 DEF Redial
  <2>2. Agreed' = Agreed /\ Mode' = Mode /\ Shares' = Shares
    BY <2>1, AgreedStays
  <2>3. attempt' \in 0..MaxAttempts /\ attempt' > 0
    <3>1. attempt \in 0..MaxAttempts
      BY DEF IInv, TypeOK
    <3>2. attempt < MaxAttempts /\ attempt' = attempt + 1
      BY <1>20 DEF Redial
    <3> QED
      BY <3>1, <3>2, AttemptsAssumption
  <2>4. TypeOK'
    BY <1>20, <2>1, <2>2, <2>3, AgreedType, SharedAssumption, AttemptsAssumption DEF Redial, Go, IInv, TypeOK, Separate, Decided, Owner, caseVars, grpcVars, Goroutines, Attempts, Mode, Shares
  <2>5. Separate'
    BY <1>20, <2>1, <2>2, <2>3, AgreedType, SharedAssumption, AttemptsAssumption DEF Redial, Go, IInv, TypeOK, Separate, Decided, Owner, caseVars, grpcVars, Goroutines, Attempts, Mode, Shares
  <2>6. Decided'
    BY <1>20, <2>1, <2>2, <2>3, AgreedType, SharedAssumption, AttemptsAssumption DEF Redial, Go, IInv, TypeOK, Separate, Decided, Owner, caseVars, grpcVars, Goroutines, Attempts, Mode, Shares
  <2> QED
    BY <2>4, <2>5, <2>6 DEF IInv
<1>21. ASSUME SharedLost PROVE IInv'
  <2>1. caseVars' = caseVars
    BY <1>21 DEF SharedLost
  <2>2. Agreed' = Agreed /\ Mode' = Mode /\ Shares' = Shares
    BY <2>1, AgreedStays
  <2>3. TypeOK'
    BY <1>21, <2>1, <2>2, AgreedType, SharedAssumption, AttemptsAssumption DEF SharedLost, IInv, TypeOK, Separate, Decided, Owner, caseVars, grpcVars, Goroutines, Attempts, Mode, Shares
  <2>4. Separate'
    BY <1>21, <2>1, <2>2, AgreedType, SharedAssumption, AttemptsAssumption DEF SharedLost, IInv, TypeOK, Separate, Decided, Owner, caseVars, grpcVars, Goroutines, Attempts, Mode, Shares
  <2>5. Decided'
    BY <1>21, <2>1, <2>2, AgreedType, SharedAssumption, AttemptsAssumption DEF SharedLost, IInv, TypeOK, Separate, Decided, Owner, caseVars, grpcVars, Goroutines, Attempts, Mode, Shares
  <2> QED
    BY <2>3, <2>4, <2>5 DEF IInv
<1>22. CASE UNCHANGED vars
  <2>1. Agreed' = Agreed /\ Mode' = Mode /\ Shares' = Shares
    BY <1>22, AgreedStays DEF vars
  <2> QED
    BY <1>22, <2>1 DEF vars, caseVars, grpcVars, IInv, TypeOK, Separate, Decided, Owner
<1> QED
  BY <1>1, <1>2, <1>3, <1>4, <1>5, <1>6, <1>7, <1>8, <1>9, <1>10, <1>11, <1>12, <1>13, <1>14, <1>15, <1>16, <1>17, <1>18, <1>19, <1>20, <1>21, <1>22
     DEF Next, Call, DialStep, RequestStep, HandshakeStep, ChannelStep

-----------------------------------------------------------------------------
(* The theorems *)

\* The state stays well typed: calls wait only while the shared connection is
\* dialled, whatever fails in which order.
THEOREM TypeCorrect == Spec => []TypeOK
<1>1. IInv => TypeOK
  BY DEF IInv
<1> QED
  BY <1>1, InitIInv, NextIInv, PTL DEF Spec

\* Every connection that a dial hands out is to the peer that the options ask
\* for, and TLS turns no such peer away but for the one case that is named.
THEOREM AsConfiguredHolds == Spec => []AsConfigured
<1>1. IInv => AsConfigured
  BY AgreedIsWanted, WantedIsAgreed DEF IInv, TypeOK, Decided, Owner, AsConfigured, Goroutines
<1> QED
  BY <1>1, InitIInv, NextIInv, PTL DEF Spec
=============================================================================
