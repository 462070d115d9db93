---------------------------- MODULE MCClientDial ----------------------------
EXTENDS ClientDial

TLSModes == {"tls", "wss", "h2", "grpc"}

Case(mode, name, ip, insecure, fingerprint, vpn, names, alpn, manner) ==
  [setup |-> [mode |-> mode, serverName |-> name, remoteIP |-> ip, insecure |-> insecure,
              fingerprint |-> fingerprint, vpn |-> vpn],
   peer |-> [names |-> names, alpn |-> alpn, manner |-> manner]]

\* Everything that TLS looks at, with a server that answers.
Configured ==
  {Case(mode, name, ip, insecure, fingerprint, "off", names, alpn, "serves") :
     mode \in TLSModes, name \in {"", "front"}, ip \in BOOLEAN, insecure \in BOOLEAN,
     fingerprint \in {"", "chrome"}, names \in {{}, {"front"}, {"remote"}},
     alpn \in SUBSET {"h2", "http/1.1"}}

\* Every manner of the server and of the protector, for a good configuration.
Mannered ==
  {Case(mode, "front", FALSE, FALSE, "chrome", vpn, {"front"}, {"h2", "http/1.1"}, manner) :
     mode \in TLSModes \cup {"ws"}, vpn \in {"off", "answers", "silent"},
     manner \in {"serves", "rejects", "silentInHandshake", "silentAfter"}}

AllCases == Configured \cup Mannered
=============================================================================
