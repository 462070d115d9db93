------------------------------ MODULE Startup ------------------------------
(***************************************************************************)
(* From the flags and the environment to a plugin that listens             *)
(* (src/main.go, src/args/args.go, src/registry/registry.go, newHandler of *)
(* src/handler.go and the constructors of the modes).                      *)
(*                                                                         *)
(* SIP003 gives the same four variables to both plugins: SS_REMOTE is the  *)
(* side of the network and SS_LOCAL the side of the program. The options   *)
(* of the plugin listen at their "local" address and dial their "remote"   *)
(* one, so a server's are swapped; a plugin without the variables is       *)
(* configured by its flags alone.                                          *)
(*                                                                         *)
(* The options are named as in SS_PLUGIN_OPTIONS. A number is the word it  *)
(* is written as.                                                          *)
(***************************************************************************)
EXTENDS PluginOptions

CONSTANTS
  Words,         \* the runs of bytes without a meaning of their own
  Environments,  \* values of the five variables, each a text; <<>> is unset
  FlagSets,      \* options that the flags may give
  BitWidth       \* the words that are decimal numbers, with their width in bits

VariableNames ==
  {"SS_REMOTE_HOST", "SS_REMOTE_PORT", "SS_LOCAL_HOST", "SS_LOCAL_PORT", "SS_PLUGIN_OPTIONS"}

Symbols == Words \cup {Backslash, Semicolon, "=", ":", "[", "]"}

ASSUME EnvironmentsAssumption == Environments \subseteq [VariableNames -> Seq(Symbols)]

VARIABLES
  pc,         \* the statement of main to come
  env,        \* the process's environment
  flags,      \* what flags.Parse has left in options
  args,       \* what parseEnv has returned
  options,    \* args.Options
  listening   \* where the listener is bound: its host and port, or "nowhere"

vars == <<pc, env, flags, args, options, listening>>

Modes == {"tcp", "tls", "mtls", "ws", "wss", "mws", "mwss", "h2", "quic", "grpc", "gun"}

Switches == {"server", "nocomp", "insecure", "fastOpen", "__android_vpn"}
Texts == {"mode", "host", "path", "cert", "key", "serverName", "serviceName", "fingerprint"}
Addresses == {"localAddr", "remoteAddr"}
Ports == {"localPort", "remotePort"}
Numbers == Ports \cup {"mux", "logLevel", "ed"}
OptionNames == Switches \cup Texts \cup Addresses \cup Numbers

\* What flags.Parse leaves: the numbers are of the type uint, which is wider than
\* what ApplyOptions takes.
ASSUME FlagSetsAssumption ==
  \A f \in FlagSets :
    /\ f = [name \in OptionNames |-> f[name]]
    /\ \A name \in Switches : f[name] \in BOOLEAN
    /\ \A name \in Texts \cup Addresses : f[name] \in Seq(Symbols)
    /\ \A name \in Numbers : f[name] \in DOMAIN BitWidth

ASSUME BitWidthAssumption ==
  /\ \A word \in DOMAIN BitWidth : word \in Words /\ BitWidth[word] \in Nat
  /\ "1" \in DOMAIN BitWidth

Word(text) == IF Len(text) = 1 THEN text[1] ELSE "not one word"

-----------------------------------------------------------------------------
(* ApplyOptions *)

ParseUintAnyWidth(text, bits) ==
  LET word == Word(text)
  IN  IF word \in DOMAIN BitWidth THEN [ok |-> TRUE, value |-> word] ELSE Failed

\* strconv.ParseUint(text, 10, bits)
ParseUint(text, bits) ==
  LET word == Word(text)
  IN  IF word \in DOMAIN BitWidth /\ BitWidth[word] <= bits
      THEN [ok |-> TRUE, value |-> word]
      ELSE Failed

Bits(name) == IF name = "mux" THEN 16 ELSE 32

\* The variables count only together, but it is SS_LOCAL_HOST that is asked
\* twice and SS_LOCAL_PORT that is not.
EnvironmentUsed ==
  \A name \in {"SS_REMOTE_HOST", "SS_REMOTE_PORT", "SS_LOCAL_HOST"} : env[name] # <<>>

EnvironmentArgs ==
  ArgsOf(<< <<<<"remoteAddr">>, env["SS_REMOTE_HOST"]>>,
            <<<<"remotePort">>, env["SS_REMOTE_PORT"]>>,
            <<<<"localAddr">>, env["SS_LOCAL_HOST"]>>,
            <<<<"localPort">>, env["SS_LOCAL_PORT"]>> >>)

\* An option in SS_PLUGIN_OPTIONS replaces the variable of the same meaning.
Replaced(given, other) ==
  [key \in DOMAIN given \cup DOMAIN other |->
     IF key \in DOMAIN other THEN other[key] ELSE given[key]]

ParseEnv ==
  LET other == ParsePluginOptions(env["SS_PLUGIN_OPTIONS"])
  IN  IF ~EnvironmentUsed THEN [ok |-> TRUE, args |-> ArgsOf(<<>>)]
      ELSE IF ~other.ok THEN Failed
      ELSE [ok |-> TRUE, args |-> Replaced(EnvironmentArgs, ArgsOf(other.pairs))]

\* The key whose value an option takes, after "server" has been looked at.
KeyOf(name, server) ==
  <<IF ~server THEN name
    ELSE CASE name = "localAddr"  -> "remoteAddr"
           [] name = "remoteAddr" -> "localAddr"
           [] name = "localPort"  -> "remotePort"
           [] name = "remotePort" -> "localPort"
           [] OTHER               -> name>>

NumbersParse(a) ==
  \A name \in Numbers : Has(a, <<name>>) => ParseUint(Get(a, <<name>>), Bits(name)).ok

\* Asked before the option "server" is looked at.
IsServerByFlag(old, a) == old["server"]

IsServer(old, a) == old["server"] \/ Has(a, <<"server">>)

Assigned(old, a) ==
  [name \in OptionNames |->
     LET key == KeyOf(name, IsServer(old, a))
     IN  IF name \in Switches     THEN old[name] \/ Has(a, key)
         ELSE IF ~Has(a, key)     THEN old[name]
         ELSE IF name \in Numbers THEN ParseUint(Get(a, key), Bits(name)).value
         ELSE Get(a, key)]

-----------------------------------------------------------------------------
(* The statements of main *)

\* log.Fatalf
Exit ==
  /\ pc' = "exited"
  /\ UNCHANGED <<env, flags, args, options, listening>>

ReadEnvironment ==
  /\ pc = "environment"
  /\ ParseEnv.ok
  /\ args' = ParseEnv.args
  /\ pc' = "options"
  /\ UNCHANGED <<env, flags, options, listening>>

ReadEnvironmentErr == pc = "environment" /\ ~ParseEnv.ok /\ Exit

ApplyOptions ==
  /\ pc = "options"
  /\ NumbersParse(args)
  /\ options' = Assigned(options, args)
  /\ pc' = "handler"
  /\ UNCHANGED <<env, flags, args, listening>>

ApplyOptionsErr == pc = "options" /\ ~NumbersParse(args) /\ Exit

Mode == Word(options["mode"])

\* The local address as the listeners resolve it. One that cannot be resolved
\* is a nil *net.TCPAddr or *net.UDPAddr inside a net.Addr that is not nil:
\* Listen and ListenPacket do not replace it by 0.0.0.0:0, they fail.
LocalAddr ==
  LET addr == SplitHostPort(HostPort(options["localAddr"], options["localPort"]))
  IN  IF addr.ok /\ BitWidth[options["localPort"]] <= 16
      THEN {<<addr.host, addr.port>>}
      ELSE {}

\* buildServerTLSConfig
CertificateGiven == options["cert"] # <<>> /\ options["key"] # <<>>

\* What the constructors of the modes ask for besides an address to bind.
\* http.ServeMux.Handle panics on an empty pattern.
NewTCPListener == TRUE
NewTLSListener == CertificateGiven
NewMTLSListener == NewTLSListener
NewWSListener == options["path"] # <<>>
NewWSSListener == NewWSListener /\ CertificateGiven
NewMWSListener == NewWSListener
NewMWSSListener == NewMWSListener /\ CertificateGiven
NewH2Listener == CertificateGiven /\ options["path"] # <<>>
NewGunListener == CertificateGiven
NewQUICListener == CertificateGiven

\* The registry of the server's modes.
Creatable ==
  \/ Mode = "tcp"  /\ NewTCPListener
  \/ Mode = "tls"  /\ NewTLSListener
  \/ Mode = "mtls" /\ NewMTLSListener
  \/ Mode = "ws"   /\ NewWSListener
  \/ Mode = "wss"  /\ NewWSSListener
  \/ Mode = "mws"  /\ NewMWSListener
  \/ Mode = "mwss" /\ NewMWSSListener
  \/ Mode = "h2"   /\ NewH2Listener
  \/ Mode = "quic" /\ NewQUICListener
  \/ Mode \in {"grpc", "gun"} /\ NewGunListener

\* All of them bind before they look for the certificate, but that of quic;
\* main exits whichever fails.
NewListener ==
  /\ pc = "handler" /\ options["server"]
  /\ Creatable
  /\ \E addr \in LocalAddr : listening' = addr
  /\ pc' = "serving"
  /\ UNCHANGED <<env, flags, args, options>>

\* The transporter's constructor opens nothing. The listener is a TCPListener.
NewTransporter ==
  /\ pc = "handler" /\ ~options["server"]
  /\ Mode \in Modes
  /\ \E addr \in LocalAddr : listening' = addr
  /\ pc' = "serving"
  /\ UNCHANGED <<env, flags, args, options>>

\* Also where the address is in use or the certificate cannot be read.
\* An empty pattern ends the process as well, by a panic.
NewHandlerErr == pc = "handler" /\ Exit

Init ==
  /\ pc = "environment"
  /\ env \in Environments
  /\ flags \in FlagSets
  /\ options = flags
  /\ args = ArgsOf(<<>>)
  /\ listening = "nowhere"

Next ==
  \/ ReadEnvironment \/ ReadEnvironmentErr
  \/ ApplyOptions \/ ApplyOptionsErr
  \/ NewListener \/ NewTransporter \/ NewHandlerErr

Spec == Init /\ [][Next]_vars

-----------------------------------------------------------------------------
(* Properties *)

\* Every number that an option has replaced is one that fits what ParseUint was
\* asked for, and no key of the options is empty.
TypeOK ==
  /\ pc \in {"environment", "options", "handler", "serving", "exited"}
  /\ <<>> \notin DOMAIN args
  /\ DOMAIN options = OptionNames
  /\ \A name \in Numbers :
       /\ options[name] \in DOMAIN BitWidth
       /\ options[name] = flags[name] \/ BitWidth[options[name]] <= Bits(name)
  /\ \A name \in Switches : options[name] \in BOOLEAN
  /\ \A name \in Texts \cup Addresses : options[name] \in Seq(Symbols)

\* The scanner of parsePluginOptions, which resumes behind what it has read,
\* finds the fields, keys and values that the text as a whole has: cut at
\* unescaped semicolons and at the first unescaped equals sign of each, with
\* the first value of a key, and it fails on the same texts.
ParsedAsReference ==
  LET text == env["SS_PLUGIN_OPTIONS"] IN
  EnvironmentUsed =>
    /\ pc = "options" =>
         args = Replaced(EnvironmentArgs, Parsed(text).args)
    /\ pc \notin {"environment", "exited"} => Parsed(text).ok
    /\ pc = "exited" /\ args = ArgsOf(<<>>) => ~Parsed(text).ok

\* Whoever escapes semicolons, equal signs and backslashes as the comment of
\* parsePluginOptions says gets the same pairs back, whatever they contain.
RoundTrip ==
  LET parsed == ParsePluginOptions(env["SS_PLUGIN_OPTIONS"]) IN
  pc = "environment" /\ parsed.ok => ParsePluginOptions(Written(parsed.pairs)) = parsed

\* What an option was told to be by SS_PLUGIN_OPTIONS, else by the environment.
Told(key) ==
  Get(Replaced(EnvironmentArgs, Parsed(env["SS_PLUGIN_OPTIONS"]).args), <<key>>)

\* An IPv6 address may be written with its brackets.
Bare(addr) ==
  IF Len(addr) >= 2 /\ Head(addr) = "[" /\ Last(addr) = "]"
  THEN SubSeq(addr, 2, Len(addr) - 1)
  ELSE addr

\* A plugin that serves listens on its own side and dials the other: a server
\* listens at SS_REMOTE and forwards to SS_LOCAL, a client the reverse, unless
\* its options name other addresses. Without SS_REMOTE_HOST, SS_REMOTE_PORT or
\* SS_LOCAL_HOST its flags decide alone, and it never mixes the two sources.
ServesAsTold ==
  pc = "serving" =>
    LET given == \A name \in DOMAIN env \ {"SS_PLUGIN_OPTIONS", "SS_LOCAL_PORT"} : env[name] # <<>>
        server == \/ flags["server"]
                  \/ <<"server">> \in DOMAIN Parsed(env["SS_PLUGIN_OPTIONS"]).args
        own == IF server THEN <<Told("remoteAddr"), Told("remotePort")>>
               ELSE <<Told("localAddr"), Told("localPort")>>
        other == IF server THEN <<Told("localAddr"), Told("localPort")>>
                 ELSE <<Told("remoteAddr"), Told("remotePort")>>
    IN  IF given
        THEN /\ options["server"] = server
             /\ listening = <<Bare(own[1]), Word(own[2])>>
             /\ options["remoteAddr"] = other[1]
             /\ options["remotePort"] = Word(other[2])
        ELSE options = flags /\ listening = <<Bare(flags["localAddr"]), flags["localPort"]>>
=============================================================================
