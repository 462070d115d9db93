------------------------------ MODULE MCStartup ------------------------------
EXTENDS Startup

Width == [n \in {"1", "80", "443", "1984", "1080", "3"} |-> 11]
         @@ ("70000" :> 17) @@ ("9999999999" :> 34)

\* What the flags are when none is given, with -server, and with an address in
\* brackets beside a number that an option could not give.
Default == [name \in OptionNames |->
  CASE name = "localPort"  -> "1984"
    [] name = "remotePort" -> "1080"
    [] name = "mux"        -> "1"
    [] name \in {"logLevel", "ed"} -> "3"
    [] name \in Switches   -> FALSE
    [] name \in Addresses  -> <<"127.0.0.1">>
    [] name = "mode"       -> <<"ws">>
    [] name = "path"       -> <<"/">>
    [] OTHER               -> <<>>]

Flags == {Default, [Default EXCEPT !["server"] = TRUE],
          [Default EXCEPT !["mux"] = "9999999999", !["localAddr"] = <<"[", ":", ":", "f", "]">>]}

Env(remote, local, port, text) ==
  [SS_REMOTE_HOST |-> remote, SS_REMOTE_PORT |-> <<"443">>,
   SS_LOCAL_HOST |-> local, SS_LOCAL_PORT |-> port, SS_PLUGIN_OPTIONS |-> text]

\* Every short text of the symbols that matter to the scanner.
Scannable == {Backslash, ";", "=", "a"}
Scanned == {Env(<<"remote">>, <<"local">>, <<"80">>, text) : text \in SeqOf(Scannable, 6)}

\* Up to two of these options, with every way of leaving variables unset.
Fields == {<<"server">>, <<"mode", "=", "tls">>, <<"mode", "=", "quic">>, <<"mode", "=", "none">>,
           <<"cert", "=", "c", ";", "key", "=", "k">>, <<"cert", "=", "c">>, <<"path", "=">>,
           <<"mux">>, <<"mux", "=", "70000">>, <<"localPort", "=", "70000">>,
           <<"remotePort", "=", "70000">>, <<"ed", "=", "9999999999">>,
           <<"localAddr", "=", ":", ":", "h">>, <<"remoteAddr", "=", "h", ";", "remoteAddr", "=", "other">>,
           <<"localPort", "=", "1">>, <<"insecure", ";">>}
Options == {<<>>} \cup Fields \cup {f[1] \o <<";">> \o f[2] : f \in Fields \X Fields}
             \cup {<<"server", ";", "mode", "=", "tls", ";">> \o f[1] \o <<";">> \o f[2] :
                     f \in Fields \X Fields}
Configured ==
  {Env(remote, local, port, text) :
     remote \in {<<>>, <<"remote">>, <<":", ":", "r">>, <<"[", ":", ":", "r", "]">>},
     local \in {<<>>, <<"local">>},
     port \in {<<>>, <<"80">>}, text \in Options}

\* A server in each mode, with and without what its constructor asks for.
ServerOptions == {<<"server">>, <<"cert", "=", "c">>, <<"key", "=", "k">>, <<"path", "=">>}
AllModes ==
  {Env(<<"remote">>, <<"local">>, <<"80">>, <<"mode", "=", mode>> \o FlattenSeq(SetToSeq({<<";">> \o f : f \in given}))) :
     mode \in Modes, given \in SUBSET ServerOptions}

AllEnvironments == Scanned \cup Configured \cup AllModes

AllWords ==
  Modes \cup DOMAIN Width \cup
  {"a", "remote", "local", "server", "mode", "none", "cert", "c", "key", "k", "path", "mux",
   "localPort", "remotePort", "ed", "localAddr", "remoteAddr", "h", "other", "insecure", "r",
   "f", "127.0.0.1", "/"}
=============================================================================
