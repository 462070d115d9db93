--------------------------- MODULE PluginOptions ---------------------------
(***************************************************************************)
(* The text of SS_PLUGIN_OPTIONS and of the addresses (src/args/args.go).  *)
(*                                                                         *)
(* A text is a sequence of symbols. The bytes that the code looks for,     *)
(* backslash, ";", "=", ":", "[" and "]", are symbols of their own; a run  *)
(* of other bytes that the code treats alike is one symbol, a word: where  *)
(* a backslash stands before a word it escapes its first byte, which is    *)
(* the word again. Positions count from 1.                                 *)
(*                                                                         *)
(* The scanner is followed step by step, as a recursive function of the    *)
(* position. Parsed says of a text as a whole what the scanner computes.   *)
(***************************************************************************)
EXTENDS Integers, FiniteSets, SequencesExt

Backslash == "\\"
Semicolon == ";"

Failed == [ok |-> FALSE]

-----------------------------------------------------------------------------
(* The scanner *)

\* append(unesc, b), before what follows is read.
Before(symbol, rest) ==
  IF rest.ok THEN [ok |-> TRUE, at |-> rest.at, text |-> <<symbol>> \o rest.text] ELSE Failed

\* The escaped symbol is looked at again.
IndexUnescapedOffByOne(s, first, term) ==
  LET Scan[i \in 1..(Len(s) + 1)] ==
        IF i > Len(s) \/ s[i] \in term THEN [ok |-> TRUE, at |-> i, text |-> <<>>]
        ELSE IF s[i] # Backslash       THEN Before(s[i], Scan[i + 1])
        ELSE IF i = Len(s)             THEN Failed
        ELSE Scan[i + 1]
  IN  Scan[first]

\* The position of the next unescaped symbol of term, or the one behind the
\* end, and the unescaped text up to it.
IndexUnescaped(s, first, term) ==
  LET Scan[i \in 1..(Len(s) + 1)] ==
        IF i > Len(s) \/ s[i] \in term THEN [ok |-> TRUE, at |-> i, text |-> <<>>]
        ELSE IF s[i] # Backslash       THEN Before(s[i], Scan[i + 1])
        ELSE IF i = Len(s)             THEN Failed
        ELSE Before(s[i + 1], Scan[i + 2])
  IN  Scan[first]

\* opts.Add(key, value), before what follows is read.
Add(key, value, rest) ==
  IF rest.ok THEN [ok |-> TRUE, pairs |-> <<<<key, value>>>> \o rest.pairs] ELSE Failed

\* The key and value pairs of s, in their order. A key alone has the value "1".
ParsePluginOptions(s) ==
  LET Parse[i \in 1..(Len(s) + 2)] ==
        IF i > Len(s) THEN [ok |-> TRUE, pairs |-> <<>>]
        ELSE LET key   == IndexUnescaped(s, i, {"=", Semicolon})
                 value == IndexUnescaped(s, key.at + 1, {Semicolon})
             IN  IF ~key.ok \/ key.text = <<>> THEN Failed
                 ELSE IF key.at > Len(s) \/ s[key.at] # "="
                   THEN Add(key.text, <<"1">>, Parse[key.at + 1])
                 ELSE IF ~value.ok THEN Failed
                 ELSE Add(key.text, value.text, Parse[value.at + 1])
  IN  Parse[1]

\* Args, as Get sees it: of a key's values the first.
ArgsOf(pairs) ==
  [key \in {pairs[i][1] : i \in DOMAIN pairs} |->
     pairs[Min({i \in DOMAIN pairs : pairs[i][1] = key})][2]]

Has(args, key) == key \in DOMAIN args
Get(args, key) == args[key]

BackslashEscapeSetOnly(s, set) ==
  LET Rest[i \in 1..(Len(s) + 1)] ==
        IF i > Len(s)           THEN <<>>
        ELSE IF s[i] \in set    THEN <<Backslash, s[i]>> \o Rest[i + 1]
        ELSE <<s[i]>> \o Rest[i + 1]
  IN  Rest[1]

\* What whoever writes the options does with a key or a value.
BackslashEscape(s, set) ==
  LET Rest[i \in 1..(Len(s) + 1)] ==
        IF i > Len(s)                               THEN <<>>
        ELSE IF s[i] = Backslash \/ s[i] \in set    THEN <<Backslash, s[i]>> \o Rest[i + 1]
        ELSE <<s[i]>> \o Rest[i + 1]
  IN  Rest[1]

Escape(text) == BackslashEscape(text, {Semicolon, "="})

\* The options as the comment above parsePluginOptions wants them written.
Written(pairs) ==
  LET Field(i) == Escape(pairs[i][1]) \o <<"=">> \o Escape(pairs[i][2])
      Rest[i \in 1..(Len(pairs) + 1)] ==
        IF i > Len(pairs)       THEN <<>>
        ELSE IF i = Len(pairs)  THEN Field(i)
        ELSE Field(i) \o <<Semicolon>> \o Rest[i + 1]
  IN  Rest[1]

-----------------------------------------------------------------------------
(* The same by looking at the text as a whole *)

\* The symbol at i is escaped if an odd number of backslashes stands before it.
Escaped(s, i) ==
  Cardinality({j \in 1..(i - 1) : \A k \in j..(i - 1) : s[k] = Backslash}) % 2 = 1

Unescaped(s, symbol) == {i \in DOMAIN s : s[i] = symbol /\ ~Escaped(s, i)}

\* The text between two positions, without the backslashes that escape.
Plain(s, from, to) ==
  LET Rest[i \in 1..to] ==
        IF i = to                              THEN <<>>
        ELSE IF i \in Unescaped(s, Backslash)  THEN Rest[i + 1]
        ELSE <<s[i]>> \o Rest[i + 1]
  IN  Rest[from]

\* A field starts at the beginning and behind each unescaped semicolon, unless
\* nothing follows.
FieldStarts(s) == ({1} \cup {i + 1 : i \in Unescaped(s, Semicolon)}) \cap DOMAIN s

FieldEnd(s, from) == Min({i \in Unescaped(s, Semicolon) : i >= from} \cup {Len(s) + 1})

\* The first unescaped equals sign of a field parts its key from its value.
KeyEnd(s, from) ==
  Min({i \in Unescaped(s, "=") : from <= i /\ i < FieldEnd(s, from)} \cup {FieldEnd(s, from)})

KeyAt(s, from) == Plain(s, from, KeyEnd(s, from))

ValueAt(s, from) ==
  IF KeyEnd(s, from) = FieldEnd(s, from) THEN <<"1">>
  ELSE Plain(s, KeyEnd(s, from) + 1, FieldEnd(s, from))

Parsed(s) ==
  IF \/ Len(s) \in Unescaped(s, Backslash)
     \/ \E from \in FieldStarts(s) : KeyEnd(s, from) = from
  THEN Failed
  ELSE [ok |-> TRUE,
        args |-> [key \in {KeyAt(s, from) : from \in FieldStarts(s)} |->
                    ValueAt(s, Min({from \in FieldStarts(s) : KeyAt(s, from) = key}))]]

-----------------------------------------------------------------------------
(* Addresses *)

FixAddr(addr) ==
  IF ":" \in ToSet(addr) /\ Head(addr) # "[" /\ Last(addr) # "]"
  THEN <<"[">> \o addr \o <<"]">>
  ELSE addr

HostPort(addr, port) == FixAddr(addr) \o <<":", port>>

\* net.SplitHostPort: a host with colons must stand in brackets.
SplitHostPort(s) ==
  LET n == Len(s)
      bracketed == s[1] = "[" /\ n > 3 /\ s[n - 2] = "]"
      host == IF bracketed THEN SubSeq(s, 2, n - 3) ELSE SubSeq(s, 1, n - 2)
  IN  IF \/ ~bracketed /\ ":" \in ToSet(host)
         \/ {"[", "]"} \cap ToSet(host) # {}
      THEN Failed
      ELSE [ok |-> TRUE, host |-> host, port |-> s[n]]
=============================================================================
