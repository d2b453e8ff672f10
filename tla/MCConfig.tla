------------------------------ MODULE MCConfig ------------------------------
(***************************************************************************)
(* Instances of Config, CommandLine and Reach for TLC.                     *)
(***************************************************************************)
EXTENDS Reach, TLC

MCAddressOf == [text \in {"in6addr_any", "inaddr_any", "10.0.0.1"} |->
                  CASE text = "in6addr_any" -> "::"
                    [] text = "inaddr_any" -> "0.0.0.0"
                    [] OTHER -> text]

MCPrefixOf == [text \in {"10/8", "192.168/16"} |-> text]

MCYesTexts == {"yes", "Yesterday"}

Endp(a, n) == [address |-> a, port |-> n]

\* Two addresses, one with the default port, and some that are wrong; a prefix
\* that is wrong too.
MCServiceSettings ==
  { [addresses |-> <<Endp("in6addr_any", 2125), Endp("inaddr_any", NoPort)>>],
    [addresses |-> <<Endp("10.0.0.1", 65536)>>],
    [addresses |-> <<Endp("ten", 2125)>>],
    [keyDirectory |-> "/k"],
    [allowedClients |-> <<"10/8", "192.168/16">>],
    [allowedClients |-> <<"10/8", "ten/8">>] }

MCSyslogSettings ==
  { [facility |-> "local0"], [facility |-> "user"], [level |-> "debug"],
    [logLocations |-> "Yesterday"], [logLocations |-> "no"] }

\* What is not worth more than a stanza of its own, behind one that is right.
OtherSettings ==
  { [addresses |-> <<Endp("10.0.0.1", 0)>>], [addresses |-> <<>>], [allowedClients |-> <<>>] }

Stanzas(n) ==
  [kind : {"service"}, settings : SeqOf(MCServiceSettings, n)]
  \cup [kind : {"syslog"}, settings : SeqOf(MCSyslogSettings, n)]

\* Up to two stanzas of up to two settings, and three of up to one.
SmallFiles ==
  SeqOf(Stanzas(2), 2) \cup SeqOf(Stanzas(1), 3)
  \cup { <<[kind |-> "service", settings |-> <<[keyDirectory |-> "/k"]>>],
          [kind |-> "service", settings |-> <<s>>]>> : s \in OtherSettings }

\* A word behind -- may be a word that looks like an option; "+" alone is no
\* expression.
Word(text) == [text |-> text, bad |-> FALSE]
MCWords ==
  { [h |-> <<"ria", "", "www">>] @@ Word("-hria,,www"), [h |-> <<"", "">>] @@ Word("-h,"),
    [p |-> 2124] @@ Word("-p2124"), [p |-> 2125] @@ Word("-p2125"), [p |-> 67661] @@ Word("-p67661"),
    [p |-> NotANumber] @@ Word("-pport"),
    [flag |-> "a"] @@ Word("-a"), [flag |-> "u"] @@ Word("-u"),
    [v |-> TRUE] @@ Word("-v"), [other |-> TRUE] @@ Word("-x"), [end |-> TRUE] @@ Word("--"),
    Word("libDwm.*"), [text |-> "+", bad |-> TRUE] }

\* A file with each kind of port is followed by every command line of up to
\* two words, one by those of three, and all the others by one.
Ports(n) == <<[kind |-> "service", settings |-> <<[addresses |-> <<Endp("10.0.0.1", n)>>]>>]>>
MCFiles == SmallFiles \cup {Ports(n) : n \in {NoPort, 2124, 2125}}
MCLines ==
  [f \in MCFiles |->
     CASE f = Ports(2125) -> SeqOf(MCWords, 3)
       [] f \in {Ports(NoPort), Ports(2124), <<[kind |-> "syslog", settings |-> <<[level |-> "debug"]>>]>>} ->
            SeqOf(MCWords, 2)
       [] OTHER -> {<<[flag |-> "a"] @@ Word("-a")>>}]

=============================================================================
