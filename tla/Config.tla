------------------------------- MODULE Config -------------------------------
(***************************************************************************)
(* How mctallyd's configuration file becomes a Config.  The grammar's      *)
(* actions are the steps of Parse(): the settings of a service stanza are  *)
(* gathered in a ServiceConfig of their own, which replaces the Config's   *)
(* at the end of the stanza; those of a syslog stanza are made at once.    *)
(*                                                                         *)
(* classes/src/DwmMcTallyConfigParse.y, classes/src/DwmMcTallyConfigLex.lex, *)
(* classes/src/DwmMcTallyServiceConfig.cc                                  *)
(***************************************************************************)
EXTENDS Integers, SequencesExt

CONSTANTS
  Files,       \* the files that may be parsed
  AddressOf,   \* the address that each valid text stands for
  PrefixOf,    \* the prefix that each valid text stands for
  YesTexts     \* the texts that begin with yes, in any case of letters

(***************************************************************************)
(* A file is a sequence of stanzas [kind, settings], and a setting is a    *)
(* record with one field, named for its keyword.  A value of `addresses'   *)
(* is a sequence of [address, port] and one of `allowedClients' a sequence *)
(* of texts.  A port that is a name is the number getservbyname() has for  *)
(* it, or 0.                                                               *)
(***************************************************************************)
ServiceText ==
  [addresses : Seq([address : STRING, port : Int])] \cup [keyDirectory : STRING]
  \cup [allowedClients : Seq(STRING)]
SyslogText == [facility : STRING] \cup [level : STRING] \cup [logLocations : STRING]

ASSUME FilesAssumption ==
  \A f \in Files :
    f \in Seq([kind : {"service"}, settings : Seq(ServiceText)]
              \cup [kind : {"syslog"}, settings : Seq(SyslogText)])

NoPort == -1
DefaultPort == 2124
AnyAddresses == {AddressOf["in6addr_any"], AddressOf["inaddr_any"]}

ASSUME AnyAssumption == {"in6addr_any", "inaddr_any"} \subseteq DOMAIN AddressOf

ASSUME YesAssumption == "yes" \in YesTexts /\ "no" \notin YesTexts

VARIABLES
  file,     \* what is parsed
  i, j,     \* the stanza and the setting that come next
  service,  \* the ServiceSettings so far: a ServiceConfig
  config,   \* the Config that Parse() was called for
  rc        \* "parsing", or what Parse() returned

configVars == <<file, i, j, service, config, rc>>

Is(keyword, setting) == keyword \in DOMAIN setting

NewService ==
  [addresses |-> {}, keyDirectory |-> "", allowedClients |-> {}]

\* Clear(), which knows a key directory that ServiceConfig's constructor
\* does not.
Cleared ==
  [runService |-> FALSE,
   service |-> [NewService EXCEPT !.keyDirectory = "/usr/local/etc/mctallyd"],
   facility |-> "daemon", level |-> "info", logLocations |-> FALSE]

-----------------------------------------------------------------------------
(* One setting. *)

\* Variant of ValidPort that takes every number as it is.
ValidPort_Any(n) == n # 0

MaxPort == 65535
ValidPort(n) == n \in 1 .. MaxPort

\* The grammar has no empty list.
Valid(setting) ==
  /\ Is("addresses", setting) =>
       /\ setting.addresses # <<>>
       /\ \A k \in DOMAIN setting.addresses :
            /\ setting.addresses[k].address \in DOMAIN AddressOf
            /\ setting.addresses[k].port = NoPort \/ ValidPort(setting.addresses[k].port)
  /\ Is("allowedClients", setting) =>
       /\ setting.allowedClients # <<>>
       /\ ToSet(setting.allowedClients) \subseteq DOMAIN PrefixOf

\* ServiceAddress, and the set that ServiceAddressSet collects.
Endpoint(a) ==
  [address |-> AddressOf[a.address],
   port |-> IF a.port = NoPort THEN DefaultPort ELSE a.port]

Endpoints(addresses) == {Endpoint(addresses[k]) : k \in DOMAIN addresses}

\* What a setting makes of the ServiceConfig of its stanza.
WithService(s, setting) ==
  CASE Is("addresses", setting) ->
         [s EXCEPT !.addresses = Endpoints(setting.addresses)]
    [] Is("keyDirectory", setting) ->
         [s EXCEPT !.keyDirectory = setting.keyDirectory]
    [] OTHER ->
         [s EXCEPT !.allowedClients =
            {PrefixOf[p] : p \in ToSet(setting.allowedClients)}]

\* Variant of WithSyslog that compares the whole text, as it is written.
WithSyslog_Whole(c, setting) ==
  CASE Is("facility", setting) -> [c EXCEPT !.facility = setting.facility]
    [] Is("level", setting) -> [c EXCEPT !.level = setting.level]
    [] OTHER -> [c EXCEPT !.logLocations = @ \/ setting.logLocations = "yes"]

\* What a setting makes of the Config; nothing takes logLocations back.
WithSyslog(c, setting) ==
  CASE Is("facility", setting) -> [c EXCEPT !.facility = setting.facility]
    [] Is("level", setting) -> [c EXCEPT !.level = setting.level]
    [] OTHER -> [c EXCEPT !.logLocations = @ \/ setting.logLocations \in YesTexts]

-----------------------------------------------------------------------------
\* Parse() has called Clear() and opened the file.  One that cannot be opened is
\* taken for one without a stanza: both make Parse() return false at once.
InitConfig ==
  /\ file \in Files
  /\ i = 1
  /\ j = 1
  /\ service = NewService
  /\ config = Cleared
  /\ rc = "parsing"

\* The next setting of a stanza of that kind.
AtSetting(kind) ==
  /\ rc = "parsing"
  /\ i <= Len(file)
  /\ file[i].kind = kind
  /\ j <= Len(file[i].settings)

\* A stanza of that kind ends, which had at least one setting.
AtEnd(kind) ==
  /\ rc = "parsing"
  /\ i <= Len(file)
  /\ file[i].kind = kind
  /\ j > Len(file[i].settings)
  /\ j > 1

\* Variant of ServiceSetting that goes on from the Config's service.
ServiceSetting_GoesOn ==
  /\ AtSetting("service")
  /\ Valid(file[i].settings[j])
  /\ service' = WithService(IF j = 1 THEN config.service ELSE service,
                            file[i].settings[j])
  /\ j' = j + 1
  /\ UNCHANGED <<file, i, config, rc>>

\* ServiceSettings: the first one makes a new ServiceConfig.
ServiceSetting ==
  /\ AtSetting("service")
  /\ Valid(file[i].settings[j])
  /\ service' = WithService(IF j = 1 THEN NewService ELSE service,
                            file[i].settings[j])
  /\ j' = j + 1
  /\ UNCHANGED <<file, i, config, rc>>

SyslogSetting ==
  /\ AtSetting("syslog")
  /\ config' = WithSyslog(config, file[i].settings[j])
  /\ j' = j + 1
  /\ UNCHANGED <<file, i, service, rc>>

Service ==
  /\ AtEnd("service")
  /\ config' = [config EXCEPT !.runService = TRUE, !.service = service]
  /\ i' = i + 1
  /\ j' = 1
  /\ UNCHANGED <<file, service, rc>>

Syslog ==
  /\ AtEnd("syslog")
  /\ i' = i + 1
  /\ j' = 1
  /\ UNCHANGED <<file, service, config, rc>>

\* A value that is not valid (an empty list is a syntax error), a stanza without
\* a setting or a file without a stanza: yyparse() returns at once, and what was
\* set before stays set.
Error ==
  /\ rc = "parsing"
  /\ \/ AtSetting("service") /\ ~Valid(file[i].settings[j])
     \/ i <= Len(file) /\ file[i].settings = <<>>
     \/ file = <<>>
  /\ rc' = "false"
  /\ UNCHANGED <<file, i, j, service, config>>

\* The end of the file: without an address both wildcards are listened on.
Accept ==
  /\ rc = "parsing"
  /\ i > Len(file)
  /\ file # <<>>
  /\ rc' = "true"
  /\ config' =
       IF config.service.addresses # {} THEN config
       ELSE [config EXCEPT !.service.addresses =
               {[address |-> a, port |-> DefaultPort] : a \in AnyAddresses}]
  /\ UNCHANGED <<file, i, j, service>>

Parse ==
  \/ ServiceSetting \/ SyslogSetting \/ Service \/ Syslog
  \/ Error \/ Accept

-----------------------------------------------------------------------------
(***************************************************************************)
(* operator<<, which writes a Config as a file.  An address and a prefix   *)
(* are written as one of the texts that stand for them.                    *)
(***************************************************************************)
TextOf(f, v) == CHOOSE text \in DOMAIN f : f[text] = v

\* Variant of ServiceSettings that does not write the ports.
ServiceSettings_NoPorts(s) ==
  <<[addresses |-> [k \in 1 .. Len(SetToSeq(s.addresses)) |->
       [address |-> TextOf(AddressOf, SetToSeq(s.addresses)[k].address),
        port |-> NoPort]]]>>
  \o (IF s.keyDirectory = "" THEN <<>> ELSE <<[keyDirectory |-> s.keyDirectory]>>)

\* What is empty is not written.
ServiceSettings(s) ==
  LET endpoints == SetToSeq(s.addresses)
      clients == SetToSeq(s.allowedClients)
  IN (IF endpoints = <<>> THEN <<>> ELSE
        <<[addresses |-> [k \in DOMAIN endpoints |->
             [address |-> TextOf(AddressOf, endpoints[k].address),
              port |-> endpoints[k].port]]]>>)
     \o (IF s.keyDirectory = "" THEN <<>> ELSE
           <<[keyDirectory |-> s.keyDirectory]>>)
     \o (IF clients = <<>> THEN <<>> ELSE
           <<[allowedClients |->
                [k \in DOMAIN clients |-> TextOf(PrefixOf, clients[k])]]>>)

Written(c) ==
  << [kind |-> "service", settings |-> ServiceSettings(c.service)],
     [kind |-> "syslog",
      settings |-> << [facility |-> c.facility], [level |-> c.level],
                      [logLocations |-> IF c.logLocations THEN "yes" ELSE "no"] >>] >>

-----------------------------------------------------------------------------
(***************************************************************************)
(* Properties                                                              *)
(***************************************************************************)
\* The places of a file's settings, <<stanza, setting>>, and what is there.
Places(f) == UNION {{m} \X DOMAIN f[m].settings : m \in DOMAIN f}
SettingAt(f, p) == f[p[1]].settings[p[2]]
Precedes(p, q) == p[1] < q[1] \/ (p[1] = q[1] /\ p[2] < q[2])

StanzasOf(f, kind) == {m \in DOMAIN f : f[m].kind = kind}

\* The last service stanza that ends before a place, if there is one.
LastService(f, end) ==
  LET those == {m \in StanzasOf(f, "service") : m < end[1]}
  IN {m \in those : \A k \in those : k <= m}

\* Where the stanzas give keyword a value before a place, and the last value
\* that is given to it at some places, or the default.
Given(f, stanzas, keyword, end) ==
  {p \in Places(f) : p[1] \in stanzas /\ Is(keyword, SettingAt(f, p)) /\ Precedes(p, end)}

LastOf(f, places, keyword, default) ==
  IF places = {} THEN default
  ELSE SettingAt(f, CHOOSE p \in places : \A q \in places \ {p} : Precedes(q, p))[keyword]

\* What those service stanzas say before a place.
ServiceSaid(f, stanzas, end) ==
  LET last(keyword, default) ==
        LastOf(f, Given(f, stanzas, keyword, end), keyword, default)
  IN [addresses |-> Endpoints(last("addresses", <<>>)),
      keyDirectory |->
        last("keyDirectory", IF stanzas = {} THEN "/usr/local/etc/mctallyd" ELSE ""),
      allowedClients |-> {PrefixOf[p] : p \in ToSet(last("allowedClients", <<>>))}]

\* What a file says before a place.  The last service stanza counts and no
\* other, so that one without allowedClients lets everyone in whatever the one
\* before it said, and one without keyDirectory has none, not the default.
\* Syslog settings add up over all stanzas.
Said(f, end) ==
  LET own == LastService(f, end)
      syslog(keyword) == Given(f, StanzasOf(f, "syslog"), keyword, end)
  IN [runService |-> own # {},
      service |-> ServiceSaid(f, own, end),
      facility |-> LastOf(f, syslog("facility"), "facility", "daemon"),
      level |-> LastOf(f, syslog("level"), "level", "info"),
      logLocations |->
        \E p \in syslog("logLocations") : SettingAt(f, p).logLocations \in YesTexts]

\* What a valid file means.
Meaning(f) ==
  LET said == Said(f, <<Len(f) + 1, 1>>)
  IN IF said.service.addresses # {} THEN said
     ELSE [said EXCEPT !.service.addresses =
             {[address |-> a, port |-> 2124] : a \in AnyAddresses}]

\* Nothing in a setting is wrong.
IsFine(setting) ==
  /\ Is("addresses", setting) =>
       /\ setting.addresses # <<>>
       /\ \A a \in ToSet(setting.addresses) :
            /\ a.address \in DOMAIN AddressOf
            /\ a.port = NoPort \/ a.port \in 1 .. 65535
  /\ Is("allowedClients", setting) =>
       /\ setting.allowedClients # <<>>
       /\ \A p \in ToSet(setting.allowedClients) : p \in DOMAIN PrefixOf

\* No stanza and no list is empty, and nothing in any of them is wrong, not even
\* what a later stanza replaces.
IsValid(f) ==
  /\ f # <<>>
  /\ \A s \in ToSet(f) :
       s.settings # <<>> /\ \A setting \in ToSet(s.settings) : IsFine(setting)

\* Parse() returns true just for the files that are valid throughout.
AcceptsValid == rc # "parsing" => (rc = "true" <=> IsValid(file))

\* A Config that was parsed is what the file means, whatever the order of the
\* stanzas and settings and however often each occurs.
MeansWhatItSays == rc = "true" => config = Meaning(file)

\* A Config that was parsed and is written by operator<< can be parsed again,
\* and is then the same but for runService, which the service stanza sets.
RoundTrip ==
  rc = "true" =>
    /\ IsValid(Written(config))
    /\ Meaning(Written(config)) = [config EXCEPT !.runService = TRUE]

-----------------------------------------------------------------------------
(***************************************************************************)
(* What makes AcceptsValid and MeansWhatItSays inductive.                  *)
(***************************************************************************)
\* Nothing that was passed was wrong.
ValidSoFar ==
  /\ file \in Files /\ i \in Nat \ {0} /\ j \in Nat \ {0}
  /\ rc \in {"parsing", "true", "false"}
  /\ rc = "parsing" =>
       /\ i <= Len(file) + 1
       /\ j > 1 => i <= Len(file) /\ j <= Len(file[i].settings) + 1
       /\ \A m \in 1 .. i - 1 : file[m].settings # <<>>
       /\ \A p \in Places(file) : Precedes(p, <<i, j>>) => Valid(SettingAt(file, p))

\* What was passed is in the Config, or in the ServiceConfig of its stanza.
GatheredSoFar ==
  rc = "parsing" =>
    /\ config = Said(file, <<i, j>>)
    /\ j > 1 /\ file[i].kind = "service" => service = ServiceSaid(file, {i}, <<i, j>>)

CInv == ValidSoFar /\ GatheredSoFar /\ AcceptsValid /\ MeansWhatItSays

\* What operator<< is given to write can be written: all addresses and prefixes
\* have texts that stand for them, and all ports are valid.
IsEndpoint(e) ==
  /\ e = [address |-> e.address, port |-> e.port]
  /\ e.address \in Range(AddressOf)
  /\ ValidPort(e.port)

Writable(s) ==
  /\ s = [addresses |-> s.addresses, keyDirectory |-> s.keyDirectory,
          allowedClients |-> s.allowedClients]
  /\ IsFiniteSet(s.addresses) /\ IsFiniteSet(s.allowedClients)
  /\ \A e \in s.addresses : IsEndpoint(e)
  /\ s.allowedClients \subseteq Range(PrefixOf)

WInv ==
  /\ CInv
  /\ Writable(service) /\ Writable(config.service)
  /\ rc = "true" => config.service.addresses # {}

=============================================================================
