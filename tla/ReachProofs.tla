----------------------------- MODULE ReachProofs -----------------------------
(***************************************************************************)
(* Proofs about the configuration that mctallyd reads: whatever the file,  *)
(* it is accepted only if it is valid throughout, means what the settings  *)
(* say that count, and can be written and read back; and about whom        *)
(* mctally asks for what, and whether it meets mctallyd there.             *)
(***************************************************************************)
EXTENDS Reach, CommandLineProofs, FiniteSetTheorems, TLAPS

(***************************************************************************)
(* Files and the places in them.                                           *)
(***************************************************************************)
LEMMA FilesAre ==
  ASSUME NEW f \in Files
  PROVE  /\ Len(f) \in Nat /\ DOMAIN f = 1 .. Len(f)
         /\ \A m \in 1 .. Len(f) :
              /\ \/ f[m].kind = "service" /\ f[m].settings \in Seq(ServiceText)
                 \/ f[m].kind = "syslog" /\ f[m].settings \in Seq(SyslogText)
              /\ Len(f[m].settings) \in Nat
              /\ DOMAIN f[m].settings = 1 .. Len(f[m].settings)
<1> DEFINE Stanza == [kind : {"service"}, settings : Seq(ServiceText)]
                     \cup [kind : {"syslog"}, settings : Seq(SyslogText)]
<1>1. f \in Seq(Stanza)
  BY FilesAssumption
<1>2. \A s \in Stanza :
        /\ \/ s.kind = "service" /\ s.settings \in Seq(ServiceText)
           \/ s.kind = "syslog" /\ s.settings \in Seq(SyslogText)
        /\ Len(s.settings) \in Nat
        /\ DOMAIN s.settings = 1 .. Len(s.settings)
  OBVIOUS
<1> HIDE DEF Stanza
<1>3. Len(f) \in Nat /\ DOMAIN f = 1 .. Len(f) /\ \A m \in 1 .. Len(f) : f[m] \in Stanza
  BY <1>1
<1> QED
  BY <1>2, <1>3

LEMMA PlacesAre ==
  ASSUME NEW f \in Files
  PROVE  /\ \A m \in 1 .. Len(f) : \A n \in 1 .. Len(f[m].settings) : <<m, n>> \in Places(f)
         /\ \A p \in Places(f) :
              /\ p = <<p[1], p[2]>>
              /\ p[1] \in 1 .. Len(f) /\ p[2] \in 1 .. Len(f[p[1]].settings)
              /\ p[1] \in Nat /\ p[2] \in Nat
<1>1. /\ DOMAIN f = 1 .. Len(f) /\ Len(f) \in Nat
      /\ \A m \in 1 .. Len(f) : DOMAIN f[m].settings = 1 .. Len(f[m].settings)
                                /\ Len(f[m].settings) \in Nat
  BY FilesAre
<1>2. ASSUME NEW m \in 1 .. Len(f), NEW n \in 1 .. Len(f[m].settings)
      PROVE  <<m, n>> \in Places(f)
  <2>1. <<m, n>> \in {m} \X DOMAIN f[m].settings
    BY <1>1
  <2> QED
    BY <1>1, <2>1 DEF Places
<1>3. ASSUME NEW p \in Places(f)
      PROVE  /\ p = <<p[1], p[2]>>
             /\ p[1] \in 1 .. Len(f) /\ p[2] \in 1 .. Len(f[p[1]].settings)
             /\ p[1] \in Nat /\ p[2] \in Nat
  <2>1. PICK m \in 1 .. Len(f) : p \in {m} \X DOMAIN f[m].settings
    BY <1>1 DEF Places
  <2> QED
    BY <1>1, <2>1
<1> QED
  BY <1>2, <1>3

\* Of the places at which a keyword is given a value, the last one counts.
LEMMA LastCounts ==
  ASSUME NEW f \in Files, NEW places \in SUBSET Places(f), NEW p \in places,
         \A q \in places \ {p} : Precedes(q, p), NEW keyword, NEW default
  PROVE  LastOf(f, places, keyword, default) = SettingAt(f, p)[keyword]
<1> DEFINE NoneBehind(q) == \A r \in places \ {q} : Precedes(r, q)
<1>1. ASSUME NEW q \in places, NoneBehind(q) PROVE q = p
  <2> SUFFICES ASSUME q # p PROVE FALSE
    OBVIOUS
  <2>1. Precedes(p, q) /\ Precedes(q, p)
    BY <1>1
  <2> QED
    BY <2>1, PlacesAre DEF Precedes
<1>2. (CHOOSE q \in places : NoneBehind(q)) = p
  BY <1>1
<1> QED
  BY <1>2 DEF LastOf

LEMMA LastOfNone ==
  ASSUME NEW f, NEW keyword, NEW default
  PROVE  LastOf(f, {}, keyword, default) = default
  BY DEF LastOf

-----------------------------------------------------------------------------
(* What one more setting, and the end of a stanza, add to what was given.  *)

LEMMA GivenBySetting ==
  ASSUME NEW f \in Files, NEW m \in 1 .. Len(f), NEW n \in 1 .. Len(f[m].settings),
         NEW stanzas, NEW keyword
  PROVE  /\ m \in stanzas /\ Is(keyword, f[m].settings[n]) =>
              Given(f, stanzas, keyword, <<m, n + 1>>) =
                Given(f, stanzas, keyword, <<m, n>>) \cup {<<m, n>>}
         /\ ~(m \in stanzas /\ Is(keyword, f[m].settings[n])) =>
              Given(f, stanzas, keyword, <<m, n + 1>>) = Given(f, stanzas, keyword, <<m, n>>)
<1>1. m \in Nat /\ n \in Nat /\ <<m, n>> \in Places(f)
  BY FilesAre, PlacesAre
<1>2. ASSUME NEW p \in Places(f)
      PROVE  Precedes(p, <<m, n + 1>>) <=> Precedes(p, <<m, n>>) \/ p = <<m, n>>
  BY <1>1, PlacesAre DEF Precedes
<1>3. SettingAt(f, <<m, n>>) = f[m].settings[n]
  BY DEF SettingAt
<1> QED
  BY <1>1, <1>2, <1>3 DEF Given

LEMMA LastOfSetting ==
  ASSUME NEW f \in Files, NEW m \in 1 .. Len(f), NEW n \in 1 .. Len(f[m].settings),
         NEW stanzas, NEW keyword, NEW default
  PROVE  LastOf(f, Given(f, stanzas, keyword, <<m, n + 1>>), keyword, default) =
           IF m \in stanzas /\ Is(keyword, f[m].settings[n]) THEN f[m].settings[n][keyword]
           ELSE LastOf(f, Given(f, stanzas, keyword, <<m, n>>), keyword, default)
<1> DEFINE now == Given(f, stanzas, keyword, <<m, n + 1>>)
           then == Given(f, stanzas, keyword, <<m, n>>)
<1>1. CASE m \in stanzas /\ Is(keyword, f[m].settings[n])
  <2>1. now = then \cup {<<m, n>>}
    BY <1>1, GivenBySetting
  <2>2. \A q \in now \ {<<m, n>>} : Precedes(q, <<m, n>>)
    BY <2>1 DEF Given
  <2>3. now \in SUBSET Places(f)
    BY DEF Given
  <2>4. SettingAt(f, <<m, n>>) = f[m].settings[n]
    BY DEF SettingAt
  <2> HIDE DEF now, then
  <2>5. LastOf(f, now, keyword, default) = SettingAt(f, <<m, n>>)[keyword]
    BY <2>1, <2>2, <2>3, LastCounts
  <2> QED
    BY <1>1, <2>4, <2>5 DEF now
<1>2. CASE ~(m \in stanzas /\ Is(keyword, f[m].settings[n]))
  <2>1. now = then
    BY <1>2, GivenBySetting
  <2> QED
    BY <1>2, <2>1
<1> QED
  BY <1>1, <1>2

LEMMA GivenAtEnd ==
  ASSUME NEW f \in Files, NEW m \in 1 .. Len(f), NEW n \in Nat, n > Len(f[m].settings),
         NEW stanzas, NEW keyword
  PROVE  Given(f, stanzas, keyword, <<m + 1, 1>>) = Given(f, stanzas, keyword, <<m, n>>)
<1>1. m \in Nat /\ Len(f[m].settings) \in Nat
  BY FilesAre
<1>2. ASSUME NEW p \in Places(f)
      PROVE  Precedes(p, <<m + 1, 1>>) <=> Precedes(p, <<m, n>>)
  BY <1>1, PlacesAre DEF Precedes
<1> QED
  BY <1>2 DEF Given

LEMMA GivenBefore ==
  ASSUME NEW f \in Files, NEW m \in Nat, NEW stanzas, NEW keyword,
         \A k \in stanzas : k \in Nat /\ k >= m
  PROVE  Given(f, stanzas, keyword, <<m, 1>>) = {}
  BY PlacesAre DEF Given, Precedes

-----------------------------------------------------------------------------
(* The same for what is said: ServiceSaid and Said, field by field.        *)

\* A setting is of one keyword.
LEMMA ServiceTextIs ==
  ASSUME NEW setting \in ServiceText
  PROVE  \/ /\ Is("addresses", setting)
            /\ ~Is("keyDirectory", setting) /\ ~Is("allowedClients", setting)
         \/ /\ Is("keyDirectory", setting)
            /\ ~Is("addresses", setting) /\ ~Is("allowedClients", setting)
         \/ /\ Is("allowedClients", setting)
            /\ ~Is("addresses", setting) /\ ~Is("keyDirectory", setting)
  BY DEF ServiceText, Is

LEMMA SyslogTextIs ==
  ASSUME NEW setting \in SyslogText
  PROVE  \/ /\ Is("facility", setting)
            /\ ~Is("level", setting) /\ ~Is("logLocations", setting)
         \/ /\ Is("level", setting)
            /\ ~Is("facility", setting) /\ ~Is("logLocations", setting)
         \/ /\ Is("logLocations", setting)
            /\ ~Is("facility", setting) /\ ~Is("level", setting)
  BY DEF SyslogText, Is

\* A service setting changes what its stanza says as WithService does.
LEMMA ServiceSaidBySetting ==
  ASSUME NEW f \in Files, NEW m \in 1 .. Len(f), NEW n \in 1 .. Len(f[m].settings),
         f[m].kind = "service"
  PROVE  ServiceSaid(f, {m}, <<m, n + 1>>) =
           WithService(ServiceSaid(f, {m}, <<m, n>>), f[m].settings[n])
<1> DEFINE setting == f[m].settings[n]
           last(keyword, default, end) ==
             LastOf(f, Given(f, {m}, keyword, end), keyword, default)
           made(a, k, c) ==
             [addresses |-> Endpoints(a), keyDirectory |-> k,
              allowedClients |-> {PrefixOf[p] : p \in ToSet(c)}]
<1>1. setting \in ServiceText
  BY FilesAre
<1>2. ASSUME NEW keyword, NEW default
      PROVE  last(keyword, default, <<m, n + 1>>) =
               IF Is(keyword, setting) THEN setting[keyword] ELSE last(keyword, default, <<m, n>>)
  BY LastOfSetting
<1>3. ASSUME NEW k
      PROVE  ServiceSaid(f, {m}, <<m, k>>) =
               made(last("addresses", <<>>, <<m, k>>), last("keyDirectory", "", <<m, k>>),
                    last("allowedClients", <<>>, <<m, k>>))
  BY DEF ServiceSaid
<1> HIDE DEF setting, last
<1>4. ASSUME NEW a, NEW k, NEW c
      PROVE  /\ Is("addresses", setting) =>
                  WithService(made(a, k, c), setting) = made(setting.addresses, k, c)
             /\ Is("keyDirectory", setting) =>
                  WithService(made(a, k, c), setting) = made(a, setting.keyDirectory, c)
             /\ Is("allowedClients", setting) =>
                  WithService(made(a, k, c), setting) = made(a, k, setting.allowedClients)
  BY <1>1, ServiceTextIs DEF WithService
<1> DEFINE a == last("addresses", <<>>, <<m, n>>)
           k == last("keyDirectory", "", <<m, n>>)
           c == last("allowedClients", <<>>, <<m, n>>)
           aNext == last("addresses", <<>>, <<m, n + 1>>)
           kNext == last("keyDirectory", "", <<m, n + 1>>)
           cNext == last("allowedClients", <<>>, <<m, n + 1>>)
<1>5. /\ aNext = IF Is("addresses", setting) THEN setting.addresses ELSE a
      /\ kNext = IF Is("keyDirectory", setting) THEN setting.keyDirectory ELSE k
      /\ cNext = IF Is("allowedClients", setting) THEN setting.allowedClients ELSE c
  BY <1>2
<1>6. /\ ServiceSaid(f, {m}, <<m, n>>) = made(a, k, c)
      /\ ServiceSaid(f, {m}, <<m, n + 1>>) = made(aNext, kNext, cNext)
  BY <1>3
<1> HIDE DEF made, a, k, c, aNext, kNext, cNext
<1>7. WithService(made(a, k, c), setting) = made(aNext, kNext, cNext)
  <2>1. CASE Is("addresses", setting)
    <3>1. aNext = setting.addresses /\ kNext = k /\ cNext = c
      BY <1>1, <1>5, <2>1, ServiceTextIs
    <3> QED
      BY <1>4, <2>1, <3>1
  <2>2. CASE Is("keyDirectory", setting)
    <3>1. aNext = a /\ kNext = setting.keyDirectory /\ cNext = c
      BY <1>1, <1>5, <2>2, ServiceTextIs
    <3> QED
      BY <1>4, <2>2, <3>1
  <2>3. CASE Is("allowedClients", setting)
    <3>1. aNext = a /\ kNext = k /\ cNext = setting.allowedClients
      BY <1>1, <1>5, <2>3, ServiceTextIs
    <3> QED
      BY <1>4, <2>3, <3>1
  <2> QED
    BY <1>1, <2>1, <2>2, <2>3, ServiceTextIs
<1> QED
  BY <1>6, <1>7 DEF setting

\* At the beginning of a stanza nothing is said yet.
LEMMA ServiceSaidAtFirst ==
  ASSUME NEW f \in Files, NEW m \in 1 .. Len(f)
  PROVE  ServiceSaid(f, {m}, <<m, 1>>) = NewService
<1>1. \A keyword : Given(f, {m}, keyword, <<m, 1>>) = {}
  BY GivenBefore, FilesAre
<1>2. Endpoints(<<>>) = {} /\ {PrefixOf[p] : p \in ToSet(<<>>)} = {}
  BY DEF Endpoints, ToSet
<1> QED
  BY <1>1, <1>2, LastOfNone DEF ServiceSaid, NewService

LEMMA LastServiceIs ==
  ASSUME NEW f \in Files, NEW m \in Nat \ {0}, NEW n
  PROVE  /\ \A k \in LastService(f, <<m, n>>) : k \in 1 .. Len(f) /\ k < m
         /\ \A k : LastService(f, <<m, k>>) = LastService(f, <<m, n>>)
         /\ m <= Len(f) =>
              LastService(f, <<m + 1, 1>>) =
                IF f[m].kind = "service" THEN {m} ELSE LastService(f, <<m, n>>)
<1>1. DOMAIN f = 1 .. Len(f) /\ Len(f) \in Nat
  BY FilesAre
<1>2. \A k \in LastService(f, <<m, n>>) : k \in 1 .. Len(f) /\ k < m
  BY <1>1 DEF LastService, StanzasOf
<1>3. \A k : LastService(f, <<m, k>>) = LastService(f, <<m, n>>)
  BY DEF LastService
<1>4. ASSUME m <= Len(f), f[m].kind = "service" PROVE LastService(f, <<m + 1, 1>>) = {m}
  <2>1. m \in StanzasOf(f, "service") /\ \A k \in StanzasOf(f, "service") : k \in Nat
    BY <1>1, <1>4 DEF StanzasOf
  <2> DEFINE those == {k \in StanzasOf(f, "service") : k < m + 1}
  <2>2. m \in those /\ \A k \in those : k \in Nat /\ k <= m
    BY <2>1
  <2>3. LastService(f, <<m + 1, 1>>) = {k \in those : \A l \in those : l <= k}
    BY DEF LastService
  <2> HIDE DEF those
  <2>4. \A k \in those : (\A l \in those : l <= k) <=> k = m
    BY <2>2
  <2> QED
    BY <2>2, <2>3, <2>4
<1>5. ASSUME m <= Len(f), f[m].kind # "service"
      PROVE  LastService(f, <<m + 1, 1>>) = LastService(f, <<m, n>>)
  <2>1. m \notin StanzasOf(f, "service") /\ \A k \in StanzasOf(f, "service") : k \in Nat
    BY <1>1, <1>5 DEF StanzasOf
  <2>2. {k \in StanzasOf(f, "service") : k < m + 1} = {k \in StanzasOf(f, "service") : k < m}
    BY <2>1
  <2> QED
    BY <2>2 DEF LastService
<1> QED
  BY <1>2, <1>3, <1>4, <1>5

\* The settings of a stanza say nothing for others.
LEMMA ServiceSaidByOther ==
  ASSUME NEW f \in Files, NEW m \in 1 .. Len(f), NEW n \in 1 .. Len(f[m].settings),
         NEW stanzas, m \notin stanzas
  PROVE  ServiceSaid(f, stanzas, <<m, n + 1>>) = ServiceSaid(f, stanzas, <<m, n>>)
<1>1. \A keyword : Given(f, stanzas, keyword, <<m, n + 1>>) = Given(f, stanzas, keyword, <<m, n>>)
  BY GivenBySetting
<1> QED
  BY <1>1, Zenon DEF ServiceSaid

LEMMA ServiceSaidAtEnd ==
  ASSUME NEW f \in Files, NEW m \in 1 .. Len(f), NEW n \in Nat, n > Len(f[m].settings),
         NEW stanzas
  PROVE  ServiceSaid(f, stanzas, <<m + 1, 1>>) = ServiceSaid(f, stanzas, <<m, n>>)
<1>1. \A keyword : Given(f, stanzas, keyword, <<m + 1, 1>>) = Given(f, stanzas, keyword, <<m, n>>)
  BY GivenAtEnd
<1> QED
  BY <1>1, Zenon DEF ServiceSaid

-----------------------------------------------------------------------------
\* The parts of what is said.
RunSaid(f, end) == LastService(f, end) # {}
SyslogSaid(f, end, keyword, default) ==
  LastOf(f, Given(f, StanzasOf(f, "syslog"), keyword, end), keyword, default)
LocationsSaid(f, end) ==
  \E p \in Given(f, StanzasOf(f, "syslog"), "logLocations", end) :
    SettingAt(f, p).logLocations \in YesTexts

ConfigOf(runService, ofService, facility, level, logLocations) ==
  [runService |-> runService, service |-> ofService, facility |-> facility,
   level |-> level, logLocations |-> logLocations]

LEMMA SaidParts ==
  ASSUME NEW f, NEW end
  PROVE  Said(f, end) =
           ConfigOf(RunSaid(f, end), ServiceSaid(f, LastService(f, end), end),
                    SyslogSaid(f, end, "facility", "daemon"),
                    SyslogSaid(f, end, "level", "info"), LocationsSaid(f, end))
  BY Zenon DEF Said, ConfigOf, RunSaid, SyslogSaid, LocationsSaid

\* What a stanza's end makes of a Config.
Ended(c, run, ofService) == [c EXCEPT !.runService = run, !.service = ofService]

LEMMA ConfigEnded ==
  ASSUME NEW run, NEW before, NEW facility, NEW level, NEW locations, NEW yes, NEW ofService
  PROVE  Ended(ConfigOf(run, before, facility, level, locations), yes, ofService) =
           ConfigOf(yes, ofService, facility, level, locations)
<1> DEFINE c == Ended(ConfigOf(run, before, facility, level, locations), yes, ofService)
<1>1. /\ DOMAIN c = {"runService", "service", "facility", "level", "logLocations"}
      /\ c.runService = yes /\ c.service = ofService /\ c.facility = facility
      /\ c.level = level /\ c.logLocations = locations
  BY DEF ConfigOf, Ended
<1>2. c = [k \in DOMAIN c |-> c[k]]
  BY DEF Ended
<1> HIDE DEF c
<1>3. c = ConfigOf(yes, ofService, facility, level, locations)
  BY <1>1, <1>2 DEF ConfigOf
<1> QED
  BY <1>3 DEF c

\* What a file says before two places is the same if its parts are.
LEMMA SaidTheSame ==
  ASSUME NEW f, NEW end, NEW next, LastService(f, next) = LastService(f, end),
         ServiceSaid(f, LastService(f, end), next) = ServiceSaid(f, LastService(f, end), end),
         \A keyword : Given(f, StanzasOf(f, "syslog"), keyword, next) =
                      Given(f, StanzasOf(f, "syslog"), keyword, end)
  PROVE  Said(f, next) = Said(f, end)
<1>1. RunSaid(f, next) = RunSaid(f, end)
  BY Zenon DEF RunSaid
<1>2. \A keyword, default :
        SyslogSaid(f, next, keyword, default) = SyslogSaid(f, end, keyword, default)
  BY DEF SyslogSaid
<1>3. LocationsSaid(f, next) = LocationsSaid(f, end)
  <2>1. LocationsSaid(f, next) <=> LocationsSaid(f, end)
    BY DEF LocationsSaid
  <2> QED
    BY <2>1, Zenon DEF LocationsSaid
<1> QED
  BY <1>1, <1>2, <1>3, SaidParts

LEMMA SaidAtFirst ==
  ASSUME NEW f \in Files
  PROVE  Said(f, <<1, 1>>) = Cleared
<1>1. ASSUME NEW stanzas \in SUBSET (1 .. Len(f)), NEW keyword
      PROVE  Given(f, stanzas, keyword, <<1, 1>>) = {}
  <2>1. Len(f) \in Nat /\ 1 \in Nat
    BY FilesAre
  <2>2. \A k \in stanzas : k \in Nat /\ k >= 1
    BY <2>1
  <2> QED
    BY <2>1, <2>2, GivenBefore
<1>2. LastService(f, <<1, 1>>) = {} /\ StanzasOf(f, "syslog") \in SUBSET (1 .. Len(f))
  <2>1. 1 \in Nat \ {0}
    OBVIOUS
  <2>2. \A k \in LastService(f, <<1, 1>>) : k \in 1 .. Len(f) /\ k < 1
    BY <2>1, LastServiceIs
  <2> QED
    BY <2>2, FilesAre DEF StanzasOf
<1>3. Endpoints(<<>>) = {} /\ {PrefixOf[p] : p \in ToSet(<<>>)} = {}
  BY DEF Endpoints, ToSet
<1>4. ServiceSaid(f, {}, <<1, 1>>) =
        [addresses |-> {}, keyDirectory |-> "/usr/local/etc/mctallyd", allowedClients |-> {}]
  <2>1. \A keyword : Given(f, {}, keyword, <<1, 1>>) = {}
    BY DEF Given
  <2> QED
    BY <1>3, <2>1, LastOfNone DEF ServiceSaid
<1>5. \A keyword : Given(f, StanzasOf(f, "syslog"), keyword, <<1, 1>>) = {}
  BY <1>1, <1>2
<1>6. /\ RunSaid(f, <<1, 1>>) = FALSE /\ LocationsSaid(f, <<1, 1>>) = FALSE
      /\ SyslogSaid(f, <<1, 1>>, "facility", "daemon") = "daemon"
      /\ SyslogSaid(f, <<1, 1>>, "level", "info") = "info"
  BY <1>2, <1>5, LastOfNone DEF RunSaid, LocationsSaid, SyslogSaid
<1>7. Cleared = ConfigOf(FALSE, ServiceSaid(f, {}, <<1, 1>>), "daemon", "info", FALSE)
  <2> DEFINE s == [NewService EXCEPT !.keyDirectory = "/usr/local/etc/mctallyd"]
  <2>1. /\ DOMAIN s = {"addresses", "keyDirectory", "allowedClients"}
        /\ s.addresses = {} /\ s.keyDirectory = "/usr/local/etc/mctallyd"
        /\ s.allowedClients = {}
    BY DEF NewService
  <2>2. s = [k \in DOMAIN s |-> s[k]]
    BY DEF NewService
  <2>3. Cleared = ConfigOf(FALSE, s, "daemon", "info", FALSE)
    BY Zenon DEF Cleared, ConfigOf
  <2> HIDE DEF s
  <2>4. s = ServiceSaid(f, {}, <<1, 1>>)
    BY <1>4, <2>1, <2>2
  <2> QED
    BY <2>3, <2>4
<1> QED
  BY <1>2, <1>6, <1>7, SaidParts

LEMMA SaidByServiceSetting ==
  ASSUME NEW f \in Files, NEW m \in 1 .. Len(f), NEW n \in 1 .. Len(f[m].settings),
         f[m].kind = "service"
  PROVE  Said(f, <<m, n + 1>>) = Said(f, <<m, n>>)
<1> DEFINE own == LastService(f, <<m, n>>)
<1>1. LastService(f, <<m, n + 1>>) = own /\ m \notin own
  <2>1. m \in Nat \ {0}
    BY FilesAre
  <2>2. \A k \in own : k \in 1 .. Len(f) /\ k < m
    BY <2>1, LastServiceIs
  <2>3. LastService(f, <<m, n + 1>>) = own
    BY <2>1, LastServiceIs
  <2> QED
    BY <2>1, <2>2, <2>3
<1>2. ServiceSaid(f, own, <<m, n + 1>>) = ServiceSaid(f, own, <<m, n>>)
  BY <1>1, ServiceSaidByOther
<1>3. m \notin StanzasOf(f, "syslog")
  BY DEF StanzasOf
<1>4. \A keyword : Given(f, StanzasOf(f, "syslog"), keyword, <<m, n + 1>>) =
                   Given(f, StanzasOf(f, "syslog"), keyword, <<m, n>>)
  BY <1>3, GivenBySetting
<1> QED
  BY <1>1, <1>2, <1>4, SaidTheSame

LEMMA SaidAtEnd ==
  ASSUME NEW f \in Files, NEW m \in 1 .. Len(f), NEW n \in Nat, n > Len(f[m].settings)
  PROVE  Said(f, <<m + 1, 1>>) =
           IF f[m].kind = "service"
           THEN Ended(Said(f, <<m, n>>), TRUE, ServiceSaid(f, {m}, <<m, n>>))
           ELSE Said(f, <<m, n>>)
<1>1. \A keyword : Given(f, StanzasOf(f, "syslog"), keyword, <<m + 1, 1>>) =
                   Given(f, StanzasOf(f, "syslog"), keyword, <<m, n>>)
  BY GivenAtEnd
<1>2. \A stanzas : ServiceSaid(f, stanzas, <<m + 1, 1>>) = ServiceSaid(f, stanzas, <<m, n>>)
  BY ServiceSaidAtEnd
<1>3. m \in Nat \ {0} /\ m <= Len(f)
  BY FilesAre
<1>4. CASE f[m].kind = "service"
  <2>1. LastService(f, <<m + 1, 1>>) = {m}
    BY <1>3, <1>4, LastServiceIs
  <2>2. ServiceSaid(f, {m}, <<m + 1, 1>>) = ServiceSaid(f, {m}, <<m, n>>)
    BY <1>2
  <2>3. RunSaid(f, <<m + 1, 1>>) = TRUE
    BY <2>1 DEF RunSaid
  <2>4. LocationsSaid(f, <<m + 1, 1>>) = LocationsSaid(f, <<m, n>>)
    <3>1. LocationsSaid(f, <<m + 1, 1>>) <=> LocationsSaid(f, <<m, n>>)
      BY <1>1 DEF LocationsSaid
    <3> QED
      BY <3>1, Zenon DEF LocationsSaid
  <2>5. \A keyword, default : SyslogSaid(f, <<m + 1, 1>>, keyword, default) =
                              SyslogSaid(f, <<m, n>>, keyword, default)
    BY <1>1 DEF SyslogSaid
  <2>6. Said(f, <<m + 1, 1>>) =
          Ended(Said(f, <<m, n>>), TRUE, ServiceSaid(f, {m}, <<m, n>>))
    <3> DEFINE run == RunSaid(f, <<m, n>>)
               own == ServiceSaid(f, LastService(f, <<m, n>>), <<m, n>>)
               facility == SyslogSaid(f, <<m, n>>, "facility", "daemon")
               level == SyslogSaid(f, <<m, n>>, "level", "info")
               locations == LocationsSaid(f, <<m, n>>)
    <3>1. Said(f, <<m, n>>) = ConfigOf(run, own, facility, level, locations)
      BY SaidParts
    <3>2. Said(f, <<m + 1, 1>>) =
            ConfigOf(TRUE, ServiceSaid(f, {m}, <<m, n>>), facility, level, locations)
      BY <2>1, <2>2, <2>3, <2>4, <2>5, SaidParts, Zenon
    <3> HIDE DEF run, own, facility, level, locations
    <3>3. \A yes : Ended(ConfigOf(run, own, facility, level, locations), yes,
                       ServiceSaid(f, {m}, <<m, n>>)) =
                   ConfigOf(yes, ServiceSaid(f, {m}, <<m, n>>), facility, level, locations)
      BY ConfigEnded
    <3> QED
      BY <3>1, <3>2, <3>3
  <2> QED
    BY <1>4, <2>6
<1>5. CASE f[m].kind # "service"
  <2>1. LastService(f, <<m + 1, 1>>) = LastService(f, <<m, n>>)
    BY <1>3, <1>5, LastServiceIs
  <2>2. Said(f, <<m + 1, 1>>) = Said(f, <<m, n>>)
    BY <1>1, <1>2, <2>1, SaidTheSame
  <2> QED
    BY <1>5, <2>2
<1> QED
  BY <1>4, <1>5

\* What a syslog setting makes of a Config.
LEMMA ConfigWithSyslog ==
  ASSUME NEW run, NEW ofService, NEW facility, NEW level, NEW locations,
         NEW setting \in SyslogText,
         NEW then, then = (locations \/ setting.logLocations \in YesTexts)
  PROVE  LET c == ConfigOf(run, ofService, facility, level, locations)
         IN /\ Is("facility", setting) =>
                 WithSyslog(c, setting) = ConfigOf(run, ofService, setting.facility, level, locations)
            /\ Is("level", setting) =>
                 WithSyslog(c, setting) = ConfigOf(run, ofService, facility, setting.level, locations)
            /\ Is("logLocations", setting) =>
                 WithSyslog(c, setting) = ConfigOf(run, ofService, facility, level, then)
<1> DEFINE c == ConfigOf(run, ofService, facility, level, locations)
           d == WithSyslog(c, setting)
           fields == {"runService", "service", "facility", "level", "logLocations"}
<1>1. /\ c.runService = run /\ c.service = ofService /\ c.facility = facility
      /\ c.level = level /\ c.logLocations = locations
      /\ DOMAIN c = fields
  BY DEF ConfigOf
<1> HIDE DEF c
<1>2. /\ Is("facility", setting) => d = [c EXCEPT !.facility = setting.facility]
      /\ Is("level", setting) => d = [c EXCEPT !.level = setting.level]
      /\ Is("logLocations", setting) =>
           d = [c EXCEPT !.logLocations = c.logLocations \/ setting.logLocations \in YesTexts]
  BY SyslogTextIs DEF WithSyslog
<1>3. DOMAIN d = fields /\ d = [k \in fields |-> d[k]]
  BY <1>1, <1>2, SyslogTextIs
<1> HIDE DEF d
<1>4. CASE Is("facility", setting)
  <2>1. /\ d.runService = run /\ d.service = ofService /\ d.facility = setting.facility
        /\ d.level = level /\ d.logLocations = locations
    BY <1>1, <1>2, <1>4
  <2>2. d = ConfigOf(run, ofService, setting.facility, level, locations)
    BY <1>3, <2>1 DEF ConfigOf
  <2> QED
    BY <1>4, <2>2, SyslogTextIs DEF c, d
<1>5. CASE Is("level", setting)
  <2>1. /\ d.runService = run /\ d.service = ofService /\ d.facility = facility
        /\ d.level = setting.level /\ d.logLocations = locations
    BY <1>1, <1>2, <1>5
  <2>2. d = ConfigOf(run, ofService, facility, setting.level, locations)
    BY <1>3, <2>1 DEF ConfigOf
  <2> QED
    BY <1>5, <2>2, SyslogTextIs DEF c, d
<1>6. CASE Is("logLocations", setting)
  <2>1. /\ d.runService = run /\ d.service = ofService /\ d.facility = facility
        /\ d.level = level /\ d.logLocations = then
    BY <1>1, <1>2, <1>6
  <2>2. d = ConfigOf(run, ofService, facility, level, then)
    BY <1>3, <2>1 DEF ConfigOf
  <2> QED
    BY <1>6, <2>2, SyslogTextIs DEF c, d
<1> QED
  BY <1>4, <1>5, <1>6, SyslogTextIs

LEMMA SaidBySyslogSetting ==
  ASSUME NEW f \in Files, NEW m \in 1 .. Len(f), NEW n \in 1 .. Len(f[m].settings),
         f[m].kind = "syslog"
  PROVE  Said(f, <<m, n + 1>>) = WithSyslog(Said(f, <<m, n>>), f[m].settings[n])
<1> DEFINE setting == f[m].settings[n]
           run == RunSaid(f, <<m, n>>)
           own == ServiceSaid(f, LastService(f, <<m, n>>), <<m, n>>)
           facility == SyslogSaid(f, <<m, n>>, "facility", "daemon")
           level == SyslogSaid(f, <<m, n>>, "level", "info")
           locations == LocationsSaid(f, <<m, n>>)
           then == LocationsSaid(f, <<m, n + 1>>)
<1>1. setting \in SyslogText /\ m \in StanzasOf(f, "syslog")
  BY FilesAre DEF StanzasOf
<1>2. m \in Nat \ {0}
  BY FilesAre
<1>3. LastService(f, <<m, n + 1>>) = LastService(f, <<m, n>>) /\ m \notin LastService(f, <<m, n>>)
  <2>1. \A k \in LastService(f, <<m, n>>) : k \in 1 .. Len(f) /\ k < m
    BY <1>2, LastServiceIs
  <2>2. LastService(f, <<m, n + 1>>) = LastService(f, <<m, n>>)
    BY <1>2, LastServiceIs
  <2> QED
    BY <1>2, <2>1, <2>2
<1>4. /\ RunSaid(f, <<m, n + 1>>) = run
      /\ ServiceSaid(f, LastService(f, <<m, n + 1>>), <<m, n + 1>>) = own
  BY <1>3, ServiceSaidByOther DEF RunSaid
<1>5. ASSUME NEW keyword, NEW default
      PROVE  SyslogSaid(f, <<m, n + 1>>, keyword, default) =
               IF Is(keyword, setting) THEN setting[keyword]
               ELSE SyslogSaid(f, <<m, n>>, keyword, default)
  BY <1>1, LastOfSetting DEF SyslogSaid
<1>6. then <=> locations \/ (Is("logLocations", setting) /\ setting.logLocations \in YesTexts)
  <2>1. SettingAt(f, <<m, n>>) = setting
    BY DEF SettingAt
  <2>2. CASE Is("logLocations", setting)
    BY <1>1, <2>1, <2>2, GivenBySetting DEF LocationsSaid
  <2>3. CASE ~Is("logLocations", setting)
    BY <1>1, <2>3, GivenBySetting DEF LocationsSaid
  <2> QED
    BY <2>2, <2>3
<1>7. /\ then \in BOOLEAN /\ locations \in BOOLEAN
  BY Zenon DEF LocationsSaid
<1>8. Said(f, <<m, n>>) = ConfigOf(run, own, facility, level, locations)
  BY SaidParts
<1>9. Said(f, <<m, n + 1>>) =
        ConfigOf(run, own, SyslogSaid(f, <<m, n + 1>>, "facility", "daemon"),
                 SyslogSaid(f, <<m, n + 1>>, "level", "info"), then)
  BY <1>4, SaidParts, Zenon
<1>10. CASE Is("facility", setting)
  <2>1. /\ SyslogSaid(f, <<m, n + 1>>, "facility", "daemon") = setting.facility
        /\ SyslogSaid(f, <<m, n + 1>>, "level", "info") = level
        /\ then = locations
    BY <1>1, <1>5, <1>6, <1>7, <1>10, SyslogTextIs
  <2> HIDE DEF setting, run, own, facility, level, locations, then
  <2>2. WithSyslog(ConfigOf(run, own, facility, level, locations), setting) =
          ConfigOf(run, own, setting.facility, level, locations)
    BY <1>1, <1>10, ConfigWithSyslog
  <2> QED
    BY <1>8, <1>9, <2>1, <2>2 DEF setting
<1>11. CASE Is("level", setting)
  <2>1. /\ SyslogSaid(f, <<m, n + 1>>, "facility", "daemon") = facility
        /\ SyslogSaid(f, <<m, n + 1>>, "level", "info") = setting.level
        /\ then = locations
    BY <1>1, <1>5, <1>6, <1>7, <1>11, SyslogTextIs
  <2> HIDE DEF setting, run, own, facility, level, locations, then
  <2>2. WithSyslog(ConfigOf(run, own, facility, level, locations), setting) =
          ConfigOf(run, own, facility, setting.level, locations)
    BY <1>1, <1>11, ConfigWithSyslog
  <2> QED
    BY <1>8, <1>9, <2>1, <2>2 DEF setting
<1>12. CASE Is("logLocations", setting)
  <2>1. /\ SyslogSaid(f, <<m, n + 1>>, "facility", "daemon") = facility
        /\ SyslogSaid(f, <<m, n + 1>>, "level", "info") = level
        /\ then = (locations \/ setting.logLocations \in YesTexts)
    BY <1>1, <1>5, <1>6, <1>7, <1>12, SyslogTextIs
  <2> HIDE DEF setting, run, own, facility, level, locations, then
  <2>2. WithSyslog(ConfigOf(run, own, facility, level, locations), setting) =
          ConfigOf(run, own, facility, level, then)
    BY <1>1, <1>12, <2>1, ConfigWithSyslog
  <2> QED
    BY <1>8, <1>9, <2>1, <2>2 DEF setting
<1> QED
  BY <1>1, <1>10, <1>11, <1>12, SyslogTextIs

-----------------------------------------------------------------------------
(***************************************************************************)
(* The invariant, and what it says at the end of a parse.                  *)
(***************************************************************************)
LEMMA IsFineIs ==
  ASSUME NEW setting
  PROVE  IsFine(setting) <=> Valid(setting)
<1> DEFINE addresses == setting.addresses
           Fine(a) == /\ a.address \in DOMAIN AddressOf
                      /\ a.port = NoPort \/ a.port \in 1 .. 65535
<1>1. ToSet(addresses) = {addresses[k] : k \in DOMAIN addresses}
  BY Zenon DEF ToSet
<1>2. (\A a \in ToSet(addresses) : Fine(a)) <=> \A k \in DOMAIN addresses : Fine(addresses[k])
  <2> HIDE DEF Fine, addresses
  <2> QED
    BY <1>1
<1>3. (\A p \in ToSet(setting.allowedClients) : p \in DOMAIN PrefixOf)
      <=> ToSet(setting.allowedClients) \subseteq DOMAIN PrefixOf
  OBVIOUS
<1>4. IsFine(setting) <=>
        /\ Is("addresses", setting) =>
             addresses # <<>> /\ \A a \in ToSet(addresses) : Fine(a)
        /\ Is("allowedClients", setting) =>
             /\ setting.allowedClients # <<>>
             /\ \A p \in ToSet(setting.allowedClients) : p \in DOMAIN PrefixOf
  BY DEF IsFine
<1>5. Valid(setting) <=>
        /\ Is("addresses", setting) =>
             addresses # <<>> /\ \A k \in DOMAIN addresses : Fine(addresses[k])
        /\ Is("allowedClients", setting) =>
             /\ setting.allowedClients # <<>>
             /\ ToSet(setting.allowedClients) \subseteq DOMAIN PrefixOf
  BY DEF Valid, ValidPort, MaxPort
<1> HIDE DEF Fine, addresses
<1> QED
  BY <1>2, <1>3, <1>4, <1>5

LEMMA IsValidIs ==
  ASSUME NEW f \in Files
  PROVE  IsValid(f) <=>
           /\ f # <<>> /\ \A m \in 1 .. Len(f) : f[m].settings # <<>>
           /\ \A p \in Places(f) : Valid(SettingAt(f, p))
<1>2. IsValid(f) <=>
        /\ f # <<>>
        /\ \A m \in 1 .. Len(f) :
             /\ f[m].settings # <<>>
             /\ \A n \in 1 .. Len(f[m].settings) : IsFine(f[m].settings[n])
  <2> DEFINE Fine(s) == s.settings # <<>> /\ \A setting \in ToSet(s.settings) : IsFine(setting)
  <2>1. IsValid(f) <=> f # <<>> /\ \A s \in ToSet(f) : Fine(s)
    BY DEF IsValid
  <2>2. (\A s \in ToSet(f) : Fine(s)) <=> \A m \in 1 .. Len(f) : Fine(f[m])
    <3> HIDE DEF Fine
    <3> QED
      BY FilesAre, Zenon DEF ToSet
  <2>3. ASSUME NEW m \in 1 .. Len(f)
        PROVE  Fine(f[m]) <=> /\ f[m].settings # <<>>
                              /\ \A n \in 1 .. Len(f[m].settings) : IsFine(f[m].settings[n])
    <3>1. DOMAIN f[m].settings = 1 .. Len(f[m].settings)
      BY FilesAre
    <3> QED
      BY <3>1, Zenon DEF ToSet
  <2> HIDE DEF Fine
  <2> QED
    BY <2>1, <2>2, <2>3, Zenon
<1>3. (\A m \in 1 .. Len(f) : \A n \in 1 .. Len(f[m].settings) : IsFine(f[m].settings[n]))
        <=> \A p \in Places(f) : IsFine(SettingAt(f, p))
  <2>1. ASSUME \A m \in 1 .. Len(f) : \A n \in 1 .. Len(f[m].settings) : IsFine(f[m].settings[n]),
               NEW p \in Places(f)
        PROVE  IsFine(SettingAt(f, p))
    BY <2>1, PlacesAre DEF SettingAt
  <2>2. ASSUME \A p \in Places(f) : IsFine(SettingAt(f, p)),
               NEW m \in 1 .. Len(f), NEW n \in 1 .. Len(f[m].settings)
        PROVE  IsFine(f[m].settings[n])
    <3>1. <<m, n>> \in Places(f) /\ SettingAt(f, <<m, n>>) = f[m].settings[n]
      BY PlacesAre DEF SettingAt
    <3> QED
      BY <2>2, <3>1
  <2> QED
    BY <2>1, <2>2
<1> QED
  BY <1>2, <1>3, IsFineIs

LEMMA InitCInv == InitConfig => CInv
<1> SUFFICES ASSUME InitConfig PROVE CInv
  OBVIOUS
<1>1. /\ file \in Files /\ i = 1 /\ j = 1 /\ config = Cleared /\ rc = "parsing"
      /\ Len(file) \in Nat
  BY FilesAre DEF InitConfig
<1>2. \A p \in Places(file) : ~Precedes(p, <<1, 1>>)
  BY <1>1, PlacesAre DEF Precedes
<1> QED
  BY <1>1, <1>2, SaidAtFirst DEF CInv, ValidSoFar, GatheredSoFar, AcceptsValid, MeansWhatItSays

\* While it parses, it is at a setting, at the end of a stanza or at that of the
\* file, and one more place is behind it.
LEMMA SettingPassed ==
  ASSUME CInv, rc = "parsing", i <= Len(file), j <= Len(file[i].settings),
         Valid(file[i].settings[j])
  PROVE  /\ i \in 1 .. Len(file) /\ j \in 1 .. Len(file[i].settings)
         /\ Len(file) \in Nat /\ Len(file[i].settings) \in Nat
         /\ \A p \in Places(file) : Precedes(p, <<i, j + 1>>) => Valid(SettingAt(file, p))
<1>1. file \in Files /\ i \in Nat \ {0} /\ j \in Nat \ {0}
  BY DEF CInv, ValidSoFar
<1>2. /\ i \in 1 .. Len(file) /\ Len(file) \in Nat
  BY <1>1, FilesAre
<1>3. Len(file[i].settings) \in Nat /\ j \in 1 .. Len(file[i].settings)
  BY <1>1, <1>2, FilesAre
<1>4. ASSUME NEW p \in Places(file), Precedes(p, <<i, j + 1>>)
      PROVE  Precedes(p, <<i, j>>) \/ p = <<i, j>>
  BY <1>1, <1>4, PlacesAre DEF Precedes
<1>5. SettingAt(file, <<i, j>>) = file[i].settings[j]
  BY DEF SettingAt
<1> QED
  BY <1>2, <1>3, <1>4, <1>5 DEF CInv, ValidSoFar

LEMMA StanzaPassed ==
  ASSUME CInv, rc = "parsing", i <= Len(file), j > Len(file[i].settings), j > 1
  PROVE  /\ i \in 1 .. Len(file) /\ Len(file) \in Nat
         /\ file[i].settings # <<>>
         /\ \A p \in Places(file) : Precedes(p, <<i + 1, 1>>) => Valid(SettingAt(file, p))
<1>1. /\ file \in Files /\ i \in Nat \ {0} /\ j \in Nat \ {0}
      /\ j <= Len(file[i].settings) + 1
  BY DEF CInv, ValidSoFar
<1>2. i \in 1 .. Len(file) /\ Len(file) \in Nat
  BY <1>1, FilesAre
<1>3. file[i].settings # <<>>
  BY <1>1, <1>2, FilesAre
<1>4. ASSUME NEW p \in Places(file), Precedes(p, <<i + 1, 1>>)
      PROVE  Precedes(p, <<i, j>>)
  BY <1>1, <1>2, <1>4, PlacesAre, FilesAre DEF Precedes
<1> QED
  BY <1>2, <1>3, <1>4 DEF CInv, ValidSoFar

-----------------------------------------------------------------------------
(* One step per action. *)

LEMMA ServiceSettingKeeps == CInv /\ ServiceSetting => CInv'
<1> SUFFICES ASSUME CInv, ServiceSetting PROVE CInv'
  OBVIOUS
<1>1. /\ rc = "parsing" /\ i <= Len(file) /\ file[i].kind = "service"
      /\ j <= Len(file[i].settings) /\ Valid(file[i].settings[j])
      /\ file' = file /\ i' = i /\ j' = j + 1 /\ config' = config /\ rc' = rc
  BY DEF ServiceSetting, AtSetting
<1>2. /\ file \in Files /\ i \in Nat \ {0} /\ j \in Nat \ {0}
      /\ config = Said(file, <<i, j>>)
      /\ \A m \in 1 .. i - 1 : file[m].settings # <<>>
  BY <1>1 DEF CInv, ValidSoFar, GatheredSoFar
<1>3. /\ i \in 1 .. Len(file) /\ j \in 1 .. Len(file[i].settings)
      /\ Len(file) \in Nat /\ Len(file[i].settings) \in Nat
      /\ \A p \in Places(file) : Precedes(p, <<i, j + 1>>) => Valid(SettingAt(file, p))
  BY <1>1, SettingPassed
<1>4. config' = Said(file, <<i, j + 1>>)
  BY <1>1, <1>2, <1>3, SaidByServiceSetting
<1>5. (IF j = 1 THEN NewService ELSE service) = ServiceSaid(file, {i}, <<i, j>>)
  <2>1. j = 1 => ServiceSaid(file, {i}, <<i, j>>) = NewService
    BY <1>2, <1>3, ServiceSaidAtFirst
  <2>2. j # 1 => service = ServiceSaid(file, {i}, <<i, j>>)
    BY <1>1, <1>2 DEF CInv, GatheredSoFar
  <2> QED
    BY <2>1, <2>2
<1>6. service' = ServiceSaid(file, {i}, <<i, j + 1>>)
  BY <1>1, <1>2, <1>3, <1>5, ServiceSaidBySetting DEF ServiceSetting
<1>7. ValidSoFar'
  BY <1>1, <1>2, <1>3 DEF ValidSoFar
<1>8. GatheredSoFar'
  BY <1>1, <1>4, <1>6 DEF GatheredSoFar
<1> QED
  BY <1>1, <1>7, <1>8 DEF CInv, AcceptsValid, MeansWhatItSays

\* A syslog setting has no value that could be wrong.
LEMMA SyslogSettingKeeps == CInv /\ SyslogSetting => CInv'
<1> SUFFICES ASSUME CInv, SyslogSetting PROVE CInv'
  OBVIOUS
<1>1. /\ rc = "parsing" /\ i <= Len(file) /\ file[i].kind = "syslog"
      /\ j <= Len(file[i].settings)
      /\ file' = file /\ i' = i /\ j' = j + 1 /\ rc' = rc
      /\ config' = WithSyslog(config, file[i].settings[j])
  BY DEF SyslogSetting, AtSetting
<1>2. /\ file \in Files /\ i \in Nat \ {0} /\ j \in Nat \ {0}
      /\ config = Said(file, <<i, j>>)
      /\ \A m \in 1 .. i - 1 : file[m].settings # <<>>
  BY <1>1 DEF CInv, ValidSoFar, GatheredSoFar
<1>3. Valid(file[i].settings[j])
  <2>1. /\ i \in 1 .. Len(file) /\ j \in 1 .. Len(file[i].settings)
        /\ file[i].settings \in Seq(SyslogText)
    BY <1>1, <1>2, FilesAre
  <2>2. file[i].settings[j] \in SyslogText
    BY <2>1
  <2> QED
    BY <2>2 DEF Valid, Is, SyslogText
<1>4. /\ i \in 1 .. Len(file) /\ j \in 1 .. Len(file[i].settings)
      /\ Len(file) \in Nat /\ Len(file[i].settings) \in Nat
      /\ \A p \in Places(file) : Precedes(p, <<i, j + 1>>) => Valid(SettingAt(file, p))
  BY <1>1, <1>3, SettingPassed
<1>5. config' = Said(file, <<i, j + 1>>)
  BY <1>1, <1>2, <1>4, SaidBySyslogSetting
<1>6. ValidSoFar'
  BY <1>1, <1>2, <1>4 DEF ValidSoFar
<1>7. GatheredSoFar'
  BY <1>1, <1>5 DEF GatheredSoFar
<1> QED
  BY <1>1, <1>6, <1>7 DEF CInv, AcceptsValid, MeansWhatItSays

LEMMA StanzaEndKeeps == CInv /\ (Service \/ Syslog) => CInv'
<1> SUFFICES ASSUME CInv, Service \/ Syslog PROVE CInv'
  OBVIOUS
<1>1. /\ rc = "parsing" /\ i <= Len(file) /\ j > Len(file[i].settings) /\ j > 1
      /\ file' = file /\ i' = i + 1 /\ j' = 1 /\ rc' = rc
  BY DEF Service, Syslog, AtEnd
<1>2. /\ file \in Files /\ i \in Nat \ {0} /\ j \in Nat \ {0}
      /\ config = Said(file, <<i, j>>)
      /\ \A m \in 1 .. i - 1 : file[m].settings # <<>>
  BY <1>1 DEF CInv, ValidSoFar, GatheredSoFar
<1>3. /\ i \in 1 .. Len(file) /\ Len(file) \in Nat
      /\ file[i].settings # <<>>
      /\ \A p \in Places(file) : Precedes(p, <<i + 1, 1>>) => Valid(SettingAt(file, p))
  BY <1>1, StanzaPassed
<1>4. config' = Said(file, <<i + 1, 1>>)
  <2>1. CASE Service
    <3>1. /\ file[i].kind = "service" /\ service = ServiceSaid(file, {i}, <<i, j>>)
          /\ config' = Ended(config, TRUE, service)
      BY <1>1, <2>1 DEF Service, AtEnd, CInv, GatheredSoFar, Ended
    <3> QED
      BY <1>1, <1>2, <1>3, <3>1, SaidAtEnd
  <2>2. CASE Syslog
    <3>1. file[i].kind # "service" /\ config' = config
      BY <2>2 DEF Syslog, AtEnd
    <3> QED
      BY <1>1, <1>2, <1>3, <3>1, SaidAtEnd
  <2> QED
    BY <2>1, <2>2
<1>5. ValidSoFar'
  BY <1>1, <1>2, <1>3 DEF ValidSoFar
<1>6. GatheredSoFar'
  BY <1>1, <1>4 DEF GatheredSoFar
<1> QED
  BY <1>1, <1>5, <1>6 DEF CInv, AcceptsValid, MeansWhatItSays

LEMMA ErrorKeeps == CInv /\ Error => CInv'
<1> SUFFICES ASSUME CInv, Error PROVE CInv'
  OBVIOUS
<1>1. /\ rc = "parsing" /\ rc' = "false" /\ file' = file /\ i' = i /\ j' = j
      /\ file \in Files /\ i \in Nat \ {0} /\ j \in Nat \ {0}
  BY DEF Error, CInv, ValidSoFar
<1>2. ~IsValid(file)
  <2>1. CASE AtSetting("service") /\ ~Valid(file[i].settings[j])
    <3>1. i \in 1 .. Len(file) /\ j \in 1 .. Len(file[i].settings)
      BY <1>1, <2>1, FilesAre DEF AtSetting
    <3>2. <<i, j>> \in Places(file) /\ SettingAt(file, <<i, j>>) = file[i].settings[j]
      BY <1>1, <3>1, PlacesAre DEF SettingAt
    <3> QED
      BY <1>1, <2>1, <3>2, IsValidIs
  <2>2. CASE i <= Len(file) /\ file[i].settings = <<>>
    <3>1. i \in 1 .. Len(file)
      BY <1>1, <2>2, FilesAre
    <3> QED
      BY <1>1, <2>2, <3>1, IsValidIs
  <2>3. CASE file = <<>>
    BY <1>1, <2>3, IsValidIs
  <2> QED
    BY <2>1, <2>2, <2>3 DEF Error
<1> QED
  BY <1>1, <1>2 DEF CInv, ValidSoFar, GatheredSoFar, AcceptsValid, MeansWhatItSays

LEMMA AcceptKeeps == CInv /\ Accept => CInv'
<1> SUFFICES ASSUME CInv, Accept PROVE CInv'
  OBVIOUS
<1>1. /\ rc = "parsing" /\ rc' = "true" /\ file' = file /\ i' = i /\ j' = j
      /\ i > Len(file) /\ file # <<>>
  BY DEF Accept
<1>2. /\ file \in Files /\ i \in Nat \ {0} /\ j \in Nat \ {0}
      /\ i <= Len(file) + 1 /\ ~(j > 1)
      /\ \A m \in 1 .. i - 1 : file[m].settings # <<>>
      /\ \A p \in Places(file) : Precedes(p, <<i, j>>) => Valid(SettingAt(file, p))
      /\ config = Said(file, <<i, j>>)
      /\ Len(file) \in Nat
  BY <1>1, FilesAre DEF CInv, ValidSoFar, GatheredSoFar
<1>3. i = Len(file) + 1 /\ j = 1
  BY <1>1, <1>2
<1>4. \A p \in Places(file) : Precedes(p, <<i, j>>)
  BY <1>2, <1>3, PlacesAre DEF Precedes
<1>5. IsValid(file)
  BY <1>1, <1>2, <1>3, <1>4, IsValidIs
<1>6. config' = Meaning(file)
  <2>1. config = Said(file, <<Len(file) + 1, 1>>)
    BY <1>2, <1>3
  <2> QED
    BY <2>1, Zenon DEF Accept, Meaning, DefaultPort
<1> QED
  BY <1>1, <1>2, <1>5, <1>6 DEF CInv, ValidSoFar, GatheredSoFar, AcceptsValid, MeansWhatItSays

LEMMA NextCInv == CInv /\ [Next]_<<configVars, lineVars>> => CInv'
<1> SUFFICES ASSUME CInv, [Next]_<<configVars, lineVars>> PROVE CInv'
  OBVIOUS
<1>1. CASE Parse
  BY <1>1, ServiceSettingKeeps, SyslogSettingKeeps, StanzaEndKeeps, ErrorKeeps, AcceptKeeps
    DEF Parse
<1>2. CASE UNCHANGED configVars
  BY <1>2 DEF configVars, CInv, ValidSoFar, GatheredSoFar, AcceptsValid, MeansWhatItSays
<1> QED
  BY <1>1, <1>2 DEF Next, ReadsLine, Terminated

-----------------------------------------------------------------------------
(***************************************************************************)
(* What operator<< writes of a Config that can be written.                 *)
(***************************************************************************)
LEMMA SeqFinite ==
  ASSUME NEW f, NEW n \in Nat, DOMAIN f = 1 .. n, NEW S, S = {f[k] : k \in DOMAIN f}
  PROVE  IsFiniteSet(S)
<1> DEFINE g == [k \in 1 .. n |-> f[k]]
<1>1. g \in Surjection(1 .. n, S)
  BY DEF Surjection
<1>2. IsFiniteSet(1 .. n)
  BY FS_Interval
<1> QED
  BY <1>1, <1>2, FS_Surjection, Zenon

LEMMA MaxPortIs == MaxPort \in Int
  BY DEF MaxPort

LEMMA DefaultIsValid == ValidPort(DefaultPort)
<1>1. \A n \in Int : 1 <= n /\ n <= MaxPort => ValidPort(n)
  BY MaxPortIs DEF ValidPort
<1>2. DefaultPort \in Int /\ 1 <= DefaultPort /\ DefaultPort <= MaxPort
  BY DEF DefaultPort, MaxPort
<1> QED
  BY <1>1, <1>2

LEMMA EndpointsWritable ==
  ASSUME NEW a, NEW n \in Nat, DOMAIN a = 1 .. n,
         \A k \in DOMAIN a : /\ a[k].address \in DOMAIN AddressOf
                             /\ a[k].port = NoPort \/ ValidPort(a[k].port)
  PROVE  (\A e \in Endpoints(a) : IsEndpoint(e)) /\ IsFiniteSet(Endpoints(a))
<1>1. ASSUME NEW k \in DOMAIN a
      PROVE  IsEndpoint(Endpoint(a[k]))
  <2> DEFINE t == a[k]
             address == AddressOf[t.address]
             portOf == IF t.port = NoPort THEN DefaultPort ELSE t.port
             e == [address |-> address, port |-> portOf]
  <2>1. t.address \in DOMAIN AddressOf /\ (t.port = NoPort \/ ValidPort(t.port))
    OBVIOUS
  <2> HIDE DEF t
  <2>2. address \in Range(AddressOf)
    BY <2>1, Zenon DEF Range
  <2>3. ValidPort(DefaultPort)
    BY DefaultIsValid
  <2>4. ValidPort(portOf)
    BY <2>1, <2>3
  <2>5. Endpoint(t) = e
    BY Zenon DEF Endpoint
  <2> HIDE DEF address, portOf
  <2>6. e.address = address /\ e.port = portOf
    OBVIOUS
  <2>7. e = [address |-> e.address, port |-> e.port]
    BY <2>6, Zenon
  <2> HIDE DEF e
  <2>8. IsEndpoint(e)
    BY <2>2, <2>4, <2>6, <2>7, Zenon DEF IsEndpoint
  <2> QED
    BY <2>5, <2>8, Zenon DEF t
<1>2. Endpoints(a) = {Endpoint(a[k]) : k \in DOMAIN a}
  BY Zenon DEF Endpoints
<1>3. IsFiniteSet(Endpoints(a))
  <2> DEFINE f == [k \in DOMAIN a |-> Endpoint(a[k])]
  <2>1. DOMAIN f = 1 .. n /\ \A k \in DOMAIN a : f[k] = Endpoint(a[k])
    OBVIOUS
  <2> HIDE DEF f
  <2>2. Endpoints(a) = {f[k] : k \in DOMAIN f}
    BY <1>2, <2>1
  <2> QED
    BY <2>1, <2>2, SeqFinite
<1> QED
  BY <1>1, <1>2, <1>3

LEMMA PrefixesWritable ==
  ASSUME NEW c, NEW n \in Nat, DOMAIN c = 1 .. n, ToSet(c) \subseteq DOMAIN PrefixOf
  PROVE  /\ {PrefixOf[p] : p \in ToSet(c)} \subseteq Range(PrefixOf)
         /\ IsFiniteSet({PrefixOf[p] : p \in ToSet(c)})
<1> DEFINE f == [k \in DOMAIN c |-> PrefixOf[c[k]]]
<1>1. ToSet(c) = {c[k] : k \in DOMAIN c}
  BY Zenon DEF ToSet
<1>2. DOMAIN f = 1 .. n /\ \A k \in DOMAIN c : f[k] = PrefixOf[c[k]]
  OBVIOUS
<1> HIDE DEF f
<1>3. {PrefixOf[p] : p \in ToSet(c)} = {f[k] : k \in DOMAIN f}
  BY <1>1, <1>2
<1>4. {PrefixOf[p] : p \in ToSet(c)} \subseteq Range(PrefixOf)
  BY DEF Range
<1>5. IsFiniteSet({f[k] : k \in DOMAIN f})
  BY <1>2, SeqFinite
<1> QED
  BY <1>3, <1>4, <1>5

ServiceOf(addresses, keyDirectory, allowedClients) ==
  [addresses |-> addresses, keyDirectory |-> keyDirectory, allowedClients |-> allowedClients]

\* What WithService does to each part.
LEMMA ServiceWith ==
  ASSUME NEW a, NEW k, NEW c, NEW setting \in ServiceText, NEW v
  PROVE  /\ Is("addresses", setting) /\ v = Endpoints(setting.addresses) =>
              WithService(ServiceOf(a, k, c), setting) = ServiceOf(v, k, c)
         /\ Is("keyDirectory", setting) /\ v = setting.keyDirectory =>
              WithService(ServiceOf(a, k, c), setting) = ServiceOf(a, v, c)
         /\ Is("allowedClients", setting) /\ v = {PrefixOf[p] : p \in ToSet(setting.allowedClients)} =>
              WithService(ServiceOf(a, k, c), setting) = ServiceOf(a, k, v)
  BY ServiceTextIs DEF WithService, ServiceOf

LEMMA WritableIs ==
  ASSUME NEW a, NEW k, NEW c
  PROVE  Writable(ServiceOf(a, k, c)) <=>
           /\ IsFiniteSet(a) /\ IsFiniteSet(c)
           /\ \A e \in a : IsEndpoint(e)
           /\ c \subseteq Range(PrefixOf)
<1> DEFINE s == ServiceOf(a, k, c)
<1>0. s.addresses = a /\ s.keyDirectory = k /\ s.allowedClients = c
  BY DEF ServiceOf
<1>1. s = [addresses |-> s.addresses, keyDirectory |-> s.keyDirectory,
           allowedClients |-> s.allowedClients]
  <2>1. s = [addresses |-> a, keyDirectory |-> k, allowedClients |-> c]
    BY Zenon DEF ServiceOf
  <2> HIDE DEF s
  <2> QED
    BY <1>0, <2>1, Zenon
<1> HIDE DEF s
<1>2. Writable(s) <=>
        /\ IsFiniteSet(a) /\ IsFiniteSet(c)
        /\ \A e \in a : IsEndpoint(e)
        /\ c \subseteq Range(PrefixOf)
  BY <1>0, <1>1, Zenon DEF Writable
<1> QED
  BY <1>2 DEF s

WithDirectory(s, keyDirectory) == [s EXCEPT !.keyDirectory = keyDirectory]

LEMMA NewIsWritable == Writable(NewService) /\ Writable(Cleared.service)
<1>1. ASSUME NEW a, NEW k, NEW c, NEW d
      PROVE  WithDirectory(ServiceOf(a, k, c), d) = ServiceOf(a, d, c)
  BY DEF WithDirectory, ServiceOf
<1>2. NewService = ServiceOf({}, "", {})
  BY Zenon DEF NewService, ServiceOf
<1>3. Cleared.service = WithDirectory(NewService, "/usr/local/etc/mctallyd")
  <2> DEFINE new == WithDirectory(NewService, "/usr/local/etc/mctallyd")
  <2>1. Cleared = [runService |-> FALSE, service |-> new, facility |-> "daemon",
                   level |-> "info", logLocations |-> FALSE]
    BY Zenon DEF Cleared, WithDirectory
  <2> HIDE DEF new
  <2>2. Cleared.service = new
    BY <2>1
  <2> QED
    BY <2>2 DEF new
<1>4. Cleared.service = ServiceOf({}, "/usr/local/etc/mctallyd", {})
  BY <1>1, <1>2, <1>3, Zenon
<1> QED
  BY <1>2, <1>4, WritableIs, FS_EmptySet

\* A valid setting leaves a ServiceConfig writable.
LEMMA WithServiceWritable ==
  ASSUME NEW s, Writable(s), NEW setting \in ServiceText, Valid(setting)
  PROVE  Writable(WithService(s, setting))
<1> DEFINE addresses == s.addresses
           directory == s.keyDirectory
           clients == s.allowedClients
<1>1. s = ServiceOf(addresses, directory, clients)
  BY Zenon DEF Writable, ServiceOf
<1>2. /\ IsFiniteSet(addresses) /\ IsFiniteSet(clients)
      /\ \A e \in addresses : IsEndpoint(e)
      /\ clients \subseteq Range(PrefixOf)
  BY Zenon DEF Writable
<1> HIDE DEF addresses, directory, clients
<1>3. CASE Is("addresses", setting)
  <2> DEFINE a == setting.addresses
  <2>1. Len(a) \in Nat /\ DOMAIN a = 1 .. Len(a)
    BY <1>3 DEF ServiceText, Is
  <2>2. \A k \in DOMAIN a : /\ a[k].address \in DOMAIN AddressOf
                            /\ a[k].port = NoPort \/ ValidPort(a[k].port)
    BY <1>3, Zenon DEF Valid
  <2> HIDE DEF a
  <2>3. (\A e \in Endpoints(a) : IsEndpoint(e)) /\ IsFiniteSet(Endpoints(a))
    BY <2>1, <2>2, EndpointsWritable
  <2>4. WithService(s, setting) = ServiceOf(Endpoints(a), directory, clients)
    <3> DEFINE v == Endpoints(setting.addresses)
    <3>1. v = Endpoints(setting.addresses)
      OBVIOUS
    <3> HIDE DEF v
    <3>2. WithService(ServiceOf(addresses, directory, clients), setting) =
            ServiceOf(v, directory, clients)
      BY <1>3, <3>1, ServiceWith
    <3> QED
      BY <1>1, <3>1, <3>2, Zenon DEF a
  <2> QED
    BY <1>2, <2>3, <2>4, WritableIs
<1>4. CASE Is("keyDirectory", setting)
  <2> DEFINE v == setting.keyDirectory
  <2>0. v = setting.keyDirectory
    OBVIOUS
  <2> HIDE DEF v
  <2>1. WithService(s, setting) = ServiceOf(addresses, v, clients)
    BY <1>1, <1>4, <2>0, ServiceWith
  <2> QED
    BY <1>2, <2>1, WritableIs
<1>5. CASE Is("allowedClients", setting)
  <2> DEFINE c == setting.allowedClients
             prefixes == {PrefixOf[p] : p \in ToSet(c)}
  <2>1. /\ Len(c) \in Nat /\ DOMAIN c = 1 .. Len(c)
    BY <1>5 DEF ServiceText, Is
  <2>2. ToSet(c) \subseteq DOMAIN PrefixOf
    BY <1>5, Zenon DEF Valid
  <2> HIDE DEF c
  <2>3. prefixes \subseteq Range(PrefixOf) /\ IsFiniteSet(prefixes)
    BY <2>1, <2>2, PrefixesWritable
  <2>4. WithService(s, setting) = ServiceOf(addresses, directory, prefixes)
    BY <1>1, <1>5, ServiceWith DEF c
  <2> HIDE DEF prefixes
  <2> QED
    BY <1>2, <2>3, <2>4, WritableIs
<1> QED
  BY <1>3, <1>4, <1>5, ServiceTextIs

LEMMA ConfigFields ==
  ASSUME NEW run, NEW ofService, NEW facility, NEW level, NEW locations,
         NEW c, c = ConfigOf(run, ofService, facility, level, locations)
  PROVE  /\ c.runService = run /\ c.service = ofService /\ c.facility = facility
         /\ c.level = level /\ c.logLocations = locations
  BY DEF ConfigOf

\* The two wildcards.
LEMMA WildcardsWritable ==
  LET wild == {[address |-> a, port |-> DefaultPort] : a \in AnyAddresses}
  IN (\A e \in wild : IsEndpoint(e)) /\ IsFiniteSet(wild) /\ wild # {}
<1> DEFINE six == AddressOf["in6addr_any"]
           four == AddressOf["inaddr_any"]
           End(a) == [address |-> a, port |-> DefaultPort]
           wild == {End(a) : a \in AnyAddresses}
<1>1. six \in Range(AddressOf) /\ four \in Range(AddressOf) /\ AnyAddresses = {six, four}
  BY AnyAssumption DEF Range, AnyAddresses
<1> HIDE DEF six, four
<1>2. \A a \in {six, four} : IsEndpoint(End(a))
  <2> SUFFICES ASSUME NEW a \in {six, four} PROVE IsEndpoint(End(a))
    OBVIOUS
  <2>1. End(a).address = a /\ End(a).port = DefaultPort
    OBVIOUS
  <2>2. End(a) = [address |-> End(a).address, port |-> End(a).port]
    BY <2>1, Zenon
  <2> HIDE DEF End
  <2> QED
    BY <1>1, <2>1, <2>2, DefaultIsValid DEF IsEndpoint
<1> HIDE DEF End
<1>3. wild = {End(six)} \cup {End(four)}
  BY <1>1
<1>4. IsFiniteSet(wild)
  <2>1. \A e, f : IsFiniteSet({e} \cup {f})
    BY FS_Singleton, FS_AddElement
  <2> QED
    BY <1>3, <2>1, Zenon
<1>5. (\A e \in wild : IsEndpoint(e)) /\ IsFiniteSet(wild) /\ wild # {}
  BY <1>2, <1>3, <1>4
<1> QED
  BY <1>5, Zenon DEF End

LEMMA SaidIs ==
  ASSUME NEW f, NEW end
  PROVE  \E run, facility, level, locations \in {RunSaid(f, end), LocationsSaid(f, end),
              SyslogSaid(f, end, "facility", "daemon"), SyslogSaid(f, end, "level", "info")} :
           Said(f, end) = ConfigOf(run, Said(f, end).service, facility, level, locations)
  BY SaidParts, ConfigFields

LEMMA SyslogKeepsService ==
  ASSUME NEW run, NEW ofService, NEW facility, NEW level, NEW locations,
         NEW c, c = ConfigOf(run, ofService, facility, level, locations), NEW setting \in SyslogText
  PROVE  WithSyslog(c, setting).service = ofService
<1> DEFINE d == WithSyslog(c, setting)
<1>1. c.service = ofService /\ "service" \in DOMAIN c
  BY DEF ConfigOf
<1>2. /\ Is("facility", setting) => d = [c EXCEPT !.facility = setting.facility]
      /\ Is("level", setting) => d = [c EXCEPT !.level = setting.level]
      /\ Is("logLocations", setting) =>
           d = [c EXCEPT !.logLocations = c.logLocations \/ setting.logLocations \in YesTexts]
  BY SyslogTextIs DEF WithSyslog
<1> HIDE DEF d
<1>3. d.service = ofService
  BY <1>1, <1>2, SyslogTextIs
<1> QED
  BY <1>3 DEF d

\* What Accept does to a Config without an address.
WithAddresses(c, addresses) == [c EXCEPT !.service.addresses = addresses]

LEMMA ConfigWithAddresses ==
  ASSUME NEW run, NEW facility, NEW level, NEW locations, NEW s, NEW new,
         s = ServiceOf(s.addresses, s.keyDirectory, s.allowedClients)
  PROVE  WithAddresses(ConfigOf(run, s, facility, level, locations), new) =
           ConfigOf(run, ServiceOf(new, s.keyDirectory, s.allowedClients), facility, level, locations)
<1> DEFINE then == [s EXCEPT !.addresses = new]
           c == ConfigOf(run, s, facility, level, locations)
           d == [c EXCEPT !.service = then]
<1>1. then = ServiceOf(new, s.keyDirectory, s.allowedClients)
  <2> DEFINE k == s.keyDirectory
             a == s.allowedClients
             old == s.addresses
  <2>1. s = ServiceOf(old, k, a)
    OBVIOUS
  <2> HIDE DEF k, a, old
  <2>2. then = ServiceOf(new, k, a)
    BY <2>1 DEF ServiceOf
  <2> QED
    BY <2>2 DEF k, a
<1>2. WithAddresses(c, new) = d
  <2>1. c.service = s
    BY ConfigFields
  <2> HIDE DEF c
  <2> QED
    BY <2>1 DEF WithAddresses
<1> HIDE DEF then
<1>3. /\ DOMAIN d = {"runService", "service", "facility", "level", "logLocations"}
      /\ d.runService = run /\ d.service = then /\ d.facility = facility
      /\ d.level = level /\ d.logLocations = locations
  BY DEF ConfigOf
<1>4. d = [k \in DOMAIN d |-> d[k]]
  OBVIOUS
<1> HIDE DEF d
<1>5. d = ConfigOf(run, then, facility, level, locations)
  BY <1>3, <1>4 DEF ConfigOf
<1> QED
  BY <1>1, <1>2, <1>5 DEF c

LEMMA InitWInv == InitConfig => WInv
  BY InitCInv, NewIsWritable DEF InitConfig, WInv

LEMMA ServiceSettingWInv == WInv /\ ServiceSetting => WInv'
<1> SUFFICES ASSUME WInv, ServiceSetting PROVE WInv'
  OBVIOUS
<1>1. /\ rc = "parsing" /\ i <= Len(file) /\ file[i].kind = "service"
      /\ j <= Len(file[i].settings) /\ Valid(file[i].settings[j])
      /\ config' = config /\ rc' = rc
      /\ service' = WithService(IF j = 1 THEN NewService ELSE service, file[i].settings[j])
  BY DEF ServiceSetting, AtSetting
<1>2. file[i].settings[j] \in ServiceText
  <2>1. /\ file \in Files /\ i \in 1 .. Len(file) /\ j \in 1 .. Len(file[i].settings)
    BY <1>1, SettingPassed DEF WInv, CInv, ValidSoFar
  <2>2. file[i].settings \in Seq(ServiceText)
    BY <1>1, <2>1, FilesAre
  <2> QED
    BY <2>1, <2>2
<1>3. Writable(IF j = 1 THEN NewService ELSE service)
  BY NewIsWritable DEF WInv
<1>4. Writable(service')
  BY <1>1, <1>2, <1>3, WithServiceWritable
<1>5. CInv'
  BY ServiceSettingKeeps DEF WInv
<1> QED
  BY <1>1, <1>4, <1>5 DEF WInv, Writable

LEMMA SyslogSettingWInv == WInv /\ SyslogSetting => WInv'
<1> SUFFICES ASSUME WInv, SyslogSetting PROVE WInv'
  OBVIOUS
<1>1. /\ rc = "parsing" /\ i <= Len(file) /\ file[i].kind = "syslog"
      /\ j <= Len(file[i].settings)
      /\ service' = service /\ rc' = rc
      /\ config' = WithSyslog(config, file[i].settings[j])
  BY DEF SyslogSetting, AtSetting
<1>2. file[i].settings[j] \in SyslogText
  <2>1. /\ file \in Files /\ i \in 1 .. Len(file) /\ j \in 1 .. Len(file[i].settings)
    BY <1>1, FilesAre DEF WInv, CInv, ValidSoFar
  <2>2. file[i].settings \in Seq(SyslogText)
    BY <1>1, <2>1, FilesAre
  <2> QED
    BY <2>1, <2>2
<1>3. \E run, facility, level, locations :
        config = ConfigOf(run, config.service, facility, level, locations)
  <2>1. config = Said(file, <<i, j>>)
    BY <1>1 DEF WInv, CInv, GatheredSoFar
  <2> QED
    BY <2>1, SaidIs
<1>4. config'.service = config.service
  BY <1>1, <1>2, <1>3, SyslogKeepsService
<1>5. CInv'
  BY SyslogSettingKeeps DEF WInv
<1>6. Writable(config'.service)
  BY <1>4 DEF WInv
<1> QED
  BY <1>1, <1>5, <1>6 DEF WInv, Writable

LEMMA StanzaEndWInv == WInv /\ (Service \/ Syslog) => WInv'
<1> SUFFICES ASSUME WInv, Service \/ Syslog PROVE WInv'
  OBVIOUS
<1>1. CInv'
  BY StanzaEndKeeps DEF WInv
<1>2. rc = "parsing" /\ rc' = rc /\ service' = service
  BY DEF Service, Syslog, AtEnd
<1>3. config'.service \in {service, config.service}
  <2>1. CASE Service
    <3>1. config' = Ended(config, TRUE, service)
      BY <2>1, Zenon DEF Service, Ended
    <3>2. PICK run, facility, level, locations :
            config = ConfigOf(run, config.service, facility, level, locations)
      <4>1. config = Said(file, <<i, j>>)
        BY <1>2 DEF WInv, CInv, GatheredSoFar
      <4> QED
        BY <4>1, SaidIs
    <3>3. ASSUME NEW yes PROVE Ended(config, yes, service).service = service
      <4> DEFINE before == config.service
      <4>1. config = ConfigOf(run, before, facility, level, locations)
        BY <3>2
      <4> HIDE DEF before
      <4>2. Ended(ConfigOf(run, before, facility, level, locations), yes, service) =
              ConfigOf(yes, service, facility, level, locations)
        BY ConfigEnded
      <4> QED
        BY <4>1, <4>2, ConfigFields
    <3> QED
      BY <3>1, <3>3, Zenon
  <2>2. CASE Syslog
    BY <2>2 DEF Syslog
  <2> QED
    BY <2>1, <2>2
<1>4. Writable(config'.service) /\ Writable(service')
  BY <1>2, <1>3 DEF WInv
<1> QED
  BY <1>1, <1>2, <1>4 DEF WInv, Writable

LEMMA AcceptWInv == WInv /\ Accept => WInv'
<1> SUFFICES ASSUME WInv, Accept PROVE WInv'
  OBVIOUS
<1> DEFINE wild == {[address |-> a, port |-> DefaultPort] : a \in AnyAddresses}
<1>1. CInv'
  BY AcceptKeeps DEF WInv
<1>2. /\ rc = "parsing" /\ service' = service
      /\ config.service.addresses # {} => config' = config
      /\ config.service.addresses = {} => config' = WithAddresses(config, wild)
  BY Zenon DEF Accept, WithAddresses
<1>3. CASE config.service.addresses # {}
  <2>1. config' = config
    BY <1>2, <1>3
  <2> QED
    BY <1>1, <1>2, <1>3, <2>1 DEF WInv, Writable
<1>4. CASE config.service.addresses = {}
  <2> DEFINE directory == config.service.keyDirectory
             clients == config.service.allowedClients
             new == ServiceOf(wild, directory, clients)
  <2>1. /\ config.service = ServiceOf(config.service.addresses, directory, clients)
        /\ IsFiniteSet(clients) /\ clients \subseteq Range(PrefixOf)
    BY Zenon DEF WInv, Writable, ServiceOf
  <2>2. PICK run, facility, level, locations :
          config = ConfigOf(run, config.service, facility, level, locations)
    <3>1. config = Said(file, <<i, j>>)
      BY <1>2 DEF WInv, CInv, GatheredSoFar
    <3> QED
      BY <3>1, SaidIs
  <2>3. WithAddresses(ConfigOf(run, config.service, facility, level, locations), wild) =
          ConfigOf(run, new, facility, level, locations)
    BY <2>1, ConfigWithAddresses
  <2>4. config' = ConfigOf(run, new, facility, level, locations)
    BY <1>2, <1>4, <2>2, <2>3, Zenon
  <2>5. (\A e \in wild : IsEndpoint(e)) /\ IsFiniteSet(wild) /\ wild # {}
    BY WildcardsWritable
  <2> HIDE DEF wild, directory, clients, new
  <2>6. config'.service = new
    BY <2>4, ConfigFields
  <2>7. Writable(new) /\ new.addresses = wild
    <3>1. new.addresses = wild
      BY DEF new, ServiceOf
    <3> QED
      BY <2>1, <2>5, <3>1, WritableIs DEF new
  <2>8. Writable(config'.service) /\ config'.service.addresses # {}
    BY <2>5, <2>6, <2>7
  <2>9. Writable(service')
    BY <1>2 DEF WInv
  <2> QED
    BY <1>1, <2>8, <2>9 DEF WInv, Writable
<1> QED
  BY <1>3, <1>4

LEMMA NextWInv == WInv /\ [Next]_<<configVars, lineVars>> => WInv'
<1> SUFFICES ASSUME WInv, [Next]_<<configVars, lineVars>> PROVE WInv'
  OBVIOUS
<1>1. CASE Error
  <2>1. CInv' /\ service' = service /\ config' = config /\ rc' = "false"
    BY <1>1, ErrorKeeps DEF WInv, Error
  <2> QED
    BY <2>1 DEF WInv, Writable
<1>2. CASE Parse
  BY <1>1, <1>2, ServiceSettingWInv, SyslogSettingWInv, StanzaEndWInv, AcceptWInv DEF Parse
<1>3. CASE UNCHANGED configVars
  <2>1. CInv'
    BY <1>3, NextCInv DEF WInv
  <2> QED
    BY <1>3, <2>1 DEF configVars, WInv, Writable
<1> QED
  BY <1>2, <1>3 DEF Next, ReadsLine, Terminated

-----------------------------------------------------------------------------
(* What is written, and what it means. *)

\* SetToSeq, and the values of both maps of texts.
LEMMA SetToSeqIs ==
  ASSUME NEW S, IsFiniteSet(S)
  PROVE  /\ Cardinality(S) \in Nat
         /\ DOMAIN SetToSeq(S) = 1 .. Cardinality(S)
         /\ {SetToSeq(S)[k] : k \in DOMAIN SetToSeq(S)} = S
         /\ SetToSeq(S) = <<>> <=> S = {}
<1> DEFINE n == Cardinality(S)
           s == SetToSeq(S)
<1>1. n \in Nat /\ ExistsBijection(1 .. n, S)
  BY FS_CardinalityType
<1>2. \E f \in [1 .. n -> S] : IsInjective(f)
  BY <1>1 DEF ExistsBijection, Bijection, Injection
<1>3. s \in [1 .. n -> S] /\ IsInjective(s)
  BY <1>2, Zenon DEF SetToSeq
<1>4. IsFiniteSet(1 .. n) /\ Cardinality(1 .. n) = n
  BY <1>1, FS_Interval
<1>5. s \in Injection(1 .. n, S)
  BY <1>3, Zenon DEF Injection
<1>6. s \in Surjection(1 .. n, S)
  BY <1>4, <1>5, FS_Injection
<1>7. DOMAIN s = 1 .. n /\ {s[k] : k \in DOMAIN s} = S
  BY <1>3, <1>6 DEF Surjection
<1>8. s = <<>> <=> S = {}
  <2>1. S = {} <=> n = 0
    BY FS_EmptySet
  <2>2. s = <<>> <=> n = 0
    <3> HIDE DEF n, s
    <3> QED
      BY <1>1, <1>3
  <2> QED
    BY <2>1, <2>2
<1> QED
  BY <1>1, <1>7, <1>8

LEMMA TextOfIs ==
  ASSUME NEW f, NEW v \in Range(f)
  PROVE  TextOf(f, v) \in DOMAIN f /\ f[TextOf(f, v)] = v
<1>1. \E t \in DOMAIN f : f[t] = v
  BY DEF Range
<1> QED
  BY <1>1, Zenon DEF TextOf

\* A file that operator<< writes, as far as its number of stanzas goes.
IsNumbered(w) == Len(w) \in Nat /\ DOMAIN w = 1 .. Len(w)

\* Where a stanza of any file gives a keyword a value, by the end of the file.
LEMMA GivenByStanza ==
  ASSUME NEW w, IsNumbered(w),
         NEW m \in DOMAIN w, NEW settings, settings = w[m].settings,
         NEW keyword
  PROVE  \A p : p \in Given(w, {m}, keyword, <<Len(w) + 1, 1>>) <=>
                \E l \in DOMAIN settings : p = <<m, l>> /\ Is(keyword, settings[l])
<1>1. ASSUME NEW l \in DOMAIN settings PROVE <<m, l>> \in Places(w)
  BY DEF Places, IsNumbered
<1>2. ASSUME NEW p \in Places(w), p[1] = m PROVE \E l \in DOMAIN settings : p = <<m, l>>
  <2>1. PICK x \in DOMAIN w : p \in {x} \X DOMAIN w[x].settings
    BY DEF Places, IsNumbered
  <2>2. p = <<x, p[2]>> /\ p[2] \in DOMAIN w[x].settings
    BY <2>1
  <2>3. x = m
    BY <1>2, <2>2
  <2> QED
    BY <2>2, <2>3
<1>3. ASSUME NEW l \in DOMAIN settings
      PROVE  /\ Precedes(<<m, l>>, <<Len(w) + 1, 1>>)
             /\ SettingAt(w, <<m, l>>) = settings[l]
             /\ <<m, l>>[1] \in {m}
  BY DEF Precedes, SettingAt, IsNumbered
<1>4. ASSUME NEW p \in Given(w, {m}, keyword, <<Len(w) + 1, 1>>)
      PROVE  \E l \in DOMAIN settings : p = <<m, l>> /\ Is(keyword, settings[l])
  <2>1. p \in Places(w) /\ p[1] = m /\ Is(keyword, SettingAt(w, p))
    BY DEF Given
  <2> QED
    BY <1>2, <1>3, <2>1
<1>5. ASSUME NEW l \in DOMAIN settings, Is(keyword, settings[l])
      PROVE  <<m, l>> \in Given(w, {m}, keyword, <<Len(w) + 1, 1>>)
  BY <1>1, <1>3, <1>5, Zenon DEF Given
<1> QED
  BY <1>4, <1>5

\* One that gives a value once, or never.
OnlyAt(settings, l, keyword) ==
  /\ l \in DOMAIN settings
  /\ Is(keyword, settings[l])
  /\ \A k \in DOMAIN settings \ {l} : ~Is(keyword, settings[k])

Nowhere(settings, keyword) == \A k \in DOMAIN settings : ~Is(keyword, settings[k])

LastIn(w, m, keyword, default) ==
  LastOf(w, Given(w, {m}, keyword, <<Len(w) + 1, 1>>), keyword, default)

AsGiven(w, m, settings) ==
  \A keyword :
    /\ \A l : OnlyAt(settings, l, keyword) =>
         /\ Given(w, {m}, keyword, <<Len(w) + 1, 1>>) = {<<m, l>>}
         /\ \A default : LastIn(w, m, keyword, default) = settings[l][keyword]
    /\ Nowhere(settings, keyword) =>
         \A default : LastIn(w, m, keyword, default) = default

LEMMA GivenOnce ==
  ASSUME NEW w, IsNumbered(w),
         NEW m \in DOMAIN w, NEW settings, settings = w[m].settings
  PROVE  AsGiven(w, m, settings)
<1> SUFFICES ASSUME NEW keyword
             PROVE  /\ \A l : OnlyAt(settings, l, keyword) =>
                         /\ Given(w, {m}, keyword, <<Len(w) + 1, 1>>) = {<<m, l>>}
                         /\ \A default : LastIn(w, m, keyword, default) = settings[l][keyword]
                    /\ Nowhere(settings, keyword) =>
                         \A default : LastIn(w, m, keyword, default) = default
  BY Zenon DEF AsGiven
<1> DEFINE given == Given(w, {m}, keyword, <<Len(w) + 1, 1>>)
<1>1. \A q : q \in given <=> \E k \in DOMAIN settings : q = <<m, k>> /\ Is(keyword, settings[k])
  BY GivenByStanza
<1>2. \A default : LastIn(w, m, keyword, default) = LastOf(w, given, keyword, default)
  BY Zenon DEF LastIn
<1> HIDE DEF given
<1>3. ASSUME NEW l, OnlyAt(settings, l, keyword)
      PROVE  /\ given = {<<m, l>>}
             /\ \A default : LastIn(w, m, keyword, default) = settings[l][keyword]
  <2> DEFINE p == <<m, l>>
  <2>1. given = {p}
    BY <1>1, <1>3 DEF OnlyAt
  <2>2. SettingAt(w, p) = settings[l]
    BY DEF SettingAt
  <2> HIDE DEF p
  <2>3. (CHOOSE q \in {p} : \A r \in {p} \ {q} : Precedes(r, q)) = p
    OBVIOUS
  <2>4. \A default : LastOf(w, {p}, keyword, default) = SettingAt(w, p)[keyword]
    BY <2>3 DEF LastOf
  <2>5. \A default : LastIn(w, m, keyword, default) = settings[l][keyword]
    BY <1>2, <2>1, <2>2, <2>4
  <2> QED
    BY <2>1, <2>5 DEF p
<1>4. ASSUME Nowhere(settings, keyword), NEW default
      PROVE  LastIn(w, m, keyword, default) = default
  <2>1. given = {}
    BY <1>1, <1>4 DEF Nowhere
  <2> QED
    BY <1>2, <2>1, LastOfNone
<1> QED
  BY <1>3, <1>4, Zenon DEF given

\* A tuple is a function from its places, and one can be put after another.
LEMMA OneTuple ==
  ASSUME NEW A
  PROVE  DOMAIN <<A>> = 1 .. 1 /\ <<A>>[1] = A
  OBVIOUS

LEMMA TwoTuple ==
  ASSUME NEW A, NEW B
  PROVE  DOMAIN <<A, B>> = 1 .. 2 /\ <<A, B>>[1] = A /\ <<A, B>>[2] = B
  OBVIOUS

LEMMA ThreeTuple ==
  ASSUME NEW A, NEW B, NEW C
  PROVE  /\ DOMAIN <<A, B, C>> = 1 .. 3
         /\ <<A, B, C>>[1] = A /\ <<A, B, C>>[2] = B /\ <<A, B, C>>[3] = C
  OBVIOUS

LEMMA Joined ==
  ASSUME NEW S, NEW s \in Seq(S), NEW t \in Seq(S), Len(t) = 1,
         NEW u \in Seq(S), Len(u) = Len(s) + 1,
         \A k \in 1 .. Len(s) : u[k] = s[k], u[Len(u)] = t[1]
  PROVE  s \o t = u
<1> DEFINE v == s \o t
<1>1. v \in Seq(S) /\ Len(v) = Len(s) + Len(t)
  BY ConcatProperties, Zenon
<1>2. \A k \in 1 .. Len(s) + Len(t) : v[k] = IF k <= Len(s) THEN s[k] ELSE t[k - Len(s)]
  BY ConcatProperties
<1>3. Len(s) \in Nat
  OBVIOUS
<1> HIDE DEF v
<1>4. \A k \in 1 .. Len(v) : v[k] = u[k]
  BY <1>1, <1>2, <1>3
<1>5. v = u
  BY <1>1, <1>4, SeqEqual
<1> QED
  BY <1>5 DEF v

LEMMA JoinedTuples ==
  ASSUME NEW A, NEW B, NEW C
  PROVE  /\ <<A>> \o <<>> \o <<>> = <<A>>
         /\ <<A>> \o <<>> \o <<C>> = <<A, C>>
         /\ <<A>> \o <<B>> \o <<>> = <<A, B>>
         /\ <<A>> \o <<B>> \o <<C>> = <<A, B, C>>
<1> DEFINE S == {A, B, C}
           a == <<A>>
           b == <<B>>
           c == <<C>>
           ab == <<A, B>>
           ac == <<A, C>>
           abc == <<A, B, C>>
<1>1. /\ a \in Seq(S) /\ Len(a) = 1 /\ a[1] = A
      /\ b \in Seq(S) /\ Len(b) = 1 /\ b[1] = B
      /\ c \in Seq(S) /\ Len(c) = 1 /\ c[1] = C
      /\ ab \in Seq(S) /\ Len(ab) = 2 /\ ab[1] = A /\ ab[2] = B
      /\ ac \in Seq(S) /\ Len(ac) = 2 /\ ac[1] = A /\ ac[2] = C
      /\ abc \in Seq(S) /\ Len(abc) = 3 /\ abc[1] = A /\ abc[2] = B /\ abc[3] = C
  OBVIOUS
<1> HIDE DEF S, a, b, c, ab, ac, abc
<1>2. a \o b = ab
  <2>1. \A k \in 1 .. Len(a) : ab[k] = a[k]
    BY <1>1
  <2>2. Len(ab) = Len(a) + 1 /\ ab[Len(ab)] = b[1] /\ Len(b) = 1
    BY <1>1
  <2> QED
    BY <1>1, <2>1, <2>2, Joined
<1>3. a \o c = ac
  <2>1. \A k \in 1 .. Len(a) : ac[k] = a[k]
    BY <1>1
  <2>2. Len(ac) = Len(a) + 1 /\ ac[Len(ac)] = c[1] /\ Len(c) = 1
    BY <1>1
  <2> QED
    BY <1>1, <2>1, <2>2, Joined
<1>4. ab \o c = abc
  <2>1. \A k \in 1 .. Len(ab) : abc[k] = ab[k]
    BY <1>1
  <2>2. Len(abc) = Len(ab) + 1 /\ abc[Len(abc)] = c[1] /\ Len(c) = 1
    BY <1>1
  <2> QED
    BY <1>1, <2>1, <2>2, Joined
<1>5. a \o <<>> = a /\ ab \o <<>> = ab
  BY <1>1, ConcatEmptySeq
<1> QED
  BY <1>2, <1>3, <1>4, <1>5, Zenon DEF a, b, c, ab, ac, abc

\* The settings of a service stanza that gives addresses first, and a directory
\* and clients if there are any.
IsWritten(settings, a, k, c) ==
  LET addresses == [addresses |-> a]
      directory == [keyDirectory |-> k]
      clients == [allowedClients |-> c]
  IN \/ k = "" /\ c = <<>> /\ settings = <<addresses>>
     \/ c = <<>> /\ settings = <<addresses, directory>>
     \/ k = "" /\ c # <<>> /\ settings = <<addresses, clients>>
     \/ c # <<>> /\ settings = <<addresses, directory, clients>>

LEMMA OneKeyword ==
  ASSUME NEW v
  PROVE  /\ \A keyword : Is(keyword, [addresses |-> v]) <=> keyword = "addresses"
         /\ \A keyword : Is(keyword, [keyDirectory |-> v]) <=> keyword = "keyDirectory"
         /\ \A keyword : Is(keyword, [allowedClients |-> v]) <=> keyword = "allowedClients"
         /\ \A keyword : Is(keyword, [facility |-> v]) <=> keyword = "facility"
         /\ \A keyword : Is(keyword, [level |-> v]) <=> keyword = "level"
         /\ \A keyword : Is(keyword, [logLocations |-> v]) <=> keyword = "logLocations"
         /\ [addresses |-> v]["addresses"] = v /\ [keyDirectory |-> v]["keyDirectory"] = v
         /\ [allowedClients |-> v]["allowedClients"] = v /\ [facility |-> v]["facility"] = v
         /\ [level |-> v]["level"] = v /\ [logLocations |-> v]["logLocations"] = v
  BY DEF Is

SaysService(w, m, a, k, c) ==
  ServiceSaid(w, {m}, <<Len(w) + 1, 1>>) =
    ServiceOf(Endpoints(a), k, {PrefixOf[p] : p \in ToSet(c)})

LEMMA ServiceSaidOf ==
  ASSUME NEW w, IsNumbered(w), NEW m \in DOMAIN w,
         NEW settings, settings = w[m].settings,
         NEW a, NEW k, NEW c, IsWritten(settings, a, k, c)
  PROVE  SaysService(w, m, a, k, c)
<1> DEFINE last(keyword, default) == LastIn(w, m, keyword, default)
           A == [addresses |-> a]
           K == [keyDirectory |-> k]
           C == [allowedClients |-> c]
<1>1. ASSUME NEW keyword, NEW default
      PROVE  /\ \A l : OnlyAt(settings, l, keyword) =>
                    last(keyword, default) = settings[l][keyword]
             /\ Nowhere(settings, keyword) => last(keyword, default) = default
  <2>1. AsGiven(w, m, settings)
    BY GivenOnce
  <2> QED
    BY <2>1, Zenon DEF AsGiven
<1>2. \/ k = "" /\ c = <<>> /\ settings = <<A>>
      \/ c = <<>> /\ settings = <<A, K>>
      \/ k = "" /\ settings = <<A, C>>
      \/ settings = <<A, K, C>>
  BY Zenon DEF IsWritten
<1>3. /\ \A keyword : Is(keyword, A) <=> keyword = "addresses"
      /\ \A keyword : Is(keyword, K) <=> keyword = "keyDirectory"
      /\ \A keyword : Is(keyword, C) <=> keyword = "allowedClients"
      /\ A["addresses"] = a /\ K["keyDirectory"] = k /\ C["allowedClients"] = c
  BY OneKeyword
<1> HIDE DEF last, A, K, C
<1>4. /\ last("addresses", <<>>) = a
      /\ last("keyDirectory", "") = k
      /\ last("allowedClients", <<>>) = c
  <2>1. CASE k = "" /\ c = <<>> /\ settings = <<A>>
    <3>1. settings = <<A>>
      BY <2>1, Zenon
    <3>2. DOMAIN settings = 1 .. 1
      BY <3>1, OneTuple
    <3>3. settings[1] = A
      BY <3>1, OneTuple
    <3>4. \A x : x \in DOMAIN settings <=> x = 1
      BY <3>2
    <3>5. last("addresses", <<>>) = a
      <4>1. OnlyAt(settings, 1, "addresses")
        BY <1>3, <3>3, <3>4 DEF OnlyAt
      <4>2. last("addresses", <<>>) = settings[1]["addresses"]
        BY <1>1, <4>1, Zenon
      <4> QED
        BY <1>3, <3>3, <4>2
    <3>6. last("keyDirectory", "") = ""
      <4>1. Nowhere(settings, "keyDirectory")
        BY <1>3, <3>3, <3>4 DEF Nowhere
      <4> QED
        BY <1>1, <4>1, Zenon
    <3>7. last("allowedClients", <<>>) = <<>>
      <4>1. Nowhere(settings, "allowedClients")
        BY <1>3, <3>3, <3>4 DEF Nowhere
      <4> QED
        BY <1>1, <4>1, Zenon
    <3> QED
      BY <2>1, <3>5, <3>6, <3>7
  <2>2. CASE c = <<>> /\ settings = <<A, K>>
    <3>1. settings = <<A, K>>
      BY <2>2, Zenon
    <3>2. DOMAIN settings = 1 .. 2
      BY <3>1, TwoTuple
    <3>3. settings[1] = A /\ settings[2] = K
      BY <3>1, TwoTuple
    <3>4. \A x : x \in DOMAIN settings <=> x = 1 \/ x = 2
      BY <3>2
    <3>5. last("addresses", <<>>) = a
      <4>1. OnlyAt(settings, 1, "addresses")
        BY <1>3, <3>3, <3>4 DEF OnlyAt
      <4>2. last("addresses", <<>>) = settings[1]["addresses"]
        BY <1>1, <4>1, Zenon
      <4> QED
        BY <1>3, <3>3, <4>2
    <3>6. last("keyDirectory", "") = k
      <4>1. OnlyAt(settings, 2, "keyDirectory")
        BY <1>3, <3>3, <3>4 DEF OnlyAt
      <4>2. last("keyDirectory", "") = settings[2]["keyDirectory"]
        BY <1>1, <4>1, Zenon
      <4> QED
        BY <1>3, <3>3, <4>2
    <3>7. last("allowedClients", <<>>) = <<>>
      <4>1. Nowhere(settings, "allowedClients")
        BY <1>3, <3>3, <3>4 DEF Nowhere
      <4> QED
        BY <1>1, <4>1, Zenon
    <3> QED
      BY <2>2, <3>5, <3>6, <3>7
  <2>3. CASE k = "" /\ settings = <<A, C>>
    <3>1. settings = <<A, C>>
      BY <2>3, Zenon
    <3>2. DOMAIN settings = 1 .. 2
      BY <3>1, TwoTuple
    <3>3. settings[1] = A /\ settings[2] = C
      BY <3>1, TwoTuple
    <3>4. \A x : x \in DOMAIN settings <=> x = 1 \/ x = 2
      BY <3>2
    <3>5. last("addresses", <<>>) = a
      <4>1. OnlyAt(settings, 1, "addresses")
        BY <1>3, <3>3, <3>4 DEF OnlyAt
      <4>2. last("addresses", <<>>) = settings[1]["addresses"]
        BY <1>1, <4>1, Zenon
      <4> QED
        BY <1>3, <3>3, <4>2
    <3>6. last("keyDirectory", "") = ""
      <4>1. Nowhere(settings, "keyDirectory")
        BY <1>3, <3>3, <3>4 DEF Nowhere
      <4> QED
        BY <1>1, <4>1, Zenon
    <3>7. last("allowedClients", <<>>) = c
      <4>1. OnlyAt(settings, 2, "allowedClients")
        BY <1>3, <3>3, <3>4 DEF OnlyAt
      <4>2. last("allowedClients", <<>>) = settings[2]["allowedClients"]
        BY <1>1, <4>1, Zenon
      <4> QED
        BY <1>3, <3>3, <4>2
    <3> QED
      BY <2>3, <3>5, <3>6, <3>7
  <2>4. CASE settings = <<A, K, C>>
    <3>1. settings = <<A, K, C>>
      BY <2>4, Zenon
    <3>2. DOMAIN settings = 1 .. 3
      BY <3>1, ThreeTuple
    <3>3. settings[1] = A /\ settings[2] = K /\ settings[3] = C
      BY <3>1, ThreeTuple
    <3>4. \A x : x \in DOMAIN settings <=> x = 1 \/ x = 2 \/ x = 3
      BY <3>2
    <3>5. last("addresses", <<>>) = a
      <4>1. OnlyAt(settings, 1, "addresses")
        BY <1>3, <3>3, <3>4 DEF OnlyAt
      <4>2. last("addresses", <<>>) = settings[1]["addresses"]
        BY <1>1, <4>1, Zenon
      <4> QED
        BY <1>3, <3>3, <4>2
    <3>6. last("keyDirectory", "") = k
      <4>1. OnlyAt(settings, 2, "keyDirectory")
        BY <1>3, <3>3, <3>4 DEF OnlyAt
      <4>2. last("keyDirectory", "") = settings[2]["keyDirectory"]
        BY <1>1, <4>1, Zenon
      <4> QED
        BY <1>3, <3>3, <4>2
    <3>7. last("allowedClients", <<>>) = c
      <4>1. OnlyAt(settings, 3, "allowedClients")
        BY <1>3, <3>3, <3>4 DEF OnlyAt
      <4>2. last("allowedClients", <<>>) = settings[3]["allowedClients"]
        BY <1>1, <4>1, Zenon
      <4> QED
        BY <1>3, <3>3, <4>2
    <3> QED
      BY <2>4, <3>5, <3>6, <3>7
  <2> QED
    BY <1>2, <2>1, <2>2, <2>3, <2>4
<1>5. {m} # {}
  OBVIOUS
<1>6. ServiceSaid(w, {m}, <<Len(w) + 1, 1>>) =
        [addresses |-> Endpoints(last("addresses", <<>>)),
         keyDirectory |-> last("keyDirectory", ""),
         allowedClients |-> {PrefixOf[p] : p \in ToSet(last("allowedClients", <<>>))}]
  BY <1>5, Zenon DEF ServiceSaid, LastIn, last
<1> QED
  BY <1>4, <1>6, Zenon DEF ServiceOf, SaysService

\* operator<< writes such settings, which mean the ServiceConfig and are valid.
LEMMA WrittenSettings ==
  ASSUME NEW s, Writable(s), s.addresses # {}
  PROVE  \E a, c : /\ IsWritten(ServiceSettings(s), a, s.keyDirectory, c)
                   /\ Endpoints(a) = s.addresses
                   /\ {PrefixOf[p] : p \in ToSet(c)} = s.allowedClients
                   /\ Valid([addresses |-> a])
                   /\ c # <<>> => Valid([allowedClients |-> c])
<1> DEFINE endpoints == SetToSeq(s.addresses)
           clients == SetToSeq(s.allowedClients)
           directory == s.keyDirectory
           a == [x \in DOMAIN endpoints |->
                  [address |-> TextOf(AddressOf, endpoints[x].address),
                   port |-> endpoints[x].port]]
           c == [x \in DOMAIN clients |-> TextOf(PrefixOf, clients[x])]
<1>1. /\ IsFiniteSet(s.addresses) /\ IsFiniteSet(s.allowedClients)
      /\ \A e \in s.addresses : IsEndpoint(e)
      /\ s.allowedClients \subseteq Range(PrefixOf)
  BY Zenon DEF Writable
<1>2. /\ {endpoints[x] : x \in DOMAIN endpoints} = s.addresses /\ endpoints # <<>>
      /\ {clients[x] : x \in DOMAIN clients} = s.allowedClients
      /\ clients = <<>> <=> s.allowedClients = {}
  BY <1>1, SetToSeqIs
<1>3. clients = <<>> <=> c = <<>>
  <2>1. DOMAIN c = DOMAIN clients /\ (clients = <<>> => c = <<>>)
    OBVIOUS
  <2> HIDE DEF c, clients
  <2> QED
    BY <1>2, <2>1
<1>4. IsWritten(ServiceSettings(s), a, directory, c)
  <2>1. ServiceSettings(s) =
          <<[addresses |-> a]>>
          \o (IF directory = "" THEN <<>> ELSE <<[keyDirectory |-> directory]>>)
          \o (IF clients = <<>> THEN <<>> ELSE <<[allowedClients |-> c]>>)
    BY <1>2, Zenon DEF ServiceSettings
  <2> HIDE DEF a, c, directory, endpoints, clients
  <2> DEFINE A == [addresses |-> a]
             K == [keyDirectory |-> directory]
             C == [allowedClients |-> c]
             all == ServiceSettings(s)
  <2>2. all = <<A>> \o (IF directory = "" THEN <<>> ELSE <<K>>)
                   \o (IF clients = <<>> THEN <<>> ELSE <<C>>)
    BY <2>1
  <2> HIDE DEF A, K, C, all
  <2>3. \/ directory = "" /\ c = <<>> /\ all = <<A>>
        \/ c = <<>> /\ all = <<A, K>>
        \/ directory = "" /\ c # <<>> /\ all = <<A, C>>
        \/ c # <<>> /\ all = <<A, K, C>>
    <3>1. CASE directory = "" /\ clients = <<>>
      BY <1>3, <2>2, <3>1, JoinedTuples, Zenon
    <3>2. CASE directory # "" /\ clients = <<>>
      BY <1>3, <2>2, <3>2, JoinedTuples, Zenon
    <3>3. CASE directory = "" /\ clients # <<>>
      BY <1>3, <2>2, <3>3, JoinedTuples, Zenon
    <3>4. CASE directory # "" /\ clients # <<>>
      BY <1>3, <2>2, <3>4, JoinedTuples, Zenon
    <3> QED
      BY <3>1, <3>2, <3>3, <3>4
  <2> QED
    BY <2>3, Zenon DEF IsWritten, A, K, C, all
<1>5. ASSUME NEW x \in DOMAIN endpoints
      PROVE  /\ Endpoint(a[x]) = endpoints[x]
             /\ a[x].address \in DOMAIN AddressOf /\ ValidPort(a[x].port)
  <2> DEFINE e == endpoints[x]
             text == TextOf(AddressOf, e.address)
             t == [address |-> text, port |-> e.port]
  <2>1. e = [address |-> e.address, port |-> e.port] /\ e.address \in Range(AddressOf)
        /\ ValidPort(e.port)
    BY <1>1, <1>2 DEF IsEndpoint
  <2>2. a[x] = t
    OBVIOUS
  <2> HIDE DEF e, a
  <2>3. text \in DOMAIN AddressOf /\ AddressOf[text] = e.address
    BY <2>1, TextOfIs
  <2>4. e.port # NoPort
    BY <2>1, MaxPortIs DEF ValidPort, NoPort
  <2> HIDE DEF text
  <2>5. t.address = text /\ t.port = e.port
    OBVIOUS
  <2>6. Endpoint(t) = [address |-> AddressOf[t.address], port |-> t.port]
    BY <2>4, <2>5, Zenon DEF Endpoint
  <2>7. Endpoint(t) = e
    BY <2>1, <2>3, <2>5, <2>6, Zenon
  <2> QED
    BY <2>1, <2>2, <2>3, <2>5, <2>7 DEF e
<1>6. ASSUME NEW x \in DOMAIN clients
      PROVE  PrefixOf[c[x]] = clients[x] /\ c[x] \in DOMAIN PrefixOf
  <2>1. clients[x] \in Range(PrefixOf)
    BY <1>1, <1>2
  <2>2. c[x] = TextOf(PrefixOf, clients[x])
    OBVIOUS
  <2> QED
    BY <2>1, <2>2, TextOfIs
<1>7. DOMAIN a = DOMAIN endpoints /\ DOMAIN c = DOMAIN clients
  OBVIOUS
<1>8. ToSet(c) = {c[x] : x \in DOMAIN c}
  BY Zenon DEF ToSet
<1> HIDE DEF a, c, endpoints, clients
<1>9. Endpoints(a) = s.addresses
  BY <1>2, <1>5, <1>7 DEF Endpoints
<1>10. {PrefixOf[p] : p \in ToSet(c)} = s.allowedClients
  BY <1>2, <1>6, <1>7, <1>8
<1>11. Valid([addresses |-> a])
  <2> DEFINE A == [addresses |-> a]
  <2>1. A.addresses = a /\ Is("addresses", A) /\ ~Is("allowedClients", A)
    BY OneKeyword
  <2>2. a # <<>>
    <3>1. DOMAIN endpoints # {}
      BY <1>2
    <3> QED
      BY <1>7, <3>1
  <2> HIDE DEF A
  <2> QED
    BY <1>5, <1>7, <2>1, <2>2 DEF Valid, A
<1>12. ASSUME c # <<>> PROVE Valid([allowedClients |-> c])
  <2> DEFINE C == [allowedClients |-> c]
  <2>1. C.allowedClients = c /\ Is("allowedClients", C) /\ ~Is("addresses", C)
    BY OneKeyword
  <2>2. ToSet(c) \subseteq DOMAIN PrefixOf
    BY <1>6, <1>7, <1>8
  <2> HIDE DEF C
  <2> QED
    BY <1>12, <2>1, <2>2 DEF Valid, C
<1> QED
  BY <1>4, <1>9, <1>10, <1>11, <1>12

\* The syslog settings that operator<< writes.
SyslogSettings(facility, level, locations) ==
  <<[facility |-> facility], [level |-> level], [logLocations |-> locations]>>

SaysSyslog(w, m, facility, level, locations) ==
  /\ LastIn(w, m, "facility", "daemon") = facility
  /\ LastIn(w, m, "level", "info") = level
  /\ Given(w, {m}, "logLocations", <<Len(w) + 1, 1>>) = {<<m, 3>>}
  /\ SettingAt(w, <<m, 3>>).logLocations = locations

LEMMA SyslogSaidOf ==
  ASSUME NEW w, IsNumbered(w),
         NEW m \in DOMAIN w, NEW settings, settings = w[m].settings,
         NEW facility, NEW level, NEW locations,
         settings = SyslogSettings(facility, level, locations)
  PROVE  SaysSyslog(w, m, facility, level, locations)
<1> DEFINE F == [facility |-> facility]
           L == [level |-> level]
           Y == [logLocations |-> locations]
<1>1. AsGiven(w, m, settings)
  BY GivenOnce
<1>2. settings = <<F, L, Y>>
  BY Zenon DEF SyslogSettings
<1>3. /\ \A keyword : Is(keyword, F) <=> keyword = "facility"
      /\ \A keyword : Is(keyword, L) <=> keyword = "level"
      /\ \A keyword : Is(keyword, Y) <=> keyword = "logLocations"
      /\ F["facility"] = facility /\ L["level"] = level /\ Y["logLocations"] = locations
  BY OneKeyword
<1> HIDE DEF F, L, Y
<1>4. DOMAIN settings = 1 .. 3
  BY <1>2, ThreeTuple
<1>5. settings[1] = F /\ settings[2] = L /\ settings[3] = Y
  BY <1>2, ThreeTuple
<1>6. \A x : x \in DOMAIN settings <=> x = 1 \/ x = 2 \/ x = 3
  BY <1>4
<1>7. OnlyAt(settings, 1, "facility")
  BY <1>3, <1>5, <1>6 DEF OnlyAt
<1>8. OnlyAt(settings, 2, "level")
  BY <1>3, <1>5, <1>6 DEF OnlyAt
<1>9. OnlyAt(settings, 3, "logLocations")
  BY <1>3, <1>5, <1>6 DEF OnlyAt
<1>10. LastIn(w, m, "facility", "daemon") = settings[1]["facility"]
  BY <1>1, <1>7, Zenon DEF AsGiven
<1>11. LastIn(w, m, "level", "info") = settings[2]["level"]
  BY <1>1, <1>8, Zenon DEF AsGiven
<1>12. Given(w, {m}, "logLocations", <<Len(w) + 1, 1>>) = {<<m, 3>>}
  BY <1>1, <1>9, Zenon DEF AsGiven
<1>13. SettingAt(w, <<m, 3>>) = Y
  BY <1>5 DEF SettingAt
<1>14. Y.logLocations = locations
  BY DEF Y
<1> QED
  BY <1>3, <1>5, <1>10, <1>11, <1>12, <1>13, <1>14 DEF SaysSyslog

\* The two stanzas that operator<< writes.
LEMMA WrittenIs ==
  ASSUME NEW c, NEW w, w = Written(c)
  PROVE  /\ IsNumbered(w) /\ Len(w) = 2 /\ w # <<>>
         /\ \A x : x \in DOMAIN w <=> x = 1 \/ x = 2
         /\ w[1].kind = "service" /\ w[1].settings = ServiceSettings(c.service)
         /\ w[2].kind = "syslog"
         /\ w[2].settings =
              SyslogSettings(c.facility, c.level, IF c.logLocations THEN "yes" ELSE "no")
<1> DEFINE own == ServiceSettings(c.service)
           syslog == SyslogSettings(c.facility, c.level, IF c.logLocations THEN "yes" ELSE "no")
           A == [kind |-> "service", settings |-> own]
           B == [kind |-> "syslog", settings |-> syslog]
<1>1. w = <<A, B>>
  BY Zenon DEF Written, SyslogSettings
<1>2. /\ A.kind = "service" /\ A.settings = own
      /\ B.kind = "syslog" /\ B.settings = syslog
  OBVIOUS
<1> HIDE DEF A, B
<1>3. DOMAIN w = 1 .. 2 /\ w[1] = A /\ w[2] = B
  BY <1>1, TwoTuple
<1>4. Len(w) = 2 /\ w # <<>>
  BY <1>1
<1>5. IsNumbered(w)
  BY <1>3, <1>4 DEF IsNumbered
<1>6. \A x : x \in DOMAIN w <=> x = 1 \/ x = 2
  BY <1>3
<1> QED
  BY <1>2, <1>3, <1>4, <1>5, <1>6

\* What they say is the Config, which then runs the service.
LEMMA WrittenMeans ==
  ASSUME NEW c, Writable(c.service), c.service.addresses # {}, c.logLocations \in BOOLEAN,
         NEW w, w = Written(c)
  PROVE  Said(w, <<Len(w) + 1, 1>>) =
           ConfigOf(TRUE, c.service, c.facility, c.level, c.logLocations)
<1> DEFINE end == <<Len(w) + 1, 1>>
           yes == IF c.logLocations THEN "yes" ELSE "no"
           own == c.service
           facility == c.facility
           level == c.level
           locations == c.logLocations
<1>1. /\ IsNumbered(w) /\ Len(w) = 2
      /\ \A x : x \in DOMAIN w <=> x = 1 \/ x = 2
      /\ w[1].kind = "service" /\ w[1].settings = ServiceSettings(own)
      /\ w[2].kind = "syslog"
      /\ w[2].settings = SyslogSettings(facility, level, yes)
  BY WrittenIs, Zenon
<1>2. own.addresses # {} /\ Writable(own)
  OBVIOUS
<1>3. yes \in YesTexts <=> locations
  BY YesAssumption
<1>4. locations \in BOOLEAN
  OBVIOUS
<1> HIDE DEF yes, own, facility, level, locations
<1>5. StanzasOf(w, "service") = {1} /\ StanzasOf(w, "syslog") = {2}
  BY <1>1 DEF StanzasOf
<1>6. LastService(w, end) = {1}
  <2>1. end[1] = 3
    BY <1>1
  <2> HIDE DEF end
  <2> QED
    BY <1>5, <2>1 DEF LastService
<1>7. ServiceSaid(w, {1}, end) = own
  <2> DEFINE m == 1
             settings == w[m].settings
  <2>1. settings = ServiceSettings(own) /\ m \in DOMAIN w /\ IsNumbered(w)
    BY <1>1
  <2>2. PICK a, k : /\ IsWritten(ServiceSettings(own), a, own.keyDirectory, k)
                    /\ Endpoints(a) = own.addresses
                    /\ {PrefixOf[p] : p \in ToSet(k)} = own.allowedClients
    BY <1>2, WrittenSettings
  <2> DEFINE directory == own.keyDirectory
  <2>3. IsWritten(settings, a, directory, k)
    BY <2>1, <2>2
  <2> HIDE DEF m, settings, directory
  <2>4. settings = w[m].settings
    BY DEF settings
  <2>5. ServiceSaid(w, {m}, end) =
          ServiceOf(Endpoints(a), directory, {PrefixOf[p] : p \in ToSet(k)})
    <3>1. SaysService(w, m, a, directory, k)
      BY <2>1, <2>3, <2>4, ServiceSaidOf
    <3> QED
      BY <3>1, Zenon DEF SaysService
  <2>6. own = ServiceOf(own.addresses, directory, own.allowedClients)
    BY <1>2, Zenon DEF Writable, ServiceOf, directory
  <2> QED
    BY <2>2, <2>5, <2>6 DEF m
<1>8. /\ LastIn(w, 2, "facility", "daemon") = facility
      /\ LastIn(w, 2, "level", "info") = level
      /\ Given(w, {2}, "logLocations", end) = {<<2, 3>>}
      /\ SettingAt(w, <<2, 3>>).logLocations = yes
  <2> DEFINE m == 2
             settings == w[m].settings
  <2>1. m \in DOMAIN w /\ IsNumbered(w) /\ settings = SyslogSettings(facility, level, yes)
    BY <1>1
  <2> HIDE DEF m, settings
  <2>2. settings = w[m].settings
    BY DEF settings
  <2>3. SaysSyslog(w, m, facility, level, yes)
    BY <2>1, <2>2, SyslogSaidOf
  <2> QED
    BY <2>3, Zenon DEF m, SaysSyslog
<1>9. /\ SyslogSaid(w, end, "facility", "daemon") = facility
      /\ SyslogSaid(w, end, "level", "info") = level
  BY <1>5, <1>8, Zenon DEF SyslogSaid, LastIn
<1>10. LocationsSaid(w, end) = locations
  <2>1. LocationsSaid(w, end) <=> yes \in YesTexts
    BY <1>5, <1>8 DEF LocationsSaid
  <2>2. LocationsSaid(w, end) \in BOOLEAN
    BY DEF LocationsSaid
  <2> QED
    BY <1>3, <1>4, <2>1, <2>2
<1>11. RunSaid(w, end) = TRUE
  BY <1>6 DEF RunSaid
<1>12. Said(w, end) = ConfigOf(TRUE, own, facility, level, locations)
  BY <1>6, <1>7, <1>9, <1>10, <1>11, SaidParts, Zenon
<1> QED
  BY <1>12 DEF own, facility, level, locations

\* They are a valid file.
LEMMA WrittenIsValid ==
  ASSUME NEW c, Writable(c.service), c.service.addresses # {}
  PROVE  IsValid(Written(c))
<1> DEFINE w == Written(c)
           own == c.service
           facility == c.facility
           level == c.level
           yes == IF c.logLocations THEN "yes" ELSE "no"
           Fine(s) == s.settings # <<>> /\ \A setting \in ToSet(s.settings) : IsFine(setting)
<1>1. /\ w # <<>>
      /\ \A x : x \in DOMAIN w <=> x = 1 \/ x = 2
      /\ w[1].settings = ServiceSettings(own)
      /\ w[2].settings = SyslogSettings(facility, level, yes)
  BY WrittenIs, Zenon
<1>2. own.addresses # {} /\ Writable(own)
  OBVIOUS
<1> HIDE DEF w, own, facility, level, yes
<1>3. ASSUME NEW v
      PROVE  Valid([keyDirectory |-> v]) /\ Valid([facility |-> v]) /\ Valid([level |-> v])
             /\ Valid([logLocations |-> v])
  <2> DEFINE K == [keyDirectory |-> v]
             F == [facility |-> v]
             L == [level |-> v]
             Y == [logLocations |-> v]
  <2>1. /\ ~Is("addresses", K) /\ ~Is("allowedClients", K)
        /\ ~Is("addresses", F) /\ ~Is("allowedClients", F)
        /\ ~Is("addresses", L) /\ ~Is("allowedClients", L)
        /\ ~Is("addresses", Y) /\ ~Is("allowedClients", Y)
    <3>1. /\ "addresses" \notin {"keyDirectory", "facility", "level", "logLocations"}
          /\ "allowedClients" \notin {"keyDirectory", "facility", "level", "logLocations"}
      OBVIOUS
    <3>2. /\ \A keyword : Is(keyword, K) <=> keyword = "keyDirectory"
          /\ \A keyword : Is(keyword, F) <=> keyword = "facility"
          /\ \A keyword : Is(keyword, L) <=> keyword = "level"
          /\ \A keyword : Is(keyword, Y) <=> keyword = "logLocations"
      BY OneKeyword
    <3> HIDE DEF K, F, L, Y
    <3> QED
      BY <3>1, <3>2
  <2> HIDE DEF K, F, L, Y
  <2>2. Valid(K) /\ Valid(F) /\ Valid(L) /\ Valid(Y)
    BY <2>1 DEF Valid
  <2> QED
    BY <2>2 DEF K, F, L, Y
<1>4. Fine(w[1])
  <2> DEFINE settings == w[1].settings
             directory == own.keyDirectory
  <2>1. PICK a, k : /\ IsWritten(ServiceSettings(own), a, directory, k)
                    /\ Valid([addresses |-> a]) /\ (k # <<>> => Valid([allowedClients |-> k]))
    BY <1>2, WrittenSettings
  <2> DEFINE A == [addresses |-> a]
             K == [keyDirectory |-> directory]
             C == [allowedClients |-> k]
  <2>2. /\ settings \in {<<A>>, <<A, K>>, <<A, C>>, <<A, K, C>>}
        /\ k = <<>> => settings \in {<<A>>, <<A, K>>}
    BY <1>1, <2>1 DEF IsWritten
  <2>3. Valid(A) /\ Valid(K) /\ (k # <<>> => Valid(C))
    BY <1>3, <2>1, Zenon
  <2> HIDE DEF A, K, C, settings
  <2>4. settings # <<>>
    BY <2>2
  <2>5. \A l \in DOMAIN settings : settings[l] \in {A, K} \/ (k # <<>> /\ settings[l] = C)
    BY <2>2
  <2>6. \A setting \in ToSet(settings) : IsFine(setting)
    BY <2>3, <2>5, IsFineIs DEF ToSet
  <2> QED
    BY <2>4, <2>6 DEF settings
<1>5. Fine(w[2])
  <2> DEFINE settings == w[2].settings
             F == [facility |-> facility]
             L == [level |-> level]
             Y == [logLocations |-> yes]
  <2>1. settings = <<F, L, Y>>
    BY <1>1, Zenon DEF SyslogSettings
  <2>2. Valid(F) /\ Valid(L) /\ Valid(Y)
    BY <1>3, Zenon
  <2> HIDE DEF F, L, Y, settings
  <2>3. settings # <<>>
    BY <2>1
  <2>4. \A l \in DOMAIN settings : settings[l] \in {F, L, Y}
    BY <2>1
  <2>5. \A setting \in ToSet(settings) : IsFine(setting)
    BY <2>2, <2>4, IsFineIs DEF ToSet
  <2> QED
    BY <2>3, <2>5 DEF settings
<1> HIDE DEF Fine
<1>6. \A s \in ToSet(w) : Fine(s)
  BY <1>1, <1>4, <1>5 DEF ToSet
<1> QED
  BY <1>1, <1>6, Zenon DEF IsValid, Fine, w

\* What a file means is a Config, whose logLocations is a truth value.
LEMMA MeaningIs ==
  ASSUME NEW f
  PROVE  \E run, own, facility, level : \E locations \in BOOLEAN :
           Meaning(f) = ConfigOf(run, own, facility, level, locations)
<1> DEFINE end == <<Len(f) + 1, 1>>
           said == Said(f, end)
           wild == {[address |-> a, port |-> 2124] : a \in AnyAddresses}
           run == RunSaid(f, end)
           own == ServiceSaid(f, LastService(f, end), end)
           facility == SyslogSaid(f, end, "facility", "daemon")
           level == SyslogSaid(f, end, "level", "info")
           locations == LocationsSaid(f, end)
<1>1. said = ConfigOf(run, own, facility, level, locations)
  BY SaidParts, Zenon
<1>2. locations \in BOOLEAN
  BY DEF LocationsSaid
<1>3. own = ServiceOf(own.addresses, own.keyDirectory, own.allowedClients)
  <2>1. \E a, k, c : own = ServiceOf(a, k, c)
    BY Zenon DEF ServiceSaid, ServiceOf
  <2>2. PICK a, k, c : own = ServiceOf(a, k, c)
    BY <2>1, Zenon
  <2> HIDE DEF own
  <2>3. own.addresses = a /\ own.keyDirectory = k /\ own.allowedClients = c
    BY <2>2 DEF ServiceOf
  <2> QED
    BY <2>2, <2>3
<1>4. Meaning(f) = said \/ Meaning(f) = WithAddresses(said, wild)
  BY Zenon DEF Meaning, WithAddresses
<1> HIDE DEF said, wild, run, own, facility, level, locations
<1>5. WithAddresses(ConfigOf(run, own, facility, level, locations), wild) =
        ConfigOf(run, ServiceOf(wild, own.keyDirectory, own.allowedClients),
                 facility, level, locations)
  BY <1>3, ConfigWithAddresses
<1>6. CASE Meaning(f) = said
  BY <1>1, <1>2, <1>6, Zenon
<1>7. CASE Meaning(f) = WithAddresses(said, wild)
  BY <1>1, <1>2, <1>5, <1>7, Zenon
<1> QED
  BY <1>4, <1>6, <1>7

\* What [c EXCEPT !.runService = TRUE] is.
WithRun(c, run) == [c EXCEPT !.runService = run]

LEMMA ConfigWithRun ==
  ASSUME NEW run, NEW own, NEW facility, NEW level, NEW locations, NEW yes
  PROVE  WithRun(ConfigOf(run, own, facility, level, locations), yes) =
           ConfigOf(yes, own, facility, level, locations)
<1> DEFINE c == WithRun(ConfigOf(run, own, facility, level, locations), yes)
<1>1. /\ DOMAIN c = {"runService", "service", "facility", "level", "logLocations"}
      /\ c.runService = yes /\ c.service = own /\ c.facility = facility
      /\ c.level = level /\ c.logLocations = locations
  BY DEF ConfigOf, WithRun
<1>2. c = [k \in DOMAIN c |-> c[k]]
  BY DEF WithRun
<1> HIDE DEF c
<1>3. c = ConfigOf(yes, own, facility, level, locations)
  BY <1>1, <1>2 DEF ConfigOf
<1> QED
  BY <1>3 DEF c

LEMMA WInvRoundTrip == WInv => RoundTrip
<1> SUFFICES ASSUME WInv, rc = "true"
             PROVE  /\ IsValid(Written(config))
                    /\ Meaning(Written(config)) = WithRun(config, TRUE)
  BY Zenon DEF RoundTrip, WithRun
<1>1. /\ Writable(config.service) /\ config.service.addresses # {}
      /\ config = Meaning(file)
  BY DEF WInv, CInv, MeansWhatItSays
<1>2. PICK run, own, facility, level : \E locations \in BOOLEAN :
             config = ConfigOf(run, own, facility, level, locations)
  BY <1>1, MeaningIs
<1>3. PICK locations \in BOOLEAN : config = ConfigOf(run, own, facility, level, locations)
  BY <1>2
<1>4. /\ config.service = own /\ config.facility = facility /\ config.level = level
      /\ config.logLocations = locations
  BY <1>3, ConfigFields
<1> DEFINE w == Written(config)
           end == <<Len(w) + 1, 1>>
           said == Said(w, end)
<1>5. said = ConfigOf(TRUE, own, facility, level, locations)
  <2>1. said = ConfigOf(TRUE, config.service, config.facility, config.level, config.logLocations)
    BY <1>1, <1>3, <1>4, WrittenMeans
  <2> QED
    BY <1>4, <2>1, Zenon
<1>6. said.service = own
  <2> HIDE DEF said
  <2> DEFINE yes == TRUE
  <2>1. said = ConfigOf(yes, own, facility, level, locations)
    BY <1>5
  <2> HIDE DEF yes
  <2> QED
    BY <2>1, ConfigFields
<1>7. Meaning(w) = said
  <2>1. said.service.addresses # {}
    BY <1>1, <1>4, <1>6, Zenon
  <2> QED
    BY <2>1, Zenon DEF Meaning
<1>8. WithRun(config, TRUE) = ConfigOf(TRUE, own, facility, level, locations)
  <2>1. \A yes : WithRun(config, yes) = ConfigOf(yes, own, facility, level, locations)
    BY <1>3, ConfigWithRun
  <2> QED
    BY <2>1, Zenon
<1>9. IsValid(w)
  BY <1>1, WrittenIsValid
<1> QED
  BY <1>5, <1>7, <1>8, <1>9, Zenon

-----------------------------------------------------------------------------
(***************************************************************************)
(* The command line, and whether it meets what the file says.              *)
(***************************************************************************)
LEMMA InitReads == Init => LineInv
<1> SUFFICES ASSUME Init PROVE LineInv
  OBVIOUS
<1>1. words \in Seq(AnyWord)
  BY LinesAssumption DEF Init, InitConfig
<1>2. InitLine
  BY DEF Init
<1> QED
  BY <1>1, <1>2, InitLineInv

LEMMA NextReads == LineInv /\ [Next]_<<configVars, lineVars>> => LineInv'
<1> SUFFICES ASSUME LineInv, [Next]_<<configVars, lineVars>> PROVE LineInv'
  OBVIOUS
<1>1. [ReadLine]_lineVars
  BY DEF Next, ReadsLine, Terminated
<1> QED
  BY <1>1, LineStep

\* The ports of some addresses.
LEMMA PortsOf ==
  ASSUME NEW last
  PROVE  LET given == {a.port : a \in ToSet(last)}
         IN {e.port : e \in Endpoints(last)} =
              (given \ {NoPort}) \cup (IF NoPort \in given THEN {2124} ELSE {})
<1> DEFINE given == {last[k].port : k \in DOMAIN last}
           ports == {Endpoint(last[k]).port : k \in DOMAIN last}
<1>1. {a.port : a \in ToSet(last)} = given
  BY DEF ToSet
<1>2. {e.port : e \in Endpoints(last)} = ports
  BY DEF Endpoints
<1>3. \A a : Endpoint(a).port = IF a.port = NoPort THEN 2124 ELSE a.port
  BY DEF Endpoint, DefaultPort
<1>4. ports = (given \ {NoPort}) \cup (IF NoPort \in given THEN {2124} ELSE {})
  BY <1>3
<1> QED
  BY <1>1, <1>2, <1>4

\* The ports that the file says, mctallyd's own for each address without one.
PortsTold ==
  (PortsInFile \ {NoPort})
  \cup (IF NoPort \in PortsInFile \/ PortsInFile = {} THEN {2124} ELSE {})

\* What the daemon of a file listens on.
LEMMA ListensWhereTold ==
  ASSUME config = Meaning(file)
  PROVE  {e.port : e \in config.service.addresses} = PortsTold
<1> DEFINE end == <<Len(file) + 1, 1>>
           own == LastService(file, end)
           last == LastOf(file, Given(file, own, "addresses", end), "addresses", <<>>)
           said == Said(file, end)
           Wild(a) == [address |-> a, port |-> 2124]
           wild == {Wild(a) : a \in AnyAddresses}
           given == {a.port : a \in ToSet(last)}
<1>1. PortsInFile = given
  BY Zenon DEF PortsInFile
<1>2. said.service = ServiceSaid(file, own, end)
  BY DEF Said
<1>3. said.service.addresses = Endpoints(last)
  <2> DEFINE k == LastOf(file, Given(file, own, "keyDirectory", end), "keyDirectory",
                         IF own = {} THEN "/usr/local/etc/mctallyd" ELSE "")
             c == {PrefixOf[p] : p \in ToSet(LastOf(file,
                     Given(file, own, "allowedClients", end), "allowedClients", <<>>))}
  <2>1. ServiceSaid(file, own, end) = ServiceOf(Endpoints(last), k, c)
    BY Zenon DEF ServiceSaid, ServiceOf
  <2> HIDE DEF own, last, said, k, c
  <2> QED
    BY <1>2, <2>1 DEF ServiceOf
<1>4. /\ said.service.addresses # {} => config = said
      /\ said.service.addresses = {} => config = WithAddresses(said, wild)
  BY Zenon DEF Meaning, WithAddresses
<1>5. {e.port : e \in Endpoints(last)} =
        (given \ {NoPort}) \cup (IF NoPort \in given THEN {2124} ELSE {})
  BY PortsOf
<1>6. Endpoints(last) = {} <=> given = {}
  BY DEF Endpoints, ToSet
<1>7. CASE Endpoints(last) # {}
  <2>1. config.service.addresses = Endpoints(last)
    BY <1>3, <1>4, <1>7, Zenon
  <2> HIDE DEF last, given
  <2> QED
    BY <1>1, <1>5, <1>6, <1>7, <2>1 DEF PortsTold
<1>8. CASE Endpoints(last) = {}
  <2>1. PICK run, facility, level, locations :
          said = ConfigOf(run, said.service, facility, level, locations)
    BY SaidIs
  <2> DEFINE s == said.service
  <2>2. s = ServiceOf(s.addresses, s.keyDirectory, s.allowedClients)
    <3>1. PICK a, k, c : s = ServiceOf(a, k, c)
      BY <1>2, Zenon DEF ServiceSaid, ServiceOf
    <3> HIDE DEF s
    <3>2. s.addresses = a /\ s.keyDirectory = k /\ s.allowedClients = c
      BY <3>1 DEF ServiceOf
    <3> QED
      BY <3>1, <3>2
  <2> DEFINE new == ServiceOf(wild, s.keyDirectory, s.allowedClients)
  <2>3. said = ConfigOf(run, s, facility, level, locations)
    BY <2>1
  <2>4. config = WithAddresses(said, wild)
    BY <1>3, <1>4, <1>8, Zenon
  <2> HIDE DEF s, said, wild
  <2>5. WithAddresses(ConfigOf(run, s, facility, level, locations), wild) =
          ConfigOf(run, new, facility, level, locations)
    BY <2>2, ConfigWithAddresses
  <2>6. config = ConfigOf(run, new, facility, level, locations)
    BY <2>3, <2>4, <2>5, Zenon
  <2>7. config.service = new
    <3> HIDE DEF new
    <3> QED
      BY <2>6, ConfigFields
  <2>8. new.addresses = wild
    BY DEF ServiceOf
  <2>9. {e.port : e \in wild} = {2124}
    <3>1. \E a : a \in AnyAddresses
      BY DEF AnyAddresses
    <3>2. \A a : Wild(a).port = 2124
      OBVIOUS
    <3> HIDE DEF Wild
    <3> QED
      BY <3>1, <3>2 DEF wild
  <2> HIDE DEF new, last, given
  <2> QED
    BY <1>1, <1>6, <1>8, <2>7, <2>8, <2>9 DEF PortsTold
<1> QED
  BY <1>7, <1>8

\* A TCP port is not changed by the narrowing, and no address is without it.
LEMMA TcpPorts == \A p : ValidPort(p) => p % 65536 = p /\ p # NoPort
<1> SUFFICES ASSUME NEW p, ValidPort(p) PROVE p % 65536 = p /\ p # NoPort
  OBVIOUS
<1>1. p \in Int /\ 0 < p /\ p < 65536
  BY DEF ValidPort, MaxPort
<1> QED
  BY <1>1 DEF NoPort

\* The last -p is the port that mctally has, but for its narrowing.
LEMMA LastPort ==
  LineInv /\ result = "asked" =>
    \A k \in PortWords(OptionsUpTo) :
      IsLast(k, PortWords(OptionsUpTo)) => port = words[k].p % 65536
<1> SUFFICES ASSUME LineInv, result = "asked"
             PROVE  \A k \in PortWords(OptionsUpTo) :
                      IsLast(k, PortWords(OptionsUpTo)) => port = words[k].p % 65536
  OBVIOUS
<1> DEFINE told == PortWords(OptionsUpTo)
<1>1. PortIsFrom(OptionsUpTo)
  BY Asking
<1>2. told # {} => \E l \in told : IsLast(l, told) /\ port = words[l].p % 65536
  BY <1>1 DEF PortIsFrom
<1>3. \A l \in told : l \in Int
  BY DEF PortWords
<1> SUFFICES \A k \in told : IsLast(k, told) => port = words[k].p % 65536
  OBVIOUS
<1> HIDE DEF told
<1>4. \A k, l \in told : IsLast(k, told) /\ IsLast(l, told) => l = k
  BY <1>3 DEF IsLast
<1> QED
  BY <1>2, <1>4

\* Both invariants together.
LEMMA MeetsWhereTold == CInv /\ LineInv => MeetWhereTold
<1> SUFFICES ASSUME CInv, LineInv, rc = "true", result = "asked" PROVE MeetWhereTold
  BY Zenon DEF MeetWhereTold
<1>1. config = Meaning(file)
  BY DEF CInv, MeansWhatItSays
<1>2. PortsListenedOn = PortsTold
  BY <1>1, ListensWhereTold, Zenon DEF PortsListenedOn
<1>3. \A p : ValidPort(p) /\ port = p % 65536 =>
        /\ p \in PortsInFile => port \in PortsListenedOn
        /\ port \in PortsListenedOn => p \in PortsInFile \/ ChosenByDaemon
  <2> DEFINE given == PortsInFile
  <2>1. PortsListenedOn =
          (given \ {NoPort}) \cup (IF NoPort \in given \/ given = {} THEN {2124} ELSE {})
    BY <1>2, Zenon DEF PortsTold
  <2>2. given = {} \/ NoPort \in given => ChosenByDaemon
    BY Zenon DEF ChosenByDaemon
  <2> HIDE DEF given
  <2>3. SUFFICES ASSUME NEW p, ValidPort(p), port = p
                 PROVE  /\ p \in given => port \in PortsListenedOn
                        /\ port \in PortsListenedOn => p \in given \/ ChosenByDaemon
    BY TcpPorts DEF given
  <2> QED
    BY <2>1, <2>2, <2>3, TcpPorts
<1>4. \A k \in PortWords(OptionsUpTo) :
        IsLast(k, PortWords(OptionsUpTo)) => port = words[k].p % 65536
  BY LastPort
<1> QED
  BY <1>3, <1>4 DEF MeetWhereTold

-----------------------------------------------------------------------------
(***************************************************************************)
(* The results.                                                            *)
(***************************************************************************)
\* What Parse() has in its Config is what the file says up to where it is, and
\* what it has passed was valid.
THEOREM ConfigInvariant == Spec => []CInv
<1>1. Init => CInv
  BY InitCInv DEF Init
<1> QED
  BY <1>1, NextCInv, PTL DEF Spec

\* Parse() returns true just for the files that are valid throughout, however
\* many stanzas and settings they have and wherever the error is.
THEOREM ParseAcceptsValid == Spec => []AcceptsValid
<1>1. CInv => AcceptsValid
  BY DEF CInv
<1> QED
  BY <1>1, ConfigInvariant, PTL

\* A Config that was parsed is what the file means: the last service stanza and
\* no other, the last value of each keyword in it, all syslog stanzas.
THEOREM ConfigMeansWhatItSays == Spec => []MeansWhatItSays
<1>1. CInv => MeansWhatItSays
  BY DEF CInv
<1> QED
  BY <1>1, ConfigInvariant, PTL

\* A Config that was parsed can be written by operator<< and parsed again to the
\* same Config, whatever the number of its addresses and prefixes: each has a
\* text, every port is one that the grammar takes, and what is not written is
\* what a stanza without it says.
THEOREM ConfigRoundTrip == Spec => []RoundTrip
<1>1. Init => WInv
  BY InitWInv DEF Init
<1>2. WInv => RoundTrip
  BY WInvRoundTrip
<1> QED
  BY <1>1, <1>2, NextWInv, PTL DEF Spec

\* What main() has made of its command line is what the words say that it has
\* come to, and there is a reason whenever it asks nobody.
THEOREM LineInvariant == Spec => []LineInv
  BY InitReads, NextReads, PTL DEF Spec

\* mctally asks the hosts of every -h in their order, or else localhost, for what
\* its options say and for the packages of its operands, in their order, whatever
\* the words and wherever the operands stand; and it asks nobody just if a word
\* is refused, an expression is bad, -v is said or there is nothing to ask for.
THEOREM ClientAsksAsTold == Spec => []AsksAsTold
  BY LineInvariant, LineAsks, PTL

\* A mctally that was told a TCP port by its last -p meets a mctallyd whose file
\* says the same one, whatever else the file and the command line say and whatever
\* the file says twice; and if it meets one whose file does not, an address was
\* left there without a port.
THEOREM ClientMeetsServer == Spec => []MeetWhereTold
<1>1. Init => CInv
  BY InitCInv DEF Init
<1> QED
  BY <1>1, NextCInv, InitReads, NextReads, MeetsWhereTold, PTL DEF Spec

=============================================================================
