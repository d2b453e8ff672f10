------------------------------ MODULE HostInfo ------------------------------
(***************************************************************************)
(* What a Responder's thread finds out about its host by reading, line by  *)
(* line, what a command or a file says: the installed packages that match  *)
(* a client's regular expressions, the system's pretty name, the uptime.   *)
(* Every platform has code of its own for it, and the packages have it     *)
(* twice: for one expression and for a list of them.                       *)
(*                                                                         *)
(* classes/src/DwmMcTallyUtils.cc, classes/src/DwmMcTallyUname.cc          *)
(***************************************************************************)
EXTENDS Integers, SequencesExt

CONSTANTS
  Hosts,         \* the hosts that may be asked
  Questions,     \* the questions that may be asked of them
  Lower,         \* each name in lower case
  ReleaseNames   \* the name of each macOS release that the code knows

(***************************************************************************)
(* A host has its os, its time up, a clock (now), a time of boot by the    *)
(* clock, and the lines that its sources give: packages and ports as       *)
(* [name, version], release as [key, value].  A part that the code's       *)
(* parsing does not find is "".                                            *)
(*                                                                         *)
(* A question has a form: "one" or "list" with the expressions exprs, or   *)
(* "prettyName", or "uptime", or "other", for what is found out elsewhere  *)
(* (load averages, logins).  An expression is the set of names that it     *)
(* matches, with a text, and is bad if std::regex cannot be made of it.    *)
(***************************************************************************)
\* The values of a uint64_t, fewer of them.
UInt64 == 1000000

PackageText == [name : STRING, version : STRING]
KeyText == [key : STRING, value : STRING]

\* pkgutil knows nothing of a package without a name.
ASSUME HostsAssumption ==
  \A h \in Hosts :
    /\ h.os \in {"macOS", "FreeBSD", "Linux"}
    /\ {h.up, h.now, h.boot} \subseteq Nat
    /\ h.packages \in Seq(PackageText) /\ h.ports \in Seq(PackageText)
    /\ h.release \in Seq(KeyText)
    /\ h.os = "macOS" => \A l \in ToSet(h.packages) : l.name = "" => l.version = ""

ASSUME QuestionsAssumption ==
  \A q \in Questions :
    /\ q.form \in {"one", "list", "prettyName", "uptime", "other"}
    /\ q.form = "one" => q.exprs = <<q.exprs[1]>>
    /\ \A e \in ToSet(q.exprs) : e.names \subseteq DOMAIN Lower

\* Every version has a number, and every release that is known has a name.
ASSUME ReleaseNamesAssumption ==
  "" \notin DOMAIN ReleaseNames /\ \A v \in DOMAIN ReleaseNames : ReleaseNames[v] # ""

VARIABLES
  host, asked,  \* who is asked what
  source,       \* what is read: "packages", "ports", "release", "uptime", "other"
  place,        \* "open", "read" or "done"
  line,         \* the line that comes next
  pkgs,         \* the caller's map from names to versions
  release,      \* GetPrettyName's variables; elsewhere than on macOS name is rc
  uptime,       \* GetUptime's rc
  failed        \* the sources of which a command, file or call failed

answer == <<pkgs, release, uptime>>
hostVars == <<host, asked, source, place, line, answer, failed>>

-----------------------------------------------------------------------------
(* Expressions. *)

Good(exprs) == {e \in ToSet(exprs) : ~e.bad}

\* regex_match; only Debian's code asks for icase.
Matches(e, name) ==
  IF host.os = "Linux" THEN \E n \in e.names : Lower[n] = Lower[name]
  ELSE name \in e.names

AnyMatches(name) == \E e \in Good(asked.exprs) : Matches(e, name)

\* The lines of a source; if pkgutil is given an expression, with those that it
\* leaves out, of which nothing comes.
Lines == host[source]

\* A line in which the platform's code finds a name and a version.  Debian's
\* takes an empty version; on macOS the version is pkg-info's, or empty.
Parses(l) == l.name # "" /\ (source = "ports" \/ host.os = "FreeBSD" => l.version # "")

\* MacPorts' names get a prefix before they are matched.
NameIn(from, l) == IF from = "ports" THEN "org.macports." \o l.name ELSE l.name
Name(l) == NameIn(source, l)

With(m, name, version) ==
  [n \in DOMAIN m \cup {name} |-> IF n = name THEN version ELSE m[n]]

-----------------------------------------------------------------------------
SourceOf(q) ==
  CASE q.form = "prettyName" -> "release"
    [] q.form \in {"uptime", "other"} -> q.form
    [] OTHER -> "packages"

InitHost ==
  /\ host \in Hosts
  /\ asked \in Questions
  /\ source = SourceOf(asked)
  /\ place = IF source = "other" THEN "done" ELSE "open"
  /\ line = 1
  /\ pkgs = <<>>
  /\ release = [name |-> "", vers |-> "", releaseName |-> ""]
  /\ uptime = 0
  /\ failed = {}

\* The source is finished with; macOS has MacPorts too, however pkgutil fared.
Leave ==
  IF source = "packages" /\ host.os = "macOS"
  THEN source' = "ports" /\ place' = "open"
  ELSE place' = "done" /\ UNCHANGED source

\* GetInstalledMacPorts returns at once if it has no expression to match.
NothingToMatch == source = "ports" /\ Good(asked.exprs) = {}

\* popen() or ifstream.
Open ==
  /\ place = "open" /\ source # "uptime" /\ ~NothingToMatch
  /\ place' = "read"
  /\ line' = 1
  /\ UNCHANGED <<host, asked, source, answer, failed>>

OpenFails ==
  /\ place = "open" /\ source # "uptime" /\ ~NothingToMatch
  /\ Leave
  /\ failed' = failed \cup {source}
  /\ UNCHANGED <<host, asked, line, answer>>

NoExpression ==
  /\ place = "open" /\ NothingToMatch
  /\ place' = "done"
  /\ UNCHANGED <<host, asked, source, line, answer, failed>>

\* Variant of Take that takes a line by the first expression alone.
Take_First(l) ==
  IF Parses(l) /\ asked.exprs # <<>> /\ ~asked.exprs[1].bad /\ Matches(asked.exprs[1], Name(l))
  THEN pkgs' = With(pkgs, Name(l), l.version)
  ELSE UNCHANGED pkgs

\* A later line of the same name replaces an earlier one.
Take(l) ==
  IF Parses(l) /\ AnyMatches(Name(l))
  THEN pkgs' = With(pkgs, Name(l), l.version)
  ELSE UNCHANGED pkgs

\* The line's loops over packages and ports, but for pkgutil's.
AtPackage(receipt) ==
  /\ place = "read" /\ source \in {"packages", "ports"} /\ line <= Len(Lines)
  /\ receipt <=> host.os = "macOS" /\ source = "packages"

\* The form for one expression on Debian leaves its loop at a bad one.
Stops == host.os = "Linux" /\ asked.form = "one" /\ asked.exprs[1].bad
         /\ Parses(Lines[line])

ReadPackage ==
  /\ AtPackage(FALSE) /\ ~Stops
  /\ Take(Lines[line])
  /\ line' = line + 1
  /\ UNCHANGED <<host, asked, source, place, release, uptime, failed>>

StopAtBad ==
  /\ AtPackage(FALSE) /\ Stops
  /\ place' = "done"
  /\ UNCHANGED <<host, asked, source, line, answer, failed>>

\* pkgutil gives names; for each that is asked for, pkgutil --pkg-info the version
\* or nothing.
ReadReceipt ==
  /\ AtPackage(TRUE)
  /\ \E info \in BOOLEAN :
       LET l == Lines[line]
       IN /\ IF AnyMatches(l.name) /\ info /\ l.version # ""
             THEN pkgs' = With(pkgs, l.name, l.version) ELSE UNCHANGED pkgs
          /\ failed' = IF AnyMatches(l.name) /\ ~info THEN failed \cup {source} ELSE failed
  /\ line' = line + 1
  /\ UNCHANGED <<host, asked, source, place, release, uptime>>

\* /etc/os-release, of which the first PRETTY_NAME counts.
ReadOsRelease ==
  /\ place = "read" /\ source = "release" /\ line <= Len(Lines) /\ host.os # "macOS"
  /\ LET l == Lines[line]
     IN IF l.key = "PRETTY_NAME" /\ l.value # ""
        THEN release' = [release EXCEPT !.name = l.value] /\ place' = "done"
        ELSE UNCHANGED <<release, place>>
  /\ line' = line + 1
  /\ UNCHANGED <<host, asked, source, pkgs, uptime, failed>>

\* Variant of ReadSwVers that keeps the name of a release it knew.
ReadSwVers_KeepsName ==
  /\ place = "read" /\ source = "release" /\ line <= Len(Lines) /\ host.os = "macOS"
  /\ LET l == Lines[line]
     IN release' =
          IF l.value = "" THEN release
          ELSE IF l.key = "ProductVersion"
          THEN [release EXCEPT !.vers = l.value, !.releaseName =
                  IF l.value \in DOMAIN ReleaseNames THEN ReleaseNames[l.value] ELSE @]
          ELSE IF l.key = "ProductName" THEN [release EXCEPT !.name = l.value]
          ELSE release
  /\ line' = line + 1
  /\ UNCHANGED <<host, asked, source, place, pkgs, uptime, failed>>

\* sw_vers; a release that the code does not know has no name.
ReadSwVers ==
  /\ place = "read" /\ source = "release" /\ line <= Len(Lines) /\ host.os = "macOS"
  /\ LET l == Lines[line]
     IN release' =
          IF l.value = "" THEN release
          ELSE IF l.key = "ProductVersion"
          THEN [release EXCEPT !.vers = l.value, !.releaseName =
                  IF l.value \in DOMAIN ReleaseNames THEN ReleaseNames[l.value] ELSE ""]
          ELSE IF l.key = "ProductName" THEN [release EXCEPT !.name = l.value]
          ELSE release
  /\ line' = line + 1
  /\ UNCHANGED <<host, asked, source, place, pkgs, uptime, failed>>

\* The end of the file or of the command's output.
Close ==
  /\ place = "read" /\ line > Len(Lines)
  /\ Leave
  /\ UNCHANGED <<host, asked, line, answer, failed>>

\* Variant of Elapsed that subtracts whatever the clock says, in 64 bits.
Elapsed_Always == (host.now - host.boot) % UInt64

\* The seconds since boot by a clock that may have been set since.
Elapsed == IF host.now > host.boot THEN host.now - host.boot ELSE 0

\* Linux has the uptime itself in /proc/uptime.
GetUptime ==
  /\ place = "open" /\ source = "uptime"
  /\ \E ok \in BOOLEAN :
       /\ uptime' = IF ~ok THEN 0 ELSE IF host.os = "Linux" THEN host.up ELSE Elapsed
       /\ failed' = IF ok THEN {} ELSE {source}
  /\ place' = "done"
  /\ UNCHANGED <<host, asked, source, line, pkgs, release>>

FindOut ==
  \/ Open \/ OpenFails \/ NoExpression
  \/ ReadPackage \/ StopAtBad \/ ReadReceipt
  \/ ReadOsRelease \/ ReadSwVers \/ Close \/ GetUptime

-----------------------------------------------------------------------------
(* What is sent and shown. *)

\* On macOS the name, version and release's name, if all three were found.
PrettyName ==
  IF host.os # "macOS" THEN release.name
  ELSE IF "" \in {release.name, release.vers, release.releaseName} THEN ""
  ELSE release.name \o " " \o release.vers \o " (" \o release.releaseName \o ")"

InUnits(secs) ==
  LET days == secs \div 86400
      intoDay == secs - days * 86400
      hours == intoDay \div 3600
      intoHour == intoDay - hours * 3600
      minutes == intoHour \div 60
  IN [d |-> days, h |-> hours, m |-> minutes, s |-> intoHour - minutes * 60]

\* What the text shows of them, in this order: days, hours and minutes are left
\* out when zero, seconds never.
TimeIntervalString(secs) ==
  LET n == InUnits(secs)
  IN [unit \in {u \in DOMAIN n : n[u] # 0 \/ u = "s"} |-> n[unit]]

-----------------------------------------------------------------------------
(***************************************************************************)
(* Properties                                                              *)
(***************************************************************************)
\* What is installed, under the names that are reported.
Installed ==
  [from \in {"packages", "ports"} |->
     {<<NameIn(from, l), l.version>> : l \in
        {k \in ToSet(host[from]) : k.name # "" /\ (from = "ports" => host.os = "macOS")}}]

\* A good expression of the question names n, but for case on Linux.
Asked(n) ==
  \E e \in ToSet(asked.exprs), m \in DOMAIN Lower :
    /\ ~e.bad /\ m \in e.names
    /\ m = n \/ (host.os = "Linux" /\ Lower[m] = Lower[n])

\* A client is sent the packages that are installed and that one of its good
\* expressions matches, each with a version it is installed in, on every
\* platform and whether they came as one expression or as a list; a bad
\* expression among good ones takes nothing away.  A command that fails takes
\* away only what it would have given.
SelectsInstalled ==
  place = "done" /\ source \in {"packages", "ports"} =>
    LET wanted(from) == {p \in Installed[from] :
                           (p[2] # "" \/ host.os = "Linux") /\ Asked(p[1])}
    IN /\ \A n \in DOMAIN pkgs : \E from \in DOMAIN Installed : <<n, pkgs[n]>> \in wanted(from)
       /\ \A from \in DOMAIN Installed \ failed : {p[1] : p \in wanted(from)} \subseteq DOMAIN pkgs

\* What os-release or sw_vers say of a key.
Said(key) == {l.value : l \in {m \in ToSet(host.release) : m.key = key}}

Gives(l, key) == l.key = key /\ l.value # ""

\* Those of the first n lines that give key a value, and whether v is the one that
\* the first or the last of them gives, or "" if there are none.
SaidAt(lines, n, key) == {k \in 1 .. n : Gives(lines[k], key)}

FirstSaid(lines, n, key, v) ==
  LET at == SaidAt(lines, n, key)
  IN (at = {} /\ v = "") \/ \E k \in at : v = lines[k].value /\ \A m \in at : k <= m

LastSaid(lines, n, key, v) ==
  LET at == SaidAt(lines, n, key)
  IN (at = {} /\ v = "") \/ \E k \in at : v = lines[k].value /\ \A m \in at : m <= k

\* The pretty name is what the first PRETTY_NAME of os-release says.  On macOS it
\* is the last name and the last version that sw_vers gives, in whatever order,
\* with the name of just that version, and nothing at all if one of the three is
\* missing, never a part of them; without os-release or sw_vers it is empty.
PrettyNameIsWhole ==
  place = "done" /\ source = "release" =>
    LET size == Len(host.release)
    IN IF source \in failed THEN PrettyName = ""
       ELSE IF host.os # "macOS" THEN FirstSaid(host.release, size, "PRETTY_NAME", PrettyName)
       ELSE \E n \in Said("ProductName") \cup {""}, v \in Said("ProductVersion") \cup {""} :
              /\ LastSaid(host.release, size, "ProductName", n)
              /\ LastSaid(host.release, size, "ProductVersion", v)
              /\ PrettyName = IF n = "" \/ v \notin DOMAIN ReleaseNames THEN ""
                              ELSE n \o " " \o v \o " (" \o ReleaseNames[v] \o ")"

\* A host that says what it is gets a pretty name, as the class's test has it; but
\* the name and version of a macOS release that the code does not know are
\* thrown away.
PrettyNameIsFound ==
  place = "done" /\ source = "release" /\ source \notin failed =>
    LET needed == IF host.os = "macOS" THEN {"ProductName", "ProductVersion"} ELSE {"PRETTY_NAME"}
    IN (\A key \in needed : SaidAt(host.release, Len(host.release), key) # {})
       => PrettyName # ""

\* What the clock says at most.
ClockTime == IF host.os = "Linux" THEN host.up ELSE host.now

\* An uptime is at most the clock's time, however the clock was set, and the
\* text that clients print for it adds up to it: no part reaches the next
\* unit, and there is always one.
ReadsAsItsSeconds ==
  place = "done" =>
    LET parts == TimeIntervalString(uptime)
        count(unit) == IF unit \in DOMAIN parts THEN parts[unit] ELSE 0
    IN /\ uptime <= ClockTime
       /\ "s" \in DOMAIN parts
       /\ uptime = count("d") * 86400 + count("h") * 3600 + count("m") * 60 + count("s")
       /\ count("h") < 24 /\ count("m") < 60 /\ count("s") < 60

-----------------------------------------------------------------------------
(***************************************************************************)
(* What makes these three inductive, until the Response is made and these  *)
(* variables are gone.                                                     *)
(***************************************************************************)
\* Only macOS goes on from packages to ports, and only there are the packages
\* never the end.
InPlace ==
  /\ host \in Hosts /\ asked \in Questions
  /\ place \in {"open", "read", "done"}
  /\ source \in {"packages", "ports", "release", "uptime", "other"}
  /\ source \in {"packages", "ports"} <=> asked.form \in {"one", "list"}
  /\ source = "ports" => host.os = "macOS"
  /\ source = "packages" /\ place = "done" => host.os # "macOS"
  /\ line \in Nat \ {0}

\* A line that a client is to be sent.
Sought(from, l) ==
  /\ l.name # "" /\ (l.version # "" \/ host.os = "Linux")
  /\ Asked(NameIn(from, l))

\* Nothing gets into the map that is not such a line, from either source.
OnlySought ==
  \A n \in DOMAIN pkgs :
    \E from \in {"packages", "ports"} : \E l \in ToSet(host[from]) :
      /\ from = "ports" => host.os = "macOS"
      /\ Sought(from, l) /\ n = NameIn(from, l) /\ pkgs[n] = l.version

\* The first n lines of a source are in the map, unless a command for it failed.
Taken(from, n) ==
  from \in failed \/
    \A k \in 1 .. n :
      Sought(from, host[from][k]) => NameIn(from, host[from][k]) \in DOMAIN pkgs

\* No line is passed over: neither before the one that comes next, nor in the
\* source before this one, nor at the end.
AllSought ==
  /\ source = "packages" /\ place = "read" => Taken("packages", line - 1)
  /\ source = "packages" /\ place = "done" => Taken("packages", Len(host.packages))
  /\ source = "ports" => Taken("packages", Len(host.packages))
  /\ source = "ports" /\ place = "read" => Taken("ports", line - 1)
  /\ source = "ports" /\ place = "done" => Taken("ports", Len(host.ports))

\* Each part of the pretty name is what the lines so far have said, and the
\* release's name is that of the version it would stand next to, or empty.
PartsSaid ==
  IF host.os = "macOS"
  THEN /\ LastSaid(host.release, line - 1, "ProductName", release.name)
       /\ LastSaid(host.release, line - 1, "ProductVersion", release.vers)
       /\ release.releaseName =
            IF release.vers \in DOMAIN ReleaseNames THEN ReleaseNames[release.vers] ELSE ""
  ELSE FirstSaid(host.release, line - 1, "PRETTY_NAME", release.name)

\* No line is read of a source that could not be opened, and all of any other,
\* or all up to a PRETTY_NAME.
NamesSaid ==
  /\ DOMAIN release = {"name", "vers", "releaseName"}
  /\ source = "release" =>
       /\ line <= Len(host.release) + 1
       /\ place = "open" \/ source \in failed => line = 1
       /\ place # "done" => source \notin failed
       /\ place = "done" /\ source \notin failed =>
            line = Len(host.release) + 1 \/ (host.os # "macOS" /\ release.name # "")
       /\ place # "done" /\ host.os # "macOS" => release.name = ""
       /\ PartsSaid

\* No uptime has wrapped around.
UptimeByClock == uptime \in 0 .. ClockTime

HInv == InPlace /\ OnlySought /\ AllSought /\ NamesSaid /\ UptimeByClock

=============================================================================
